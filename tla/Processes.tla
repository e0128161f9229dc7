------------------------------ MODULE Processes ------------------------------
(***************************************************************************)
(* The two processes of one cowork launch and what they leave to the next: *)
(* the supervisor (src/daemon.ts), its worker (src/daemon-process.ts and   *)
(* the boot and cleanup of src/daemon-runtime.ts), their IPC channel, the  *)
(* files daemon.lock, daemon.pid and owner-terminal/, and the leases of    *)
(* the shared OURS daemon.                                                 *)
(*                                                                         *)
(* A Launches element is one launch: supervisor i forks worker i.  Either  *)
(* may be killed at any time; an orphaned worker learns of it from the     *)
(* closed channel, and the next launch does not wait for that.  The worker *)
(* hosts one room, whose owner ID outlives the processes in the ledger.    *)
(* The supervisor lock is taken and kept as module SupervisorLock shows.   *)
(***************************************************************************)
EXTENDS Naturals, Sequences

CONSTANTS
  MaxLaunch,  \* launches of `cowork serve`
  MaxKills,   \* processes lost without any cleanup
  MaxFails    \* failures of the file system or of the shared daemon

ASSUME ProcessConstants ==
  MaxLaunch \in Nat \ {0} /\ MaxKills \in Nat /\ MaxFails \in Nat

Launches == 1..MaxLaunch
None == 0
Owners == Launches   \* the worker of launch i mints at most owner i
StopRequest == None  \* shutdown_request, among the owners asked for

VARIABLES
  sup,      \* the supervisor of each launch
  wrk,      \* its worker
  down,     \* messages on their way to the worker
  up,       \* messages on their way to the supervisor
  lock,     \* daemon.lock: the worker recorded in it
  pid,      \* daemon.pid: the launch recorded in it
  records,  \* owner-terminal/: owners with a pending terminal event
  lease,    \* owner -> what the shared daemon knows of it
  ledger,   \* room-owners/: the owner recorded for the room
  kills, fails,
  stolen    \* the lock of a live worker has been unlinked

vars == <<sup, wrk, down, up, lock, pid, records, lease, ledger, kills, fails, stolen>>
files == <<lock, pid, stolen>>
sdk == <<records, lease, ledger>>
rest == <<kills, fails>>

Working == {"replay", "run", "deliver", "wait"}
Supervised(i) == sup[i].pc \in Working
Alive(i) == wrk[i].pc \notin {"off", "gone"}
Fails == fails < MaxFails /\ fails' = fails + 1

(* What a process knows goes with it; what it wrote to the channel stays *)
(* readable.                                                             *)
NewSupervisor ==
  [pc |-> "off", stopping |-> FALSE, quit |-> FALSE, timer |-> FALSE, owners |-> {}, todo |-> {}]
NewWorker == [pc |-> "off", asked |-> FALSE, id |-> None, owners |-> {}, todo |-> {}]
SupBecomes(i, s) == sup' = [sup EXCEPT ![i] = s]
WrkBecomes(i, w) == wrk' = [wrk EXCEPT ![i] = w]
Worker(i, pcs) == wrk[i].pc \in pcs
Move(i, where) == WrkBecomes(i, [wrk[i] EXCEPT !.pc = where])
SupervisorEnds(i, how) ==
  /\ SupBecomes(i, [NewSupervisor EXCEPT !.pc = how])
  /\ up' = [up EXCEPT ![i] = <<>>]
WorkerEnds(i) ==
  /\ WrkBecomes(i, [NewWorker EXCEPT !.pc = "gone"])
  /\ down' = [down EXCEPT ![i] = <<>>]

(* The first launch is over.  It either stopped in good order or was lost  *)
(* with its worker, leaving its lock, its PID file and a lease.            *)
Earlier == 1
Init == \E lost \in BOOLEAN :
  /\ sup = [i \in Launches |-> IF i = Earlier THEN [NewSupervisor EXCEPT !.pc = "done"] ELSE NewSupervisor]
  /\ wrk = [i \in Launches |-> IF i = Earlier THEN [NewWorker EXCEPT !.pc = "gone"] ELSE NewWorker]
  /\ down = [i \in Launches |-> <<>>] /\ up = [i \in Launches |-> <<>>]
  /\ lock = (IF lost THEN Earlier ELSE None) /\ pid = lock /\ ledger = lock
  /\ lease = [o \in Owners |-> IF o # Earlier THEN "unminted" ELSE IF lost THEN "held" ELSE "retired"]
  /\ records = {} /\ kills = 0 /\ fails = 0 /\ stolen = FALSE

-----------------------------------------------------------------------------
(* Terminal delivery, by whichever process runs replaySerial *)

Release(o) == lease' = [lease EXCEPT ![o] = "retired"]
(* A first event is not overwritten. *)
Publish(owners) == records' = records \cup owners
Forget(o) == ledger' = IF ledger = o THEN None ELSE ledger

(* One record of the listing: the owner is released, then the file is      *)
(* removed.  A record another process has removed meanwhile is skipped.    *)
ReplayOne(o) ==
  \/ o \in records /\ lease[o] # "retired" /\ Release(o) /\ UNCHANGED records
  \/ o \in records /\ lease[o] = "retired" /\ records' = records \ {o} /\ UNCHANGED lease
  \/ o \notin records /\ UNCHANGED <<records, lease>>
Replayed(o) == o \notin records'

(* The delivery is bounded: it fails, with or without its effect. *)
ReplayFails(todo) ==
  /\ Fails
  /\ \E o \in todo \cap records : UNCHANGED lease \/ Release(o)
  /\ UNCHANGED records

-----------------------------------------------------------------------------
(* The supervisor *)

(* acquireSupervisorLock admits one supervisor at a time; the records      *)
(* listed are those of the startup replay.                                 *)
Launch(i) ==
  /\ sup[i].pc = "off" /\ \A j \in Launches : ~Supervised(j) /\ (j < i => sup[j].pc # "off")
  /\ SupBecomes(i, [sup[i] EXCEPT !.pc = "replay", !.todo = records])
  /\ UNCHANGED <<wrk, down, up, files, sdk, rest>>

StartupReplay(i) == \E o \in sup[i].todo :
  /\ sup[i].pc = "replay" /\ ReplayOne(o)
  /\ SupBecomes(i, [sup[i] EXCEPT !.todo = IF Replayed(o) THEN @ \ {o} ELSE @])
  /\ UNCHANGED <<wrk, down, up, files, ledger, rest>>

StartupReplayFails(i) ==
  /\ sup[i].pc = "replay" /\ ReplayFails(sup[i].todo)
  /\ SupervisorEnds(i, "failed")
  /\ UNCHANGED <<wrk, down, files, ledger, kills>>

(* A signal that came during the replay cancels the launch. *)
Fork(i) ==
  /\ sup[i].pc = "replay" /\ sup[i].todo = {}
  /\ IF sup[i].stopping
     THEN SupervisorEnds(i, "done") /\ UNCHANGED <<wrk, down>>
     ELSE /\ SupBecomes(i, [sup[i] EXCEPT !.pc = "run"]) /\ UNCHANGED up
          /\ Move(i, "hello")
          /\ down' = [down EXCEPT ![i] = <<"init">>]
  /\ UNCHANGED <<files, sdk, rest>>

(* requestShutdown, once stopping is known to be unset.  Whatever sets     *)
(* stopping while the worker runs arms the watchdog with it.               *)
RequestShutdown(i, s) ==
  /\ SupBecomes(i, [s EXCEPT !.stopping = TRUE])
  /\ down' = IF Alive(i) THEN [down EXCEPT ![i] = Append(@, "shutdown")] ELSE down

Signal(i) ==
  /\ \/ sup[i].pc = "replay" /\ ~sup[i].stopping
        /\ SupBecomes(i, [sup[i] EXCEPT !.stopping = TRUE]) /\ UNCHANGED down
     \/ sup[i].pc = "run" /\ ~sup[i].stopping /\ RequestShutdown(i, sup[i])
     \/ sup[i].pc \in {"deliver", "wait"} /\ ~sup[i].quit
        /\ SupBecomes(i, [sup[i] EXCEPT !.quit = TRUE]) /\ UNCHANGED down
  /\ UNCHANGED <<wrk, up, files, sdk, rest>>

(* onMessage: an owner is admitted and acknowledged, unless stopping; a    *)
(* shutdown request starts the short timer before the signal's own path.   *)
SupervisorReceives(i) ==
  /\ sup[i].pc = "run" /\ up[i] # <<>>
  /\ up' = [up EXCEPT ![i] = Tail(@)]
  /\ \/ /\ Head(up[i]) = StopRequest
        /\ SupBecomes(i, [sup[i] EXCEPT !.timer = TRUE]) /\ UNCHANGED down
     \/ /\ Head(up[i]) \in Owners
        /\ SupBecomes(i, [sup[i] EXCEPT !.owners = IF sup[i].stopping THEN @ ELSE @ \cup {Head(up[i])}])
        /\ down' = [down EXCEPT ![i] = Append(@, IF sup[i].stopping THEN "refused" ELSE "registered")]
  /\ UNCHANGED <<wrk, files, sdk, rest>>

RequestForgotten(i) ==
  /\ sup[i].pc = "run" /\ sup[i].timer
  /\ SupBecomes(i, [sup[i] EXCEPT !.timer = FALSE]) /\ UNCHANGED down
  /\ UNCHANGED <<wrk, up, files, sdk, rest>>

RequestTimer(i) ==
  /\ sup[i].pc = "run" /\ sup[i].timer
  /\ IF sup[i].stopping THEN SupBecomes(i, [sup[i] EXCEPT !.timer = FALSE]) /\ UNCHANGED down
                        ELSE RequestShutdown(i, [sup[i] EXCEPT !.timer = FALSE])
  /\ UNCHANGED <<wrk, up, files, sdk, rest>>

(* 'disconnect', 'error' or a failed send: not proof of death, so the      *)
(* watchdog is armed and the child is kept until its exit.                 *)
ChannelFails(i) ==
  /\ sup[i].pc = "run" /\ ~sup[i].stopping
  /\ \/ ~Alive(i) /\ up[i] = <<>> /\ UNCHANGED fails
     \/ Alive(i) /\ Fails
  /\ SupBecomes(i, [sup[i] EXCEPT !.stopping = TRUE])
  /\ UNCHANGED <<wrk, down, up, files, sdk, kills>>

Watchdog(i) ==
  /\ sup[i].pc = "run" /\ sup[i].stopping /\ Alive(i) /\ WorkerEnds(i)
  /\ UNCHANGED <<sup, up, files, sdk, rest>>

(* 'exit': every owner held is recorded before the first delivery; where   *)
(* that fails the supervisor gives up with the events it has written.      *)
WorkerExited(i) ==
  /\ sup[i].pc = "run" /\ wrk[i].pc = "gone"
  /\ \/ /\ Publish(sup[i].owners)
        /\ SupBecomes(i, [sup[i] EXCEPT !.pc = "deliver", !.stopping = TRUE, !.timer = FALSE,
                                        !.todo = records'])
        /\ UNCHANGED <<up, fails>>
     \/ \E some \in SUBSET sup[i].owners :
          /\ Fails /\ Publish(some)
          /\ SupervisorEnds(i, "failed")
  /\ UNCHANGED <<wrk, down, files, lease, ledger, kills>>

Deliver(i) ==
  /\ sup[i].pc = "deliver"
  /\ \/ \E o \in sup[i].todo :
          /\ ReplayOne(o)
          /\ SupBecomes(i, [sup[i] EXCEPT !.todo = IF Replayed(o) THEN @ \ {o} ELSE @])
          /\ UNCHANGED up
     \/ sup[i].todo = {} /\ SupervisorEnds(i, "done") /\ UNCHANGED <<records, lease>>
  /\ UNCHANGED <<wrk, down, files, ledger, rest>>

DeliverFails(i) ==
  /\ sup[i].pc = "deliver" /\ ReplayFails(sup[i].todo)
  /\ SupBecomes(i, [sup[i] EXCEPT !.pc = "wait"])
  /\ UNCHANGED <<wrk, down, up, files, ledger, kills>>

(* A second signal ends the retries; the events stay for the next launch. *)
DeliverAgain(i) ==
  /\ sup[i].pc = "wait"
  /\ IF sup[i].quit THEN SupervisorEnds(i, "quit")
     ELSE SupBecomes(i, [sup[i] EXCEPT !.pc = "deliver", !.todo = records]) /\ UNCHANGED up
  /\ UNCHANGED <<wrk, down, files, sdk, rest>>

-----------------------------------------------------------------------------
(* The worker: handshake, daemon.lock and boot *)

(* What acquireDaemonLock does is synchronous: no message is taken in it. *)
Listening(i) == Alive(i) /\ wrk[i].pc \notin {"judged", "relock"}

UnhostedKeptId(i) == Move(i, "open")

Unhosted(i) == WrkBecomes(i, [wrk[i] EXCEPT !.pc = "open", !.id = None])

(* A shutdown request rejects the admission that waits for an answer. *)
AskToStop(i) ==
  WrkBecomes(i, IF Worker(i, {"admit"})
                THEN [wrk[i] EXCEPT !.asked = TRUE, !.pc = "open", !.id = None]
                ELSE [wrk[i] EXCEPT !.asked = TRUE, !.pc = IF @ = "hello" THEN "leave" ELSE @])

WorkerReceives(i) ==
  /\ Listening(i) /\ down[i] # <<>>
  /\ down' = [down EXCEPT ![i] = Tail(@)]
  /\ CASE Head(down[i]) = "init" /\ Worker(i, {"hello"}) -> Move(i, "import")
       [] Head(down[i]) = "shutdown" -> AskToStop(i)
       [] Head(down[i]) = "registered" /\ Worker(i, {"admit"}) ->
            WrkBecomes(i, [wrk[i] EXCEPT !.pc = "attach", !.owners = @ \cup {wrk[i].id}])
       [] Head(down[i]) = "refused" /\ Worker(i, {"admit"}) -> Unhosted(i)
       [] OTHER -> UNCHANGED wrk
  /\ UNCHANGED <<sup, up, files, sdk, rest>>

(* 'disconnect' comes when the supervisor is gone and the channel is read. *)
WorkerCutOff(i) ==
  /\ Listening(i) /\ ~Supervised(i) /\ down[i] = <<>> /\ ~wrk[i].asked
  /\ AskToStop(i)
  /\ UNCHANGED <<sup, down, up, files, sdk, rest>>

(* The handshake and the admission wait five seconds. *)
WorkerTimesOut(i) ==
  /\ \/ Worker(i, {"hello"}) /\ WorkerEnds(i)
     \/ Worker(i, {"admit"}) /\ Unhosted(i) /\ UNCHANGED down
  /\ UNCHANGED <<sup, up, files, sdk, rest>>

TakenOverLive(i) ==
  /\ Worker(i, {"import", "relock"})
  /\ IF wrk[i].asked THEN Move(i, "leave") /\ UNCHANGED <<down, lock>>
     ELSE IF pid = None \/ ~Supervised(pid) THEN lock' = i /\ Move(i, "boot") /\ UNCHANGED down
     ELSE WorkerEnds(i) /\ UNCHANGED lock
  /\ UNCHANGED <<sup, up, pid, stolen, sdk, rest>>

(* acquireDaemonLock.  A PID file of a live supervisor refuses the boot,   *)
(* as a live owner does; a failure here leaves nothing to clean up.        *)
TakeLock(i) ==
  /\ Worker(i, {"import", "relock"})
  /\ IF Worker(i, {"import"}) /\ wrk[i].asked THEN Move(i, "leave") /\ UNCHANGED <<down, lock>>
     ELSE IF lock = None /\ (pid = None \/ ~Supervised(pid))
     THEN lock' = i /\ Move(i, "boot") /\ UNCHANGED down
     ELSE IF lock # None /\ ~Alive(lock) THEN Move(i, "judged") /\ UNCHANGED <<down, lock>>
     ELSE WorkerEnds(i) /\ UNCHANGED lock
  /\ UNCHANGED <<sup, up, pid, stolen, sdk, rest>>

(* The stale record is unlinked by its name: it may have been replaced, or *)
(* be gone, which fails the boot.                                          *)
UnlinkStale(i) ==
  /\ Worker(i, {"judged"})
  /\ stolen' = (stolen \/ (lock # None /\ Alive(lock)))
  /\ lock' = None
  /\ IF lock = None THEN WorkerEnds(i) ELSE Move(i, "relock") /\ UNCHANGED down
  /\ UNCHANGED <<sup, up, pid, sdk, rest>>

(* restore: the recorded owner reconnects, else a fresh one is recorded    *)
(* first.  registerOwner asks the supervisor before the attachment.        *)
Record(o) ==
  /\ ledger' = o
  /\ lease' = IF lease[o] = "unminted" THEN [lease EXCEPT ![o] = "minted"] ELSE lease
AskUnheard(i, o) ==
  /\ WrkBecomes(i, [wrk[i] EXCEPT !.pc = "attach", !.id = o, !.owners = @ \cup {o}])
  /\ up' = [up EXCEPT ![i] = Append(@, o)]
Ask(i, o) ==
  /\ WrkBecomes(i, [wrk[i] EXCEPT !.pc = "admit", !.id = o])
  /\ up' = [up EXCEPT ![i] = Append(@, o)]

AskAdmission(i) ==
  /\ Worker(i, {"boot"})
  /\ IF wrk[i].asked THEN Unhosted(i) /\ UNCHANGED <<up, lease, ledger>>
     ELSE LET o == IF ledger = None THEN i ELSE ledger IN Record(o) /\ Ask(i, o)
  /\ UNCHANGED <<sup, down, files, records, rest>>

(* A retired owner is forgotten and a fresh one recorded and asked for. *)
Attach(i) ==
  /\ Worker(i, {"attach"})
  /\ IF lease[wrk[i].id] # "retired"
     THEN /\ lease' = [lease EXCEPT ![wrk[i].id] = "held"] /\ Move(i, "hosting")
          /\ UNCHANGED <<up, ledger>>
     ELSE Record(i) /\ IF wrk[i].asked THEN Unhosted(i) /\ UNCHANGED up ELSE Ask(i, i)
  /\ UNCHANGED <<sup, down, files, records, rest>>

(* A refused reconnect keeps its owner; a fresh one is released again, and *)
(* kept where that fails too.                                              *)
AttachFails(i) ==
  /\ Worker(i, {"attach"}) /\ Fails /\ Unhosted(i)
  /\ LET o == wrk[i].id IN
     \/ o = i /\ lease[i] = "minted" /\ Release(i) /\ Forget(i)
     \/ lease[o] # "retired" /\ lease' = [lease EXCEPT ![o] = "held"] /\ UNCHANGED ledger
     \/ UNCHANGED <<lease, ledger>>
  /\ UNCHANGED <<sup, down, up, files, records, kills>>

(* writeDaemonPid refuses where the file names a live supervisor. *)
PidIsTaken(i) == pid # None /\ pid # i /\ Supervised(pid)
RemovePid(i) == pid' = IF pid = i THEN None ELSE pid

(* The end of boot: transports, then writeDaemonPid, then ready.  A stop   *)
(* that was asked for, or a failure, turns it into the cleanup.            *)
FinishBoot(i) ==
  /\ Worker(i, {"hosting", "open"})
  /\ IF wrk[i].asked \/ PidIsTaken(i)
     THEN Move(i, "drain") /\ UNCHANGED pid
     ELSE Move(i, "serve") /\ pid' = i
  /\ UNCHANGED <<sup, down, up, lock, stolen, sdk, rest>>

BootFails(i) ==
  /\ Worker(i, {"boot", "hosting", "open"}) /\ Fails /\ Move(i, "drain")
  /\ UNCHANGED <<sup, down, up, files, sdk, kills>>

-----------------------------------------------------------------------------
(* The worker: cleanupUnlocked and the exit *)

StartCleanup(i) ==
  /\ Worker(i, {"serve"}) /\ wrk[i].asked /\ Move(i, "drain")
  /\ UNCHANGED <<sup, down, up, files, sdk, rest>>

(* Transports stop, the running work is drained and daemon.pid removed;    *)
(* beforeTerminalRelease then records SessionEnd for every owner and lists *)
(* the pending events.  A drain that failed attests and releases nothing.  *)
Drain(i) ==
  /\ Worker(i, {"drain"})
  /\ RemovePid(i)
  /\ \/ /\ Publish(wrk[i].owners)
        /\ WrkBecomes(i, [wrk[i] EXCEPT !.pc = "release", !.todo = records'])
        /\ UNCHANGED fails
     \/ Fails /\ Move(i, "unlock") /\ UNCHANGED records
  /\ UNCHANGED <<sup, down, up, lock, stolen, lease, ledger, kills>>

SessionEnd(i) == \E o \in wrk[i].todo :
  /\ Worker(i, {"release"}) /\ ReplayOne(o)
  /\ WrkBecomes(i, [wrk[i] EXCEPT !.todo = IF Replayed(o) THEN @ \ {o} ELSE @])
  /\ UNCHANGED <<sup, down, up, files, ledger, rest>>

SessionEndFails(i) ==
  /\ Worker(i, {"release"}) /\ ReplayFails(wrk[i].todo)
  /\ Move(i, "unlock")
  /\ UNCHANGED <<sup, down, up, files, ledger, kills>>

(* unhostAll: the lease is released once more and its owner forgotten. *)
Unhost(i) ==
  /\ Worker(i, {"release"}) /\ wrk[i].todo = {}
  /\ Move(i, "unlock")
  /\ IF wrk[i].id = None THEN UNCHANGED <<lease, ledger>>
     ELSE Release(wrk[i].id) /\ Forget(wrk[i].id)
  /\ UNCHANGED <<sup, down, up, files, records, rest>>

(* The lock goes last, and only if it still is this worker's own. *)
Unlock(i) ==
  /\ Worker(i, {"unlock"})
  /\ lock' = (IF lock = i THEN None ELSE lock) /\ Move(i, "leave")
  /\ UNCHANGED <<sup, down, up, pid, stolen, sdk, rest>>

(* The acknowledgement changes nothing at the supervisor: the exit does. *)
Leave(i) ==
  /\ Worker(i, {"leave"}) /\ WorkerEnds(i)
  /\ UNCHANGED <<sup, up, files, sdk, rest>>

-----------------------------------------------------------------------------
(* The stop command and the faults *)

(* stopDaemon: the control session passes the request to its supervisor. *)
StopAsked(i) == \E k \in 1..Len(up[i]) : up[i][k] = StopRequest
StopCommand(i) ==
  /\ Worker(i, {"serve"}) /\ Supervised(i) /\ ~sup[i].stopping /\ ~StopAsked(i) /\ ~sup[i].timer
  /\ up' = [up EXCEPT ![i] = Append(@, StopRequest)]
  /\ UNCHANGED <<sup, wrk, down, files, sdk, rest>>

Kill(i) ==
  /\ kills < MaxKills /\ kills' = kills + 1
  /\ \/ Supervised(i) /\ SupervisorEnds(i, "dead") /\ UNCHANGED <<wrk, down>>
     \/ Alive(i) /\ WorkerEnds(i) /\ UNCHANGED <<sup, up>>
  /\ UNCHANGED <<files, sdk, fails>>

SupervisorStep(i) ==
  \/ StartupReplay(i) \/ StartupReplayFails(i) \/ Fork(i)
  \/ SupervisorReceives(i) \/ RequestTimer(i) \/ Watchdog(i)
  \/ WorkerExited(i) \/ Deliver(i) \/ DeliverFails(i) \/ DeliverAgain(i)
WorkerStep(i) ==
  \/ WorkerReceives(i) \/ WorkerCutOff(i) \/ TakeLock(i) \/ UnlinkStale(i)
  \/ AskAdmission(i) \/ Attach(i) \/ AttachFails(i) \/ FinishBoot(i)
  \/ StartCleanup(i) \/ Drain(i) \/ SessionEnd(i) \/ SessionEndFails(i)
  \/ Unhost(i) \/ Unlock(i) \/ Leave(i)
Environment(i) ==
  Launch(i) \/ Signal(i) \/ ChannelFails(i) \/ WorkerTimesOut(i) \/ BootFails(i)
  \/ StopCommand(i) \/ Kill(i)

Next == \E i \in Launches : SupervisorStep(i) \/ WorkerStep(i) \/ Environment(i)
Spec == Init /\ [][Next]_vars

(* Both event loops turn, the timers expire and a call to the shared       *)
(* daemon comes to an end.                                                 *)
Fairness ==
  \A i \in Launches : WF_vars(SupervisorStep(i)) /\ WF_vars(WorkerStep(i))
LiveSpec == Spec /\ Fairness

-----------------------------------------------------------------------------
(* Properties *)

(* The shape of every variable, and when a worker has the owner ID of its  *)
(* room in hand.                                                           *)
TypeOK ==
  /\ sup \in [Launches -> [pc : Working \cup {"off", "done", "quit", "failed", "dead"},
       stopping : BOOLEAN, quit : BOOLEAN, timer : BOOLEAN,
       owners : SUBSET Owners, todo : SUBSET Owners]]
  /\ wrk \in [Launches -> [pc : {"off", "hello", "import", "judged", "relock", "boot", "admit",
         "attach", "hosting", "open", "serve", "drain", "release", "unlock", "leave", "gone"},
       asked : BOOLEAN, id : Owners \cup {None},
       owners : SUBSET Owners, todo : SUBSET Owners]]
  /\ down \in [Launches -> Seq({"init", "shutdown", "registered", "refused"})]
  /\ up \in [Launches -> Seq(Owners \cup {StopRequest})]
  /\ {lock, pid, ledger} \subseteq Launches \cup {None}
  /\ records \subseteq Owners /\ lease \in [Owners -> {"unminted", "minted", "held", "retired"}]
  /\ kills \in 0..MaxKills /\ fails \in 0..MaxFails /\ stolen \in BOOLEAN
  /\ \A i \in Launches : /\ Worker(i, {"admit", "attach", "hosting"}) => wrk[i].id # None
                         /\ Worker(i, {"open"}) => wrk[i].id = None

(* From the acquired lock to its release. *)
Hosting(i) == Worker(i, {"boot", "admit", "attach", "hosting", "open", "serve", "drain",
                         "release", "unlock"})
(* daemon.lock admits one worker at a time, orphans of an earlier launch   *)
(* included, unless a stale lock was judged twice (UnlinkStale).  Whoever  *)
(* is ready is named by daemon.pid and, while the lock is good, holds the  *)
(* lease of its room, though other launches remove PID files, replay       *)
(* events and forget owners.                                               *)
ServesAlone ==
  /\ ~stolen => \A i, j \in Launches : Hosting(i) /\ Hosting(j) => i = j
  /\ \A i \in Launches : Worker(i, {"serve"}) /\ Supervised(i) =>
       /\ pid = i
       /\ ~stolen /\ wrk[i].id # None => lease[wrk[i].id] = "held"

(* Whoever the worker attaches is in the supervisor's memory, so that its  *)
(* end is delivered even if the worker cannot: once the worker is gone,    *)
(* each of those owners is retired or still recorded.  A lease that nobody *)
(* has released is the recorded owner's, for the next worker to reconnect. *)
OwnersAreAccounted == \A i \in Launches :
  /\ sup[i].pc = "run" /\ wrk[i].id # None /\ Worker(i, {"attach", "hosting", "serve", "drain"})
       => wrk[i].id \in sup[i].owners
  /\ sup[i].pc = "deliver" => \A o \in sup[i].owners : o \in sup[i].todo \/ lease[o] = "retired"
  /\ sup[i].pc = "wait" => \A o \in sup[i].owners : o \in records \/ lease[o] = "retired"
  /\ ~stolen => \A o \in Owners : lease[o] = "held" => ledger = o

(* A launch that a signal, the stop command, a broken channel or the loss  *)
(* of one of its processes has ended comes to its end: the worker is gone, *)
(* by itself or by the watchdog, and the supervisor gives up its lock.     *)
Parted(i) == sup[i].pc # "replay" /\ (Supervised(i) # Alive(i))
Over(i) == ~Supervised(i) /\ ~Alive(i)
StopConcludes == \A i \in Launches \ {Earlier} :
  (sup[i].stopping \/ sup[i].timer \/ StopAsked(i) \/ Parted(i)) ~> Over(i)
=============================================================================

------------------------------- MODULE Daemon -------------------------------
(***************************************************************************)
(* One worker from boot to release (CoworkDaemon,                          *)
(* src/daemon-runtime.ts): the recovery phases over the listed rooms,      *)
(* the notifications that arrive meanwhile, the retries of a fan-out that  *)
(* failed in transport, and the cleanup after a shutdown or a failed boot. *)
(* A room's own work (RoomRelay) is a pass here: it serves the room's      *)
(* backlog or it fails.  What an earlier worker left on disk is an initial *)
(* state, so a crash and a restart need no steps of their own.             *)
(***************************************************************************)
EXTENDS Integers

CONSTANTS
  Rooms,      \* room identifiers
  NoRoom,     \* no room is being recovered
  Residues,   \* the states an earlier worker may have left its rooms in
  MaxErrors,  \* calls that may fail in one run
  MaxNews,    \* inbox rows that may arrive in one run
  Terminal    \* beforeTerminalRelease is configured (owners outlive the process)

Phases == {"restore", "requests", "reconcile", "close", "fanout"}
After == [restore |-> "requests", requests |-> "reconcile", reconcile |-> "close",
          close |-> "fanout", fanout |-> "transports"]
States == {"open", "closing", "closed"}
Callers == {"watch", "flush"}

ASSUME DaemonConstants ==
  /\ NoRoom \notin Rooms /\ Residues \subseteq [Rooms -> States]
  /\ MaxErrors \in Nat /\ MaxNews \in Nat /\ Terminal \in BOOLEAN

VARIABLES
  pc,          \* where boot or cleanup is
  todo, busy,  \* the rooms left in this phase, and the one at work
  healthy,     \* the rooms boot goes on with
  state,       \* the durable state of each room
  pending,     \* rooms with a pending lifecycle request
  hosted,      \* the registry's packets
  closes,      \* rooms an operator's request is closing
  announce,    \* rooms whose watcher has something to announce
  queued,      \* queuedNotifications
  notes,       \* notificationWork: <<room, who called the handler>>
  backlog,     \* rooms with unread rows or unsent content
  failed,      \* ... whose fan-out failed in transport and was not made up for
  dropped,     \* ... whose queued notification was handled and failed
  retry,       \* fanoutRetries and fanoutWork
  sick,        \* rooms whose fanout health source is false
  cancelled,
  errors,      \* cleanup has collected an error
  attested,    \* beforeTerminalRelease has returned
  errs, news   \* what is left of MaxErrors and MaxNews

startup == <<todo, busy, healthy>>
disk == <<state, pending>>
traffic == <<announce, queued, notes>>
debt == <<backlog, failed, dropped>>
fanout == <<retry, sick>>
ending == <<errors, attested>>
budget == <<errs, news>>
vars == <<pc, startup, disk, hosted, closes, traffic, debt, fanout, cancelled, ending, budget>>

Init ==
  /\ pc = "down" /\ todo = {} /\ busy = NoRoom /\ healthy = {} /\ hosted = {} /\ closes = {}
  /\ state \in Residues /\ pending \in SUBSET Rooms
  /\ announce = {} /\ queued = {} /\ notes = {}
  /\ backlog = Rooms /\ failed = {} /\ dropped = {}
  /\ retry = [r \in Rooms |-> "none"] /\ sick = {}
  /\ cancelled = FALSE /\ errors = FALSE /\ attested = FALSE
  /\ errs = MaxErrors /\ news = MaxNews

Cleanup == {"stopping", "settling", "terminal", "unhosting", "release"}
Stopping == pc \in Cleanup \cup {"ended"}
Ready == pc \in {"flush", "up"}
Attempting(r) == retry[r] \in {"loading", "draining", "unhosting"}
Serves(r) == r \in hosted /\ state[r] = "open"

Fault == errs > 0 /\ errs' = errs - 1 /\ UNCHANGED news
Retry(r, where) == retry' = [retry EXCEPT ![r] = where]
Go(where) == pc' = where /\ UNCHANGED <<retry, cancelled>>
Unhost(r) == hosted' = hosted \ {r} /\ announce' = announce \ {r}
Pay(r) == backlog' = backlog \ {r} /\ failed' = failed \ {r} /\ dropped' = dropped \ {r}

CancelRetriesNot == retry
(* cancelFanoutRetries clears the timers; attempts that run are awaited.    *)
CancelRetries == [r \in Rooms |-> IF Attempting(r) THEN retry[r] ELSE "none"]
CleanUp == pc' = "stopping" /\ cancelled' = TRUE /\ retry' = CancelRetries

-----------------------------------------------------------------------------
(* boot *)

Boot ==
  /\ pc = "down" /\ ~cancelled /\ Go("host")
  /\ UNCHANGED <<startup, disk, hosted, closes, traffic, debt, sick, ending, budget>>

HostReady ==
  /\ pc = "host"
  /\ IF cancelled THEN CleanUp ELSE Go("list")
  /\ UNCHANGED <<startup, disk, hosted, closes, traffic, debt, sick, ending, budget>>

ListRooms ==
  /\ pc = "list"
  /\ IF cancelled THEN CleanUp /\ UNCHANGED startup
     ELSE /\ Go("restore") /\ UNCHANGED busy
          /\ healthy' = {r \in Rooms : state[r] # "closed"} /\ todo' = Rooms
  /\ UNCHANGED <<disk, hosted, closes, traffic, debt, sick, ending, budget>>

BootFailsBusy ==
  /\ pc \in {"host", "list", "transports"} \/ (pc = "requests" /\ busy # NoRoom)
  /\ Fault /\ CleanUp
  /\ UNCHANGED <<startup, disk, hosted, closes, traffic, debt, sick, ending>>
(* What throws outside recoverPhase: the host, the listing, reading a       *)
(* lifecycle request, starting the transports.                             *)
BootFails ==
  /\ pc \in {"host", "list", "transports"} \/ (pc = "requests" /\ busy # NoRoom)
  /\ Fault /\ CleanUp /\ busy' = NoRoom
  /\ UNCHANGED <<todo, healthy, disk, hosted, closes, traffic, debt, sick, ending>>

(* Only a request changes a room's state before its phase, and it takes     *)
(* the room out of healthy: the state is still the one boot listed.         *)
Eligible(r) ==
  \/ pc = "requests" /\ (state[r] = "closed" \/ r \in healthy)
  \/ pc = "restore" /\ r \in healthy
  \/ pc \in {"reconcile", "fanout"} /\ r \in healthy /\ state[r] = "open"
  \/ pc = "close" /\ r \in healthy /\ state[r] = "closing"

StartWork(r) ==
  /\ pc \in Phases /\ busy = NoRoom /\ r \in todo /\ Eligible(r)
  /\ busy' = r /\ todo' = todo \ {r}
  /\ UNCHANGED <<pc, healthy, disk, hosted, closes, traffic, debt, fanout, cancelled, ending, budget>>

NextPhase ==
  /\ pc \in Phases /\ busy = NoRoom /\ \A r \in todo : ~Eligible(r)
  /\ Go(After[pc]) /\ todo' = Rooms
  /\ UNCHANGED <<busy, healthy, disk, hosted, closes, traffic, debt, sick, ending, budget>>

(* The end of recoverPhase.  Its checkpoint lies inside the try, so that a  *)
(* cancelled boot quarantines the room it was at, like a failed phase.      *)
WorkEnds(r, well) ==
  /\ busy = r /\ busy' = NoRoom
  /\ IF well /\ ~cancelled
     THEN LET host == IF pc = "restore" THEN {r} ELSE {} IN  \* its watcher starts with an announcement
          hosted' = hosted \cup host /\ announce' = announce \cup host /\ UNCHANGED healthy
     ELSE Unhost(r) /\ healthy' = healthy \ {r}
  /\ UNCHANGED <<pc, todo, pending, closes, queued, notes, cancelled, ending>>

Recovered(r) ==
  /\ pc \in {"restore", "reconcile"} /\ WorkEnds(r, TRUE)
  /\ UNCHANGED <<state, debt, fanout, budget>>

Fails(r) ==
  /\ pc \in Phases \ {"requests"} /\ WorkEnds(r, FALSE) /\ Fault
  /\ UNCHANGED <<state, debt, fanout>>

(* closeRoom fails after its first save, before or after the packet is gone. *)
StaysClosing(r) ==
  /\ state' = [state EXCEPT ![r] = "closing"]
  /\ Unhost(r) \/ UNCHANGED <<hosted, announce>>

(* resumeLifecycleRequest: one that fails leaves its room hosted, but out   *)
(* of the later phases.  A deleted room is a closed one.                    *)
ResumeRequest(r) ==
  /\ pc = "requests" /\ busy = r /\ busy' = NoRoom
  /\ IF r \notin pending THEN UNCHANGED <<healthy, disk, hosted, announce, budget>>
     ELSE /\ healthy' = healthy \ {r}
          /\ \/ /\ Unhost(r) /\ UNCHANGED budget
                /\ state' = [state EXCEPT ![r] = "closed"] /\ pending' = pending \ {r}
             \/ /\ Fault /\ pending' \in {pending, pending \ {r}}
                /\ \/ UNCHANGED <<state, hosted, announce>>
                   \/ state[r] # "closed" /\ StaysClosing(r)
  /\ UNCHANGED <<pc, todo, closes, queued, notes, debt, fanout, cancelled, ending>>

FinishClosing(r) ==
  /\ pc = "close" /\ busy = r /\ busy' = NoRoom /\ Unhost(r)
  /\ state' = [state EXCEPT ![r] = "closed"]
  /\ healthy' = IF cancelled THEN healthy \ {r} ELSE healthy
  /\ UNCHANGED <<pc, todo, pending, closes, queued, notes, debt, fanout, cancelled, ending, budget>>

FanOut(r) ==
  /\ pc = "fanout" /\ WorkEnds(r, TRUE) /\ Pay(r)
  /\ UNCHANGED <<state, fanout, budget>>

(* Failed in transport: unless boot is cancelled the room stays hosted.     *)
DeferFanout(r) ==
  /\ pc = "fanout" /\ WorkEnds(r, TRUE) /\ Fault
  /\ Retry(r, "deferred") /\ failed' = failed \cup {r} /\ sick' = sick \cup {r}
  /\ UNCHANGED <<state, backlog, dropped>>

TransportsUpUnarmed ==
  /\ pc = "transports"
  /\ IF cancelled THEN CleanUp /\ UNCHANGED <<queued, notes>>
     ELSE /\ Go("flush") /\ queued' = {}
          /\ notes' = notes \cup {<<r, "flush">> : r \in queued \cap hosted}
  /\ UNCHANGED <<startup, disk, hosted, closes, announce, debt, sick, ending, budget>>
(* ready, deferFanout for each deferred room, and the flush of the queue.   *)
TransportsUp ==
  /\ pc = "transports"
  /\ IF cancelled THEN CleanUp /\ UNCHANGED <<queued, notes>>
     ELSE /\ pc' = "flush" /\ UNCHANGED cancelled
          /\ retry' = [r \in Rooms |-> IF retry[r] = "deferred" THEN "timer" ELSE retry[r]]
          /\ notes' = notes \cup {<<r, "flush">> : r \in queued \cap hosted}
          /\ queued' = {}
  /\ UNCHANGED <<startup, disk, hosted, closes, announce, debt, sick, ending, budget>>

(* The checkpoint and writePid, which may throw.                           *)
Flushed ==
  /\ pc = "flush" /\ \A r \in Rooms : <<r, "flush">> \notin notes
  /\ IF cancelled THEN CleanUp /\ UNCHANGED budget
     ELSE \/ Go("up") /\ UNCHANGED budget
          \/ CleanUp /\ Fault
  /\ UNCHANGED <<startup, disk, hosted, closes, traffic, debt, sick, ending>>

-----------------------------------------------------------------------------
(* notifications *)

Arrive(r) ==
  /\ r \in hosted /\ news > 0 /\ news' = news - 1
  /\ backlog' = backlog \cup {r} /\ announce' = announce \cup {r}
  /\ UNCHANGED <<pc, startup, disk, hosted, closes, queued, notes, failed, dropped, fanout, cancelled,
                 ending, errs>>

(* handleNotification: the watcher waits for what it returns, and takes a   *)
(* queued or refused call for a success.                                   *)
Announce(r) ==
  /\ r \in announce /\ <<r, "watch">> \notin notes /\ announce' = announce \ {r}
  /\ \/ Stopping /\ UNCHANGED <<queued, notes>>
     \/ Ready /\ notes' = notes \cup {<<r, "watch">>} /\ UNCHANGED queued
     \/ ~Stopping /\ ~Ready /\ queued' = queued \cup {r} /\ UNCHANGED notes
  /\ UNCHANGED <<pc, startup, disk, hosted, closes, debt, fanout, cancelled, ending, budget>>

(* A closed intake, a room that closes or is gone: nothing is served.      *)
NoteDone(r, caller) ==
  /\ <<r, caller>> \in notes /\ notes' = notes \ {<<r, caller>>}
  /\ \/ Serves(r) /\ Pay(r)
     \/ (Stopping \/ ~Serves(r)) /\ UNCHANGED debt
  /\ UNCHANGED <<pc, startup, disk, hosted, closes, announce, queued, fanout, cancelled, ending, budget>>

(* The follower of a hosted room backs off and announces again; a failure   *)
(* of the flush is only logged.                                            *)
NoteFails(r, caller) ==
  /\ <<r, caller>> \in notes /\ notes' = notes \ {<<r, caller>>} /\ Fault
  /\ IF caller = "watch" THEN announce' = announce \cup ({r} \cap hosted) /\ UNCHANGED dropped
     ELSE dropped' = dropped \cup ({r} \cap backlog) /\ UNCHANGED announce
  /\ UNCHANGED <<pc, startup, disk, hosted, closes, queued, backlog, failed, fanout, cancelled, ending>>

-----------------------------------------------------------------------------
(* retries of a deferred fan-out *)

Fire(r) ==
  /\ retry[r] = "timer" /\ Retry(r, "loading")
  /\ UNCHANGED <<pc, startup, disk, hosted, closes, traffic, debt, sick, cancelled, ending, budget>>

(* A room that is closing or gone owes no fan-out.                         *)
Load(r) ==
  /\ retry[r] = "loading"
  /\ Retry(r, IF ~Stopping /\ state[r] = "open" THEN "draining" ELSE "none")
  /\ sick' = IF ~Stopping /\ state[r] # "open" THEN sick \ {r} ELSE sick
  /\ UNCHANGED <<pc, startup, disk, hosted, closes, traffic, debt, cancelled, ending, budget>>

(* Outside transport: quarantine, which unhosts and waits for it.           *)
AttemptFails(r) ==
  /\ retry[r] \in {"loading", "draining"} /\ Fault
  /\ IF Stopping THEN Retry(r, "none") /\ UNCHANGED <<hosted, announce>>
     ELSE Retry(r, "unhosting") /\ Unhost(r)
  /\ UNCHANGED <<pc, startup, disk, closes, queued, notes, debt, sick, cancelled, ending>>

DrainCoalesced(r) ==
  /\ retry[r] = "draining" /\ Retry(r, "none")
  /\ IF Serves(r) /\ <<r, "watch">> \notin notes THEN Pay(r) ELSE UNCHANGED debt
  /\ sick' = IF Stopping THEN sick ELSE sick \ {r}
  /\ UNCHANGED <<pc, startup, disk, hosted, closes, traffic, cancelled, ending, budget>>
(* drainPending waits for a pump that already runs, so what it returned     *)
(* from has been served.                                                   *)
DrainOk(r) ==
  /\ retry[r] = "draining" /\ Retry(r, "none")
  /\ IF Serves(r) THEN Pay(r) ELSE UNCHANGED debt
  /\ sick' = IF Stopping THEN sick ELSE sick \ {r}
  /\ UNCHANGED <<pc, startup, disk, hosted, closes, traffic, cancelled, ending, budget>>

DrainTransport(r) ==
  /\ retry[r] = "draining" /\ Fault
  /\ Retry(r, IF Stopping THEN "none" ELSE "timer")
  /\ UNCHANGED <<pc, startup, disk, hosted, closes, traffic, debt, sick, cancelled, ending>>

Unhosted(r) ==
  /\ retry[r] = "unhosting" /\ Retry(r, "none")
  /\ UNCHANGED <<pc, startup, disk, hosted, closes, traffic, debt, sick, cancelled, ending, budget>>

-----------------------------------------------------------------------------
(* operators' requests, shutdown and cleanup *)

StartClose(r) ==
  /\ Ready /\ r \notin closes /\ (Serves(r) \/ state[r] = "closing")
  /\ closes' = closes \cup {r} /\ state' = [state EXCEPT ![r] = "closing"]
  /\ UNCHANGED <<pc, startup, pending, hosted, traffic, debt, fanout, cancelled, ending, budget>>

FinishClose(r) ==
  /\ r \in closes /\ closes' = closes \ {r}
  /\ \/ Unhost(r) /\ state' = [state EXCEPT ![r] = "closed"] /\ UNCHANGED budget
     \/ Fault /\ StaysClosing(r)
  /\ UNCHANGED <<pc, startup, pending, queued, notes, debt, fanout, cancelled, ending>>

Shutdown ==
  /\ ~cancelled /\ cancelled' = TRUE
  /\ UNCHANGED <<pc, startup, disk, hosted, closes, traffic, debt, fanout, ending, budget>>

StopBooted ==
  /\ pc = "up" /\ cancelled /\ CleanUp
  /\ UNCHANGED <<startup, disk, hosted, closes, traffic, debt, sick, ending, budget>>
(* shutdownCoordinated, when no boot is under way.                         *)
StopIdle ==
  /\ pc \in {"down", "up"} /\ cancelled /\ CleanUp
  /\ UNCHANGED <<startup, disk, hosted, closes, traffic, debt, sick, ending, budget>>

MayFail == UNCHANGED <<errors, budget>> \/ (Fault /\ errors' = TRUE)

(* stop() drains the requests it has accepted, unless it throws.            *)
StopTransports ==
  /\ pc = "stopping" /\ Go("settling") /\ MayFail
  /\ closes = {} \/ errors'
  /\ UNCHANGED <<startup, disk, hosted, closes, traffic, debt, sick, attested>>

(* The notifications and attempts settle, the intake drains, and the PID    *)
(* file is removed.                                                        *)
Settle ==
  /\ pc = "settling" /\ notes = {} /\ \A r \in Rooms : ~Attempting(r)
  /\ Go(IF Terminal THEN "terminal" ELSE "unhosting") /\ MayFail
  /\ UNCHANGED <<startup, disk, hosted, closes, traffic, debt, sick, attested>>

(* The host's listeners are gone and its followers have settled; the owners *)
(* are told of the end only if nothing has failed before.                  *)
Attest ==
  /\ pc = "terminal" /\ announce' = {}
  /\ \/ ~errors /\ Go("unhosting") /\ attested' = TRUE /\ UNCHANGED <<errors, budget>>
     \/ errors /\ Go("release") /\ UNCHANGED <<ending, budget>>
     \/ Fault /\ Go("release") /\ errors' = TRUE /\ UNCHANGED attested
  /\ UNCHANGED <<startup, disk, hosted, closes, queued, notes, debt, sick>>

(* unhostAll and the host's shutdown.                                      *)
UnhostAll ==
  /\ pc = "unhosting" /\ Go("release") /\ MayFail
  /\ hosted' = {} /\ announce' = {}
  /\ UNCHANGED <<startup, disk, closes, queued, notes, debt, sick, attested>>

Release ==
  /\ pc = "release" /\ Go("ended") /\ MayFail
  /\ UNCHANGED <<startup, disk, hosted, closes, traffic, debt, sick, attested>>

-----------------------------------------------------------------------------
Work(r) ==
  \/ StartWork(r) \/ Recovered(r) \/ Fails(r) \/ ResumeRequest(r)
  \/ FinishClosing(r) \/ FanOut(r) \/ DeferFanout(r)
BootStep ==
  \/ Boot \/ HostReady \/ ListRooms \/ BootFails \/ NextPhase \/ TransportsUp \/ Flushed
  \/ \E r \in Rooms : Work(r)
Notify(r) == Announce(r) \/ \E c \in Callers : NoteDone(r, c) \/ NoteFails(r, c)
RetryStep(r) == Fire(r) \/ Load(r) \/ AttemptFails(r) \/ DrainOk(r) \/ DrainTransport(r) \/ Unhosted(r)
CleanupStep == StopIdle \/ StopTransports \/ Settle \/ Attest \/ UnhostAll \/ Release

Next ==
  \/ BootStep \/ CleanupStep \/ Shutdown
  \/ \E r \in Rooms : Arrive(r) \/ Notify(r) \/ RetryStep(r) \/ StartClose(r) \/ FinishClose(r)

Spec == Init /\ [][Next]_vars

(* Started promises settle and timers fire; nobody has to shut down, close, *)
(* send a message or fail.                                                 *)
Fairness ==
  /\ WF_vars(BootStep) /\ WF_vars(CleanupStep)
  /\ \A r \in Rooms :
       /\ WF_vars(RetryStep(r)) /\ WF_vars(FinishClose(r)) /\ WF_vars(Announce(r))
       /\ \A c \in Callers : WF_vars(NoteDone(r, c) \/ NoteFails(r, c))
FairSpec == Spec /\ Fairness

-----------------------------------------------------------------------------
(* Properties *)

FlagsOK == cancelled \in BOOLEAN /\ errors \in BOOLEAN /\ attested \in BOOLEAN
ShapeOK ==
  /\ pc \in {"down", "host", "list", "transports", "flush", "up", "ended"} \cup Phases \cup Cleanup
  /\ todo \subseteq Rooms /\ healthy \subseteq Rooms
  /\ busy \in Rooms \cup {NoRoom} /\ (busy # NoRoom => pc \in Phases)
  /\ state \in [Rooms -> States] /\ pending \subseteq Rooms
  /\ hosted \subseteq Rooms /\ closes \subseteq Rooms
  /\ announce \subseteq hosted /\ queued \subseteq Rooms /\ notes \subseteq Rooms \X Callers
  /\ backlog \subseteq Rooms /\ failed \subseteq Rooms /\ dropped \subseteq backlog
  /\ retry \in [Rooms -> {"none", "deferred", "timer", "loading", "draining", "unhosting"}]
  /\ sick \subseteq Rooms
  /\ errs \in 0..MaxErrors /\ news \in 0..MaxNews

(* Types, and only a recovery phase has a room at work: whatever ends boot,  *)
(* cleanup finds no recovery running (bootUnlocked and its catch).          *)
TypeOK == ShapeOK /\ FlagsOK

Responsible(r) ==
  \/ r \in announce \/ \E c \in Callers : <<r, c>> \in notes
  \/ retry[r] \in {"timer", "loading", "draining"}

(* Once the worker is ready, each open room with unread rows or unsent      *)
(* content has somebody who will come back to it: its watcher, a running    *)
(* notification or a retry (bootUnlocked, deferFanout and handleNotification *)
(* together).  A flushed notification that failed is the exception, unless  *)
(* the room's fan-out failed before.                                        *)
UnreadHasAnOwner ==
  Ready => \A r \in backlog : Serves(r) => Responsible(r) \/ r \in dropped \ failed

(* A room whose start-up fan-out failed reads unhealthy until its backlog    *)
(* has been served, whoever served it (setFanoutHealth, drainPending).       *)
FanoutHealthIsHonest == \A r \in failed : state[r] = "open" => r \in sick

(* When the leases are released nothing still works on a room or will: no    *)
(* notification, no attempt and no timer outlives the cleanup                *)
(* (cleanupUnlocked, cancelFanoutRetries).                                  *)
QuietOnceSettled ==
  pc \in {"terminal", "unhosting", "release", "ended"} =>
    notes = {} /\ \A r \in Rooms : retry[r] = "none"

(* The owners hear of the session's end only after every accepted request    *)
(* has been answered, however a failed stop left them                       *)
(* (cleanupUnlocked, "cannot attest SessionEnd").                           *)
AttestedIsDrained == attested => closes = {}

(* The order of cleanupUnlocked holds wherever it starts from: the requests  *)
(* are answered before the end is told, the work before the leases go.      *)
CleanupIsOrderly == QuietOnceSettled /\ AttestedIsDrained

(* A shutdown and a failed boot end, wherever they meet a phase, a           *)
(* notification, an attempt or a request (shutdownCoordinated).             *)
ShutdownCompletes == cancelled ~> pc = "ended"

(* A deferred fan-out is retried until the room is healthy, unhosted or the  *)
(* worker stops (deferFanout), and what a watcher still has to announce once *)
(* the worker is up is served, whatever fails on the way                     *)
(* (handleNotification, follow).                                             *)
DueIsServed ==
  \A r \in Rooms : r \in sick \/ (pc = "up" /\ r \in announce)
    ~> Stopping \/ ((r \notin sick \/ r \notin hosted) /\ (r \notin backlog \/ ~Serves(r)))

(* The worker comes to an end of what it began: of its shutdown, of a        *)
(* fan-out it deferred and of what was announced to it.                     *)
WorkCompletes == ShutdownCompletes /\ DueIsServed

=============================================================================

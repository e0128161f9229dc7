--------------------------- MODULE ProcessesProofs ---------------------------
(***************************************************************************)
(* Proofs about Processes, for any number of launches, kills and failures: *)
(* types, that one worker at a time has daemon.lock and the room, and that *)
(* the owner IDs of a worker are never lost between the two processes.     *)
(*                                                                         *)
(* The argument follows one owner ID from the request for its admission to *)
(* the delivery of its end.  Asking says what the two directions of the    *)
(* channel can hold while a worker waits for the answer: one request or    *)
(* one answer to it.  Leasing says that the ledger names the owner of the  *)
(* worker that has the lock, so a lease nobody released is the recorded    *)
(* one.  Ending says that an event is dropped only once its owner is       *)
(* retired.                                                                *)
(***************************************************************************)
EXTENDS Processes, SequenceTheorems, TLAPS

Fresh == {"off", "hello", "import", "judged", "relock", "boot"}
Attached == {"attach", "hosting", "serve", "drain"}
Owning == {"admit", "attach", "hosting", "serve", "drain", "release"}

(* One supervisor works at a time; its worker lives while it runs. *)
Pairing ==
  /\ \A i, j \in Launches : Supervised(i) /\ Supervised(j) => i = j
  /\ \A i \in Launches :
       /\ sup[i].pc \in {"off", "replay"} => wrk[i].pc = "off" /\ up[i] = <<>>
       /\ sup[i].pc \in {"deliver", "wait"} => wrk[i].pc = "gone"
       /\ Worker(i, Fresh) => wrk[i].id = None

(* The channel of a supervised worker.  There is one request for an        *)
(* admission or one answer under way, and only while the worker waits.     *)
No(s, T) == \A k \in 1..Len(s) : s[k] \notin T
AtMostOne(s, T) == \A k, l \in 1..Len(s) : s[k] \in T /\ s[l] \in T => k = l
Only(s, T, e) == \A k \in 1..Len(s) : s[k] \in T => s[k] = e
Granted == {"registered"}
Answers == Granted \cup {"refused"}
Quiet(i) == No(up[i], Owners) /\ No(down[i], Answers)
Waiting(i) ==
  /\ AtMostOne(up[i], Owners) /\ AtMostOne(down[i], Answers)
  /\ No(up[i], Owners) \/ No(down[i], Answers)
  /\ Only(up[i], Owners, wrk[i].id)
  /\ No(down[i], Granted) \/ wrk[i].id \in sup[i].owners
Asking == \A i \in Launches : sup[i].pc = "run" =>
  /\ Worker(i, Fresh \cup {"attach"}) => Quiet(i)
  /\ Worker(i, {"admit"}) => Waiting(i)
  /\ Worker(i, Attached) /\ wrk[i].id # None => wrk[i].id \in sup[i].owners

(* While no live lock was unlinked, the lock's worker is the only one that *)
(* hosts, and the ledger names its owner.                                  *)
Leasing == ~stolen =>
  /\ \A i \in Launches : Hosting(i) => lock = i
  /\ \A i \in Launches : Worker(i, Owning) /\ wrk[i].id # None => ledger = wrk[i].id
  /\ \A o \in Owners : lease[o] = "held" => ledger = o
  /\ \A i \in Launches : Worker(i, {"hosting", "serve"}) /\ Supervised(i) /\ wrk[i].id # None
       => lease[wrk[i].id] = "held"

Naming == \A i \in Launches : Worker(i, {"serve"}) /\ Supervised(i) => pid = i

(* What a supervisor still has to deliver. *)
Ending == \A i \in Launches : \A o \in sup[i].owners :
  /\ sup[i].pc \in {"deliver", "wait"} => o \in records \/ lease[o] = "retired"
  /\ sup[i].pc = "deliver" => o \in sup[i].todo \/ lease[o] = "retired"

IInv == TypeOK /\ Pairing /\ Asking /\ Leasing /\ Naming /\ Ending

SupPlaces == Working \cup {"off", "done", "quit", "failed", "dead"}
Sups == [pc : SupPlaces, stopping : BOOLEAN, quit : BOOLEAN, timer : BOOLEAN,
         owners : SUBSET Owners, todo : SUBSET Owners]
WrkPlaces == {"off", "hello", "import", "judged", "relock", "boot", "admit", "attach",
              "hosting", "open", "serve", "drain", "release", "unlock", "leave", "gone"}
Wrks == [pc : WrkPlaces, asked : BOOLEAN, id : Owners \cup {None},
         owners : SUBSET Owners, todo : SUBSET Owners]

Step(i) == SupervisorStep(i) \/ WorkerStep(i) \/ Environment(i)

Msgs == {"init", "shutdown", "registered", "refused"}
Calls == Owners \cup {StopRequest}
Leases == {"unminted", "minted", "held", "retired"}
Types ==
  /\ sup \in [Launches -> Sups] /\ wrk \in [Launches -> Wrks]
  /\ down \in [Launches -> Seq(Msgs)] /\ up \in [Launches -> Seq(Calls)]
  /\ lock \in Launches \cup {None} /\ pid \in Launches \cup {None}
  /\ ledger \in Launches \cup {None}
  /\ records \subseteq Owners /\ lease \in [Owners -> Leases]
  /\ kills \in 0..MaxKills /\ fails \in 0..MaxFails /\ stolen \in BOOLEAN
Handed == \A i \in Launches :
  /\ Worker(i, {"admit", "attach", "hosting"}) => wrk[i].id # None
  /\ Worker(i, {"open"}) => wrk[i].id = None


-----------------------------------------------------------------------------
(* Types.  The records of both processes keep their fields, and no step    *)
(* writes to the processes or the channel of another launch.               *)

LEMMA SupRecords ==
  ASSUME NEW s \in Sups
  PROVE  /\ \A p \in SupPlaces : /\ [s EXCEPT !.pc = p] \in Sups
                               /\ [NewSupervisor EXCEPT !.pc = p] \in Sups
         /\ \A S \in SUBSET Owners : [s EXCEPT !.todo = S] \in Sups
         /\ \A p \in SupPlaces, S \in SUBSET Owners :
              /\ [s EXCEPT !.pc = p, !.todo = S] \in Sups
              /\ [s EXCEPT !.pc = p, !.stopping = TRUE, !.timer = FALSE, !.todo = S] \in Sups
         /\ \A b \in BOOLEAN : /\ [s EXCEPT !.stopping = b] \in Sups
                               /\ [s EXCEPT !.quit = b] \in Sups
                               /\ [s EXCEPT !.timer = b] \in Sups
                               /\ [[s EXCEPT !.timer = FALSE] EXCEPT !.stopping = b] \in Sups
         /\ s.todo \subseteq Owners /\ s.owners \subseteq Owners
BY DEF Sups, NewSupervisor, SupPlaces

LEMMA WrkRecords ==
  ASSUME NEW w \in Wrks
  PROVE  /\ \A p \in WrkPlaces : /\ [w EXCEPT !.pc = p] \in Wrks
                               /\ [NewWorker EXCEPT !.pc = p] \in Wrks
                               /\ [w EXCEPT !.asked = TRUE, !.pc = p] \in Wrks
         /\ [w EXCEPT !.asked = TRUE, !.pc = "open", !.id = None] \in Wrks
         /\ [w EXCEPT !.pc = "open", !.id = None] \in Wrks
         /\ \A o \in Owners : [w EXCEPT !.pc = "admit", !.id = o] \in Wrks
         /\ \A S \in SUBSET Owners : [w EXCEPT !.pc = "release", !.todo = S] \in Wrks
<1>1. \A p \in WrkPlaces : /\ [w EXCEPT !.pc = p] \in Wrks
                           /\ [w EXCEPT !.asked = TRUE, !.pc = p] \in Wrks
  BY DEF Wrks
<1>2. \A p \in WrkPlaces : [NewWorker EXCEPT !.pc = p] \in Wrks
  BY DEF Wrks, NewWorker
<1>3. /\ [w EXCEPT !.asked = TRUE, !.pc = "open", !.id = None] \in Wrks
      /\ [w EXCEPT !.pc = "open", !.id = None] \in Wrks
  BY DEF Wrks, WrkPlaces
<1>4. \A o \in Owners : [w EXCEPT !.pc = "admit", !.id = o] \in Wrks
  BY DEF Wrks, WrkPlaces
<1>5. \A S \in SUBSET Owners : [w EXCEPT !.pc = "release", !.todo = S] \in Wrks
  BY DEF Wrks, WrkPlaces
<1> QED BY <1>1, <1>2, <1>3, <1>4, <1>5

LEMMA SupPlacesAre ==
  /\ {"replay", "run", "deliver", "wait"} \subseteq SupPlaces
  /\ {"off", "done", "quit", "failed", "dead"} \subseteq SupPlaces
BY DEF SupPlaces, Working

(* The supervisor's record, where a step changes it.                       *)
LEMMA SupType ==
  ASSUME NEW i \in Launches, sup \in [Launches -> Sups],
         records \subseteq Owners, records' \subseteq Owners, Step(i)
  PROVE  sup' \in [Launches -> Sups]
<1>1. CASE sup' = sup BY <1>1
<1>2. sup[i] \in Sups OBVIOUS
<1>10. CASE StartupReplay(i)
  <2>1. PICK o : SupBecomes(i, [sup[i] EXCEPT !.todo = IF Replayed(o) THEN @ \ {o} ELSE @])
    BY <1>10 DEF StartupReplay
  <2>2. [sup[i] EXCEPT !.todo = IF Replayed(o) THEN @ \ {o} ELSE @] \in Sups
    BY <1>2 DEF Sups
  <2> QED BY <2>1, <2>2 DEF SupBecomes
<1>11. CASE StartupReplayFails(i)
  BY <1>11, <1>2, SupRecords, SupPlacesAre
  DEF StartupReplayFails, ReplayFails, Fails, SupervisorEnds, SupBecomes
<1>12. CASE Fork(i)
  <2>1. [NewSupervisor EXCEPT !.pc = "done"] \in Sups /\ [sup[i] EXCEPT !.pc = "run"] \in Sups
    BY <1>2, SupRecords, SupPlacesAre
  <2>2. \/ SupBecomes(i, [NewSupervisor EXCEPT !.pc = "done"])
        \/ SupBecomes(i, [sup[i] EXCEPT !.pc = "run"])
    BY <1>12 DEF Fork, SupervisorEnds
  <2> QED BY <2>1, <2>2 DEF SupBecomes
<1>13. CASE SupervisorReceives(i)
  <2>1. /\ [sup[i] EXCEPT !.timer = TRUE] \in Sups
        /\ Head(up[i]) \in Owners
             => [sup[i] EXCEPT !.owners = IF sup[i].stopping THEN @ ELSE @ \cup {Head(up[i])}] \in Sups
    BY <1>2 DEF Sups
  <2> QED BY <1>13, <2>1 DEF SupervisorReceives, SupBecomes
<1>14. CASE RequestTimer(i)
  BY <1>14, <1>2, SupRecords, SupPlacesAre
  DEF RequestTimer, RequestShutdown, SupBecomes
<1>15. CASE WorkerExited(i)
  <2>1. /\ [sup[i] EXCEPT !.pc = "deliver", !.stopping = TRUE, !.timer = FALSE, !.todo = records'] \in Sups
        /\ [NewSupervisor EXCEPT !.pc = "failed"] \in Sups
    BY <1>2, SupRecords, SupPlacesAre
  <2>2. \/ SupBecomes(i, [sup[i] EXCEPT !.pc = "deliver", !.stopping = TRUE, !.timer = FALSE,
                                       !.todo = records'])
        \/ SupBecomes(i, [NewSupervisor EXCEPT !.pc = "failed"])
    BY <1>15 DEF WorkerExited, SupervisorEnds
  <2> QED BY <2>1, <2>2 DEF SupBecomes
<1>16. CASE Deliver(i)
  <2>1. \/ \E o \in sup[i].todo : SupBecomes(i, [sup[i] EXCEPT !.todo = IF Replayed(o) THEN @ \ {o} ELSE @])
        \/ SupBecomes(i, [NewSupervisor EXCEPT !.pc = "done"])
    BY <1>16 DEF Deliver, SupervisorEnds
  <2>2. \A o \in sup[i].todo : [sup[i] EXCEPT !.todo = IF Replayed(o) THEN @ \ {o} ELSE @] \in Sups
    BY <1>2 DEF Sups
  <2>3. [NewSupervisor EXCEPT !.pc = "done"] \in Sups
    BY <1>2, SupRecords, SupPlacesAre
  <2> QED BY <2>1, <2>2, <2>3 DEF SupBecomes
<1>17. CASE DeliverFails(i)
  BY <1>17, <1>2, SupRecords, SupPlacesAre
  DEF DeliverFails, ReplayFails, Fails, SupBecomes
<1>18. CASE DeliverAgain(i)
  <2>1. /\ [NewSupervisor EXCEPT !.pc = "quit"] \in Sups
        /\ [sup[i] EXCEPT !.pc = "deliver", !.todo = records] \in Sups
    BY <1>2, SupRecords, SupPlacesAre
  <2>2. \/ SupBecomes(i, [NewSupervisor EXCEPT !.pc = "quit"])
        \/ SupBecomes(i, [sup[i] EXCEPT !.pc = "deliver", !.todo = records])
    BY <1>18 DEF DeliverAgain, SupervisorEnds
  <2> QED BY <2>1, <2>2 DEF SupBecomes
<1>19. CASE Launch(i)
  BY <1>19, <1>2, SupRecords, SupPlacesAre DEF Launch, SupBecomes
<1>20. CASE Signal(i)
  BY <1>20, <1>2, SupRecords, SupPlacesAre DEF Signal, RequestShutdown, SupBecomes
<1>21. CASE ChannelFails(i)
  BY <1>21, <1>2, SupRecords, SupPlacesAre DEF ChannelFails, Fails, SupBecomes
<1>22. CASE Kill(i)
  <2>1. [NewSupervisor EXCEPT !.pc = "dead"] \in Sups
    BY <1>2, SupRecords, SupPlacesAre
  <2> QED BY <1>22, <2>1 DEF Kill, SupervisorEnds, SupBecomes
<1> QED
  BY <1>1, <1>10, <1>11, <1>12, <1>13, <1>14, <1>15, <1>16, <1>17, <1>18, <1>19,
     <1>20, <1>21, <1>22
  DEF Step, SupervisorStep, WorkerStep, Environment, Watchdog, WorkerReceives,
      WorkerCutOff, TakeLock, UnlinkStale, AskAdmission, Attach, AttachFails,
      FinishBoot, StartCleanup, Drain, SessionEnd, SessionEndFails, Unhost, Unlock,
      Leave, WorkerTimesOut, BootFails, StopCommand

(* The worker's record; an admitted owner is one, because the worker that  *)
(* waits has its ID.                                                       *)
LEMMA WrkType ==
  ASSUME NEW i \in Launches, wrk \in [Launches -> Wrks], records' \subseteq Owners, Step(i),
         ledger \in Owners \cup {None},
         Worker(i, {"admit"}) => wrk[i].id # None
  PROVE  wrk' \in [Launches -> Wrks]
<1>1. CASE wrk' = wrk BY <1>1
<1>2. wrk[i] \in Wrks OBVIOUS
<1>3. i \in Owners BY DEF Owners
<1>4. WrkPlaces = {"off", "hello", "import", "judged", "relock", "boot", "admit", "attach",
              "hosting", "open", "serve", "drain", "release", "unlock", "leave", "gone"}
  BY DEF WrkPlaces
<1>5. [wrk[i] EXCEPT !.asked = TRUE, !.pc = IF @ = "hello" THEN "leave" ELSE @] \in Wrks
   BY <1>2 DEF Wrks, WrkPlaces
<1>6. Worker(i, {"admit"}) => wrk[i].id \in Owners
   BY <1>2 DEF Wrks
<1>10. CASE Fork(i)
  BY <1>10, <1>2, <1>3, <1>4, <1>5, WrkRecords
  DEF Fork, SupervisorEnds, SupBecomes, Move, WrkBecomes, Worker
<1>11. CASE Watchdog(i)
  BY <1>11, <1>2, <1>3, <1>4, <1>5, WrkRecords
  DEF Watchdog, WorkerEnds, WrkBecomes, Worker
<1>12. CASE WorkerReceives(i)
  <2>1. /\ [wrk[i] EXCEPT !.asked = TRUE, !.pc = "open", !.id = None] \in Wrks
        /\ [wrk[i] EXCEPT !.pc = "import"] \in Wrks
        /\ [wrk[i] EXCEPT !.pc = "open", !.id = None] \in Wrks
    BY <1>2, <1>4, WrkRecords
  <2>2. Worker(i, {"admit"}) => [wrk[i] EXCEPT !.pc = "attach", !.owners = @ \cup {wrk[i].id}] \in Wrks
    BY <1>2, <1>6 DEF Wrks, WrkPlaces, Worker
  <2>3. \/ wrk' = wrk
        \/ WrkBecomes(i, [wrk[i] EXCEPT !.pc = "import"])
        \/ AskToStop(i)
        \/ Worker(i, {"admit"}) /\ WrkBecomes(i, [wrk[i] EXCEPT !.pc = "attach", !.owners = @ \cup {wrk[i].id}])
        \/ WrkBecomes(i, [wrk[i] EXCEPT !.pc = "open", !.id = None])
    BY <1>12 DEF WorkerReceives, Move, Unhosted
  <2> QED BY <1>5, <2>1, <2>2, <2>3 DEF AskToStop, WrkBecomes
<1>13. CASE WorkerCutOff(i)
  BY <1>13, <1>2, <1>3, <1>4, <1>5, WrkRecords
  DEF WorkerCutOff, AskToStop, WrkBecomes, Worker
<1>14. CASE TakeLock(i)
  <2>1. \A p \in {"leave", "boot", "judged"} : [wrk[i] EXCEPT !.pc = p] \in Wrks
    BY <1>2, <1>4, WrkRecords
  <2>2. [NewWorker EXCEPT !.pc = "gone"] \in Wrks BY <1>2, <1>4, WrkRecords
  <2>3. \/ \E p \in {"leave", "boot", "judged"} : Move(i, p)
        \/ WorkerEnds(i)
    BY <1>14 DEF TakeLock
  <2> QED BY <2>1, <2>2, <2>3 DEF Move, WorkerEnds, WrkBecomes
<1>15. CASE UnlinkStale(i)
  BY <1>15, <1>2, <1>3, <1>4, <1>5, WrkRecords
  DEF UnlinkStale, Move, WorkerEnds, WrkBecomes, Worker
<1>16. CASE AskAdmission(i)
  <2>1. \A o \in Owners : [wrk[i] EXCEPT !.pc = "admit", !.id = o] \in Wrks
    BY <1>2, WrkRecords
  <2>2. [wrk[i] EXCEPT !.pc = "open", !.id = None] \in Wrks BY <1>2, WrkRecords
  <2>3. Unhosted(i) \/ \E o \in Owners : Ask(i, o)
    BY <1>16, <1>3 DEF AskAdmission
  <2> QED BY <2>1, <2>2, <2>3 DEF Unhosted, Ask, WrkBecomes
<1>17. CASE Attach(i)
  <2>1. [wrk[i] EXCEPT !.pc = "admit", !.id = i] \in Wrks
    BY <1>2, <1>3, WrkRecords
  <2>2. [wrk[i] EXCEPT !.pc = "open", !.id = None] \in Wrks BY <1>2, WrkRecords
  <2>3. [wrk[i] EXCEPT !.pc = "hosting"] \in Wrks BY <1>2, <1>4, WrkRecords
  <2>4. Unhosted(i) \/ Ask(i, i) \/ Move(i, "hosting")
    BY <1>17 DEF Attach
  <2> QED BY <2>1, <2>2, <2>3, <2>4 DEF Unhosted, Ask, Move, WrkBecomes
<1>18. CASE AttachFails(i)
  BY <1>18, <1>2, <1>3, <1>4, <1>5, WrkRecords
  DEF AttachFails, Fails, Unhosted, WrkBecomes, Worker
<1>19. CASE FinishBoot(i)
  BY <1>19, <1>2, <1>3, <1>4, <1>5, WrkRecords
  DEF FinishBoot, Move, WrkBecomes, Worker
<1>20. CASE StartCleanup(i)
  BY <1>20, <1>2, <1>3, <1>4, <1>5, WrkRecords
  DEF StartCleanup, Move, WrkBecomes, Worker
<1>21. CASE Drain(i)
  <2>1. [wrk[i] EXCEPT !.pc = "release", !.todo = records'] \in Wrks
    BY <1>2, WrkRecords
  <2>2. [wrk[i] EXCEPT !.pc = "unlock"] \in Wrks BY <1>2, <1>4, WrkRecords
  <2> QED BY <1>21, <2>1, <2>2 DEF Drain, Move, WrkBecomes
<1>22. CASE SessionEnd(i)
  <2>1. PICK o : WrkBecomes(i, [wrk[i] EXCEPT !.todo = IF Replayed(o) THEN @ \ {o} ELSE @])
    BY <1>22 DEF SessionEnd
  <2>2. [wrk[i] EXCEPT !.todo = IF Replayed(o) THEN @ \ {o} ELSE @] \in Wrks
    BY <1>2 DEF Wrks
  <2> QED BY <2>1, <2>2 DEF WrkBecomes
<1>23. CASE SessionEndFails(i)
  BY <1>23, <1>2, <1>3, <1>4, <1>5, WrkRecords
  DEF SessionEndFails, ReplayFails, Fails, Move, WrkBecomes, Worker
<1>24. CASE Unhost(i)
  BY <1>24, <1>2, <1>3, <1>4, <1>5, WrkRecords DEF Unhost, Move, WrkBecomes, Worker
<1>25. CASE Unlock(i)
  BY <1>25, <1>2, <1>3, <1>4, <1>5, WrkRecords DEF Unlock, Move, WrkBecomes, Worker
<1>26. CASE Leave(i)
  BY <1>26, <1>2, <1>3, <1>4, <1>5, WrkRecords
  DEF Leave, WorkerEnds, WrkBecomes, Worker
<1>27. CASE WorkerTimesOut(i)
  BY <1>27, <1>2, <1>3, <1>4, <1>5, WrkRecords
  DEF WorkerTimesOut, WorkerEnds, Unhosted, WrkBecomes, Worker
<1>28. CASE BootFails(i)
  BY <1>28, <1>2, <1>3, <1>4, <1>5, WrkRecords
  DEF BootFails, Fails, Move, WrkBecomes, Worker
<1>29. CASE Kill(i)
  BY <1>29, <1>2, <1>3, <1>4, <1>5, WrkRecords
  DEF Kill, SupervisorEnds, SupBecomes, WorkerEnds, WrkBecomes, Worker
<1> QED
  BY <1>1, <1>10, <1>11, <1>12, <1>13, <1>14, <1>15, <1>16, <1>17, <1>18, <1>19,
     <1>20, <1>21, <1>22, <1>23, <1>24, <1>25, <1>26, <1>27, <1>28, <1>29
  DEF Step, SupervisorStep, WorkerStep, Environment, StartupReplay,
      StartupReplayFails, SupervisorReceives, RequestTimer, WorkerExited, Deliver,
      DeliverFails, DeliverAgain, Launch, Signal, ChannelFails, StopCommand

(* Launch i writes to its own processes and its own channel alone.         *)
LEMMA Local ==
  ASSUME NEW i \in Launches, NEW j \in Launches, i # j,
         sup \in [Launches -> Sups], wrk \in [Launches -> Wrks],
         down \in [Launches -> Seq(Msgs)], up \in [Launches -> Seq(Calls)], Step(i)
  PROVE  sup'[j] = sup[j] /\ wrk'[j] = wrk[j] /\ down'[j] = down[j] /\ up'[j] = up[j]
<1> USE DEF SupBecomes, WrkBecomes
<1>10. CASE StartupReplay(i)
  BY <1>10 DEF StartupReplay, SupBecomes, ReplayOne, Release
<1>11. CASE StartupReplayFails(i)
  BY <1>11
  DEF StartupReplayFails, ReplayFails, Fails, Release, SupervisorEnds, SupBecomes
<1>12. CASE Fork(i)
  BY <1>12 DEF Fork, SupervisorEnds, SupBecomes, Move, WrkBecomes
<1>13. CASE SupervisorReceives(i)
  BY <1>13 DEF SupervisorReceives, SupBecomes
<1>14. CASE RequestTimer(i)
  BY <1>14 DEF RequestTimer, RequestShutdown, SupBecomes
<1>15. CASE Watchdog(i)
  BY <1>15 DEF Watchdog, WorkerEnds, WrkBecomes
<1>16. CASE WorkerExited(i)
  BY <1>16 DEF WorkerExited, Publish, Fails, SupervisorEnds, SupBecomes
<1>17. CASE Deliver(i)
  BY <1>17 DEF Deliver, ReplayOne, Release, SupBecomes, SupervisorEnds
<1>18. CASE DeliverFails(i)
  BY <1>18 DEF DeliverFails, ReplayFails, Fails, Release, SupBecomes
<1>19. CASE DeliverAgain(i)
  BY <1>19 DEF DeliverAgain, SupervisorEnds, SupBecomes
<1>20. CASE WorkerReceives(i)
  BY <1>20 DEF WorkerReceives, AskToStop, Unhosted, WrkBecomes, Move
<1>21. CASE WorkerCutOff(i)
  BY <1>21 DEF WorkerCutOff, AskToStop, WrkBecomes
<1>22. CASE TakeLock(i)
  BY <1>22 DEF TakeLock, Move, WorkerEnds, WrkBecomes
<1>23. CASE UnlinkStale(i)
  BY <1>23 DEF UnlinkStale, Move, WorkerEnds, WrkBecomes
<1>24. CASE AskAdmission(i)
  BY <1>24 DEF AskAdmission, Unhosted, Record, Ask, WrkBecomes
<1>25. CASE Attach(i)
  BY <1>25 DEF Attach, Move, Record, Ask, Unhosted, WrkBecomes
<1>26. CASE AttachFails(i)
  BY <1>26 DEF AttachFails, Fails, Unhosted, Release, Forget, WrkBecomes
<1>27. CASE FinishBoot(i)
  BY <1>27 DEF FinishBoot, Move, WrkBecomes
<1>28. CASE StartCleanup(i)
  BY <1>28 DEF StartCleanup, Move, WrkBecomes
<1>29. CASE Drain(i)
  BY <1>29 DEF Drain, RemovePid, Publish, Fails, Move, WrkBecomes
<1>30. CASE SessionEnd(i)
  BY <1>30 DEF SessionEnd, ReplayOne, Release, WrkBecomes
<1>31. CASE SessionEndFails(i)
  BY <1>31 DEF SessionEndFails, ReplayFails, Fails, Release, Move, WrkBecomes
<1>32. CASE Unhost(i)
  BY <1>32 DEF Unhost, Move, Release, Forget, WrkBecomes
<1>33. CASE Unlock(i)
  BY <1>33 DEF Unlock, Move, WrkBecomes
<1>34. CASE Leave(i)
  BY <1>34 DEF Leave, WorkerEnds, WrkBecomes
<1>35. CASE Launch(i)
  BY <1>35 DEF Launch, SupBecomes
<1>36. CASE Signal(i)
  BY <1>36 DEF Signal, RequestShutdown, SupBecomes
<1>37. CASE ChannelFails(i)
  BY <1>37 DEF ChannelFails, Fails, SupBecomes
<1>38. CASE WorkerTimesOut(i)
  BY <1>38 DEF WorkerTimesOut, WorkerEnds, Unhosted, WrkBecomes
<1>39. CASE BootFails(i)
  BY <1>39 DEF BootFails, Fails, Move, WrkBecomes
<1>40. CASE StopCommand(i)
  BY <1>40 DEF StopCommand
<1>41. CASE Kill(i)
  BY <1>41 DEF Kill, SupervisorEnds, SupBecomes, WorkerEnds, WrkBecomes
<1> QED
  BY <1>10, <1>11, <1>12, <1>13, <1>14, <1>15, <1>16, <1>17, <1>18, <1>19, <1>20,
     <1>21, <1>22, <1>23, <1>24, <1>25, <1>26, <1>27, <1>28, <1>29, <1>30, <1>31,
     <1>32, <1>33, <1>34, <1>35, <1>36, <1>37, <1>38, <1>39, <1>40, <1>41
  DEF Step, SupervisorStep, WorkerStep, Environment

(* Both directions carry nothing but messages of the protocol.             *)
LEMMA ChannelType ==
  ASSUME NEW i \in Launches, 
         wrk \in [Launches -> Wrks],
         down \in [Launches -> Seq(Msgs)], up \in [Launches -> Seq(Calls)],
         Step(i), ledger \in Owners \cup {None}
  PROVE  down' \in [Launches -> Seq(Msgs)] /\ up' \in [Launches -> Seq(Calls)]
<1>1. CASE down' = down /\ up' = up BY <1>1
<1>2. /\ \A m \in Msgs : [down EXCEPT ![i] = Append(@, m)] \in [Launches -> Seq(Msgs)]
      /\ [down EXCEPT ![i] = <<>>] \in [Launches -> Seq(Msgs)]
      /\ [down EXCEPT ![i] = <<"init">>] \in [Launches -> Seq(Msgs)]
      /\ down[i] # <<>> => [down EXCEPT ![i] = Tail(@)] \in [Launches -> Seq(Msgs)]
  BY DEF Msgs
<1>3. /\ \A m \in Calls : [up EXCEPT ![i] = Append(@, m)] \in [Launches -> Seq(Calls)]
      /\ [up EXCEPT ![i] = <<>>] \in [Launches -> Seq(Calls)]
      /\ up[i] # <<>> => [up EXCEPT ![i] = Tail(@)] \in [Launches -> Seq(Calls)]
  OBVIOUS
<1>4. i \in Calls /\ (ledger # None => ledger \in Calls) /\ StopRequest \in Calls
  BY DEF Calls, Owners
<1>5. {"shutdown", "registered", "refused"} \subseteq Msgs BY DEF Msgs
<1>10. CASE StartupReplayFails(i)
  BY <1>10, <1>2, <1>3, <1>4, <1>5 DEF StartupReplayFails, SupervisorEnds
<1>11. CASE Fork(i)
  BY <1>11, <1>2, <1>3, <1>4, <1>5 DEF Fork, SupervisorEnds
<1>12. CASE SupervisorReceives(i)
  <2>1. up[i] # <<>> /\ up' = [up EXCEPT ![i] = Tail(@)]
    BY <1>12 DEF SupervisorReceives
  <2>2. down' = down \/ \E m \in Msgs : down' = [down EXCEPT ![i] = Append(@, m)]
    BY <1>12, <1>5 DEF SupervisorReceives
  <2> QED BY <1>2, <1>3, <2>1, <2>2
<1>13. CASE RequestTimer(i)
  <2>1. up' = up /\ (down' = down \/ \E m \in Msgs : down' = [down EXCEPT ![i] = Append(@, m)])
    BY <1>13, <1>5 DEF RequestTimer, RequestShutdown
  <2> QED BY <1>2, <2>1
<1>14. CASE Watchdog(i)
  BY <1>14, <1>2, <1>3, <1>4, <1>5 DEF Watchdog, WorkerEnds
<1>15. CASE WorkerExited(i)
  BY <1>15, <1>2, <1>3, <1>4, <1>5 DEF WorkerExited, SupervisorEnds
<1>16. CASE Deliver(i)
  BY <1>16, <1>2, <1>3, <1>4, <1>5 DEF Deliver, SupervisorEnds
<1>17. CASE DeliverAgain(i)
  BY <1>17, <1>2, <1>3, <1>4, <1>5 DEF DeliverAgain, SupervisorEnds
<1>18. CASE WorkerReceives(i)
  BY <1>18, <1>2, <1>3, <1>4, <1>5 DEF WorkerReceives
<1>19. CASE TakeLock(i)
  BY <1>19, <1>2, <1>3, <1>4, <1>5 DEF TakeLock, WorkerEnds
<1>20. CASE UnlinkStale(i)
  BY <1>20, <1>2, <1>3, <1>4, <1>5 DEF UnlinkStale, WorkerEnds
<1>21. CASE AskAdmission(i)
  BY <1>21, <1>2, <1>3, <1>4, <1>5 DEF AskAdmission, Ask
<1>22. CASE Attach(i)
  BY <1>22, <1>2, <1>3, <1>4, <1>5 DEF Attach, Ask
<1>23. CASE Leave(i)
  BY <1>23, <1>2, <1>3, <1>4, <1>5 DEF Leave, WorkerEnds
<1>24. CASE Signal(i)
  <2>1. up' = up /\ (down' = down \/ \E m \in Msgs : down' = [down EXCEPT ![i] = Append(@, m)])
    BY <1>24, <1>5 DEF Signal, RequestShutdown
  <2> QED BY <1>2, <2>1
<1>25. CASE WorkerTimesOut(i)
  BY <1>25, <1>2, <1>3, <1>4, <1>5 DEF WorkerTimesOut, WorkerEnds
<1>26. CASE StopCommand(i)
  BY <1>26, <1>2, <1>3, <1>4, <1>5 DEF StopCommand
<1>27. CASE Kill(i)
  BY <1>27, <1>2, <1>3, <1>4, <1>5 DEF Kill, SupervisorEnds, WorkerEnds
<1> QED
  BY <1>1, <1>10, <1>11, <1>12, <1>13, <1>14, <1>15, <1>16, <1>17, <1>18, <1>19,
     <1>20, <1>21, <1>22, <1>23, <1>24, <1>25, <1>26, <1>27
  DEF Step, SupervisorStep, WorkerStep, Environment, StartupReplay, DeliverFails,
      WorkerCutOff, AttachFails, FinishBoot, StartCleanup, Drain, SessionEnd,
      SessionEndFails, Unhost, Unlock, Launch, ChannelFails, BootFails

(* The files, the leases and the counters, one at a time.                  *)
LEMMA LockType ==
  ASSUME NEW i \in Launches, lock \in Launches \cup {None}, Step(i)
  PROVE  lock' \in Launches \cup {None}
<1>1. CASE lock' = lock BY <1>1
<1>10. CASE TakeLock(i)
  BY <1>10 DEF TakeLock
<1>11. CASE UnlinkStale(i)
  BY <1>11 DEF UnlinkStale
<1>12. CASE Unlock(i)
  BY <1>12 DEF Unlock
<1> QED
  BY <1>1, <1>10, <1>11, <1>12
  DEF Step, SupervisorStep, WorkerStep, Environment, StartupReplay,
      StartupReplayFails, Fork, SupervisorReceives, RequestTimer, Watchdog,
      WorkerExited, Deliver, DeliverFails, DeliverAgain, WorkerReceives,
      WorkerCutOff, AskAdmission, Attach, AttachFails, FinishBoot, StartCleanup,
      Drain, SessionEnd, SessionEndFails, Unhost, Leave, Launch, Signal,
      ChannelFails, WorkerTimesOut, BootFails, StopCommand, Kill, files, sdk, rest,
      ReplayFails

LEMMA PidType ==
  ASSUME NEW i \in Launches, pid \in Launches \cup {None}, Step(i)
  PROVE  pid' \in Launches \cup {None}
<1>1. CASE pid' = pid BY <1>1
<1>10. CASE FinishBoot(i)
  BY <1>10 DEF FinishBoot
<1>11. CASE Drain(i)
  BY <1>11 DEF Drain, RemovePid
<1> QED
  BY <1>1, <1>10, <1>11
  DEF Step, SupervisorStep, WorkerStep, Environment, StartupReplay,
      StartupReplayFails, Fork, SupervisorReceives, RequestTimer, Watchdog,
      WorkerExited, Deliver, DeliverFails, DeliverAgain, WorkerReceives,
      WorkerCutOff, TakeLock, UnlinkStale, AskAdmission, Attach, AttachFails,
      StartCleanup, SessionEnd, SessionEndFails, Unhost, Unlock, Leave, Launch,
      Signal, ChannelFails, WorkerTimesOut, BootFails, StopCommand, Kill, files,
      sdk, rest, ReplayFails

LEMMA LedgerType ==
  ASSUME NEW i \in Launches, ledger \in Launches \cup {None},
         wrk[i].id \in Launches \cup {None}, Step(i)
  PROVE  ledger' \in Launches \cup {None}
<1>1. CASE ledger' = ledger BY <1>1
<1>10. CASE AskAdmission(i)
  BY <1>10 DEF AskAdmission, Record, Owners
<1>11. CASE Attach(i)
  BY <1>11 DEF Attach, Record, Owners
<1>12. CASE AttachFails(i)
  BY <1>12 DEF AttachFails, Forget, Owners
<1>13. CASE Unhost(i)
  BY <1>13 DEF Unhost, Forget, Owners
<1> QED
  BY <1>1, <1>10, <1>11, <1>12, <1>13
  DEF Step, SupervisorStep, WorkerStep, Environment, StartupReplay,
      StartupReplayFails, Fork, SupervisorReceives, RequestTimer, Watchdog,
      WorkerExited, Deliver, DeliverFails, DeliverAgain, WorkerReceives,
      WorkerCutOff, TakeLock, UnlinkStale, FinishBoot, StartCleanup, Drain,
      SessionEnd, SessionEndFails, Unlock, Leave, Launch, Signal, ChannelFails,
      WorkerTimesOut, BootFails, StopCommand, Kill, files, sdk, rest, ReplayFails

LEMMA LeaseType ==
  ASSUME NEW i \in Launches, lease \in [Owners -> Leases],
         ledger \in Launches \cup {None}, Step(i)
  PROVE  lease' \in [Owners -> Leases]
<1>1. CASE lease' = lease BY <1>1
<1>10. CASE StartupReplay(i)
  BY <1>10 DEF StartupReplay, ReplayOne, Release, Leases
<1>11. CASE StartupReplayFails(i)
  BY <1>11 DEF StartupReplayFails, ReplayFails, Release, Leases
<1>12. CASE Deliver(i)
  BY <1>12 DEF Deliver, ReplayOne, Release, Leases
<1>13. CASE DeliverFails(i)
  BY <1>13 DEF DeliverFails, ReplayFails, Release, Leases
<1>14. CASE AskAdmission(i)
  BY <1>14 DEF AskAdmission, Record, Leases
<1>15. CASE Attach(i)
  BY <1>15 DEF Attach, Record, Leases
<1>16. CASE AttachFails(i)
  BY <1>16 DEF AttachFails, Release, Leases
<1>17. CASE SessionEnd(i)
  BY <1>17 DEF SessionEnd, ReplayOne, Release, Leases
<1>18. CASE SessionEndFails(i)
  BY <1>18 DEF SessionEndFails, ReplayFails, Release, Leases
<1>19. CASE Unhost(i)
  BY <1>19 DEF Unhost, Release, Leases
<1> QED
  BY <1>1, <1>10, <1>11, <1>12, <1>13, <1>14, <1>15, <1>16, <1>17, <1>18, <1>19
  DEF Step, SupervisorStep, WorkerStep, Environment, Fork, SupervisorReceives,
      RequestTimer, Watchdog, WorkerExited, DeliverAgain, WorkerReceives,
      WorkerCutOff, TakeLock, UnlinkStale, FinishBoot, StartCleanup, Drain, Unlock,
      Leave, Launch, Signal, ChannelFails, WorkerTimesOut, BootFails, StopCommand,
      Kill, files, sdk, rest, ReplayFails

LEMMA RecordsType ==
  ASSUME NEW i \in Launches, records \subseteq Owners, sup[i].owners \subseteq Owners,
         wrk[i].owners \subseteq Owners, Step(i)
  PROVE  records' \subseteq Owners
<1>1. CASE records' = records BY <1>1
<1>10. CASE StartupReplay(i)
  BY <1>10 DEF StartupReplay, ReplayOne, Owners
<1>11. CASE WorkerExited(i)
  BY <1>11 DEF WorkerExited, Publish, Owners
<1>12. CASE Deliver(i)
  BY <1>12 DEF Deliver, ReplayOne, Owners
<1>13. CASE Drain(i)
  BY <1>13 DEF Drain, Publish, Owners
<1>14. CASE SessionEnd(i)
  BY <1>14 DEF SessionEnd, ReplayOne, Owners
<1> QED
  BY <1>1, <1>10, <1>11, <1>12, <1>13, <1>14
  DEF Step, SupervisorStep, WorkerStep, Environment, StartupReplayFails, Fork,
      SupervisorReceives, RequestTimer, Watchdog, DeliverFails, DeliverAgain,
      WorkerReceives, WorkerCutOff, TakeLock, UnlinkStale, AskAdmission, Attach,
      AttachFails, FinishBoot, StartCleanup, SessionEndFails, Unhost, Unlock, Leave,
      Launch, Signal, ChannelFails, WorkerTimesOut, BootFails, StopCommand, Kill,
      files, sdk, rest, ReplayFails

LEMMA KillsType ==
  ASSUME NEW i \in Launches, kills \in 0..MaxKills, Step(i)
  PROVE  kills' \in 0..MaxKills
<1>1. CASE kills' = kills BY <1>1
<1>10. CASE Kill(i)
  BY <1>10, ProcessConstants DEF Kill
<1> QED
  BY <1>1, <1>10
  DEF Step, SupervisorStep, WorkerStep, Environment, StartupReplay,
      StartupReplayFails, Fork, SupervisorReceives, RequestTimer, Watchdog,
      WorkerExited, Deliver, DeliverFails, DeliverAgain, WorkerReceives,
      WorkerCutOff, TakeLock, UnlinkStale, AskAdmission, Attach, AttachFails,
      FinishBoot, StartCleanup, Drain, SessionEnd, SessionEndFails, Unhost, Unlock,
      Leave, Launch, Signal, ChannelFails, WorkerTimesOut, BootFails, StopCommand,
      files, sdk, rest, ReplayFails

LEMMA FailsType ==
  ASSUME NEW i \in Launches, fails \in 0..MaxFails, Step(i)
  PROVE  fails' \in 0..MaxFails
<1>1. CASE fails' = fails BY <1>1
<1>10. CASE StartupReplayFails(i)
  BY <1>10, ProcessConstants DEF StartupReplayFails, ReplayFails, Fails
<1>11. CASE WorkerExited(i)
  BY <1>11, ProcessConstants DEF WorkerExited, Fails
<1>12. CASE DeliverFails(i)
  BY <1>12, ProcessConstants DEF DeliverFails, ReplayFails, Fails
<1>13. CASE ChannelFails(i)
  BY <1>13, ProcessConstants DEF ChannelFails, Fails
<1>14. CASE AttachFails(i)
  BY <1>14, ProcessConstants DEF AttachFails, Fails
<1>15. CASE BootFails(i)
  BY <1>15, ProcessConstants DEF BootFails, Fails
<1>16. CASE Drain(i)
  BY <1>16, ProcessConstants DEF Drain, Fails
<1>17. CASE SessionEndFails(i)
  BY <1>17, ProcessConstants DEF SessionEndFails, ReplayFails, Fails
<1> QED
  BY <1>1, <1>10, <1>11, <1>12, <1>13, <1>14, <1>15, <1>16, <1>17
  DEF Step, SupervisorStep, WorkerStep, Environment, StartupReplay, Fork,
      SupervisorReceives, RequestTimer, Watchdog, Deliver, DeliverAgain,
      WorkerReceives, WorkerCutOff, TakeLock, UnlinkStale, AskAdmission, Attach,
      FinishBoot, StartCleanup, SessionEnd, Unhost, Unlock, Leave, Launch, Signal,
      WorkerTimesOut, StopCommand, Kill, files, sdk, rest, ReplayFails

LEMMA StolenType ==
  ASSUME NEW i \in Launches, stolen \in BOOLEAN, Step(i)
  PROVE  stolen' \in BOOLEAN
<1>1. CASE stolen' = stolen BY <1>1
<1>10. CASE UnlinkStale(i)
  BY <1>10 DEF UnlinkStale
<1> QED
  BY <1>1, <1>10
  DEF Step, SupervisorStep, WorkerStep, Environment, StartupReplay,
      StartupReplayFails, Fork, SupervisorReceives, RequestTimer, Watchdog,
      WorkerExited, Deliver, DeliverFails, DeliverAgain, WorkerReceives,
      WorkerCutOff, TakeLock, AskAdmission, Attach, AttachFails, FinishBoot,
      StartCleanup, Drain, SessionEnd, SessionEndFails, Unhost, Unlock, Leave,
      Launch, Signal, ChannelFails, WorkerTimesOut, BootFails, StopCommand, Kill,
      files, sdk, rest, ReplayFails

LEMMA Numbers ==
  /\ Owners = Launches /\ StopRequest = None /\ None \notin Launches
  /\ \A i \in Launches : i # None
BY ProcessConstants DEF None, Launches, Owners, StopRequest

(* All of them together.                                                   *)
LEMMA TypeStep ==
  ASSUME Types, Handed, NEW i \in Launches, Step(i)
  PROVE  Types'
<1>0. /\ sup[i] \in Sups /\ wrk[i] \in Wrks /\ Owners = Launches
      /\ Worker(i, {"admit"}) => wrk[i].id # None
  BY Numbers DEF Types, Handed, Worker
<1>1. /\ sup[i].owners \subseteq Owners /\ wrk[i].owners \subseteq Owners
      /\ wrk[i].id \in Launches \cup {None}
  BY <1>0 DEF Sups, Wrks
<1>2. records' \subseteq Owners BY <1>1, RecordsType DEF Types
<1>3. sup' \in [Launches -> Sups] BY <1>2, SupType DEF Types
<1>4. wrk' \in [Launches -> Wrks] BY <1>0, <1>2, WrkType DEF Types
<1>5. down' \in [Launches -> Seq(Msgs)] /\ up' \in [Launches -> Seq(Calls)]
  BY <1>0, ChannelType DEF Types
<1>6. lock' \in Launches \cup {None} /\ pid' \in Launches \cup {None}
  BY LockType, PidType DEF Types
<1>7. ledger' \in Launches \cup {None} BY <1>1, LedgerType DEF Types
<1>8. lease' \in [Owners -> Leases] BY LeaseType DEF Types
<1>9. kills' \in 0..MaxKills /\ fails' \in 0..MaxFails
  BY KillsType, FailsType DEF Types
<1>10. stolen' \in BOOLEAN BY StolenType DEF Types
<1> QED BY <1>2, <1>3, <1>4, <1>5, <1>6, <1>7, <1>8, <1>9, <1>10 DEF Types

(* What an update of the worker does to its place and its owner, so that   *)
(* the steps below need not open the record.                               *)
LEMMA WrkFields ==
  ASSUME NEW i \in Launches, wrk \in [Launches -> Wrks]
  PROVE  /\ \A p : Move(i, p) => wrk'[i].pc = p /\ wrk'[i].id = wrk[i].id
         /\ WorkerEnds(i) => wrk'[i].pc = "gone" /\ wrk'[i].id = None
         /\ Unhosted(i) => wrk'[i].pc = "open" /\ wrk'[i].id = None
         /\ \A o : Ask(i, o) => wrk'[i].pc = "admit" /\ wrk'[i].id = o
         /\ AskToStop(i) => IF wrk[i].pc = "admit"
              THEN wrk'[i].pc = "open" /\ wrk'[i].id = None
              ELSE /\ wrk'[i].pc = IF wrk[i].pc = "hello" THEN "leave" ELSE wrk[i].pc
                   /\ wrk'[i].id = wrk[i].id
<1>0. wrk[i] \in Wrks OBVIOUS
<1>1. ASSUME NEW w, WrkBecomes(i, w) PROVE wrk'[i] = w
  BY <1>1 DEF WrkBecomes
<1>2. ASSUME NEW p, Move(i, p) PROVE wrk'[i].pc = p /\ wrk'[i].id = wrk[i].id
  BY <1>0, <1>1, <1>2 DEF Move, Wrks
<1>3. ASSUME WorkerEnds(i) PROVE wrk'[i].pc = "gone" /\ wrk'[i].id = None
  BY <1>0, <1>1, <1>3 DEF WorkerEnds, NewWorker
<1>4. ASSUME Unhosted(i) PROVE wrk'[i].pc = "open" /\ wrk'[i].id = None
  BY <1>0, <1>1, <1>4 DEF Unhosted, Wrks
<1>5. ASSUME NEW o, Ask(i, o) PROVE wrk'[i].pc = "admit" /\ wrk'[i].id = o
  BY <1>0, <1>1, <1>5 DEF Ask, Wrks
<1>6. ASSUME AskToStop(i), wrk[i].pc = "admit"
      PROVE  wrk'[i].pc = "open" /\ wrk'[i].id = None
  BY <1>0, <1>1, <1>6 DEF AskToStop, Worker, Wrks
<1>7. ASSUME AskToStop(i), wrk[i].pc # "admit"
      PROVE  /\ wrk'[i].pc = IF wrk[i].pc = "hello" THEN "leave" ELSE wrk[i].pc
             /\ wrk'[i].id = wrk[i].id
  <2>1. WrkBecomes(i, [wrk[i] EXCEPT !.asked = TRUE, !.pc = IF @ = "hello" THEN "leave" ELSE @])
    BY <1>7 DEF AskToStop, Worker
  <2> QED BY <1>0, <1>1, <2>1 DEF Wrks
<1> QED BY <1>2, <1>3, <1>4, <1>5, <1>6, <1>7

(* An owner is taken before the admission is asked for, and dropped with   *)
(* it.                                                                     *)
LEMMA HandedStep ==
  ASSUME Types, Handed, NEW i \in Launches, Step(i)
  PROVE  Handed'
<1>1. wrk \in [Launches -> Wrks] /\ sup \in [Launches -> Sups] BY DEF Types
<1>2. ASSUME NEW j \in Launches, j # i PROVE wrk'[j] = wrk[j]
  BY <1>2, Local DEF Types
<1>4. SUFFICES ASSUME wrk'[i].pc \in {"admit", "attach", "hosting", "open"}
               PROVE  (wrk'[i].pc = "open") = (wrk'[i].id = None)
  BY <1>2 DEF Handed, Worker
<1>5. /\ wrk[i].pc \in {"admit", "attach", "hosting"} => wrk[i].id # None
      /\ wrk[i].pc = "open" => wrk[i].id = None
  BY DEF Handed, Worker
<1>7. CASE wrk'[i] = wrk[i]
  BY <1>4, <1>5, <1>7
<1>6. ledger # None => ledger \in Launches /\ ledger # None BY DEF Types
<1> USE DEF Worker
<1>10. CASE Fork(i)
  BY <1>10, <1>1, <1>4, <1>5, <1>6, Numbers, WrkFields DEF Fork
<1>11. CASE Watchdog(i)
  BY <1>11, <1>1, <1>4, <1>5, <1>6, Numbers, WrkFields DEF Watchdog
<1>12. CASE WorkerReceives(i)
  <2>1. CASE WrkBecomes(i, [wrk[i] EXCEPT !.pc = "attach", !.owners = @ \cup {wrk[i].id}])
              /\ Worker(i, {"admit"})
    BY <1>1, <1>5, <2>1 DEF WrkBecomes, Wrks
  <2>2. \/ wrk' = wrk \/ Move(i, "import") \/ AskToStop(i) \/ Unhosted(i) \/ <2>1!1
    BY <1>12 DEF WorkerReceives
  <2> QED BY <1>1, <1>4, <1>5, <1>7, <2>1, <2>2, WrkFields
<1>13. CASE WorkerCutOff(i)
  BY <1>13, <1>1, <1>4, <1>5, <1>6, Numbers, WrkFields DEF WorkerCutOff
<1>14. CASE TakeLock(i)
  BY <1>14, <1>1, <1>4, <1>5, <1>6, Numbers, WrkFields DEF TakeLock
<1>15. CASE UnlinkStale(i)
  BY <1>15, <1>1, <1>4, <1>5, <1>6, Numbers, WrkFields DEF UnlinkStale
<1>16. CASE AskAdmission(i)
  BY <1>16, <1>1, <1>4, <1>5, <1>6, Numbers, WrkFields DEF AskAdmission
<1>17. CASE Attach(i)
  BY <1>17, <1>1, <1>4, <1>5, <1>6, Numbers, WrkFields DEF Attach
<1>18. CASE AttachFails(i)
  BY <1>18, <1>1, <1>4, <1>5, <1>6, Numbers, WrkFields DEF AttachFails
<1>19. CASE FinishBoot(i)
  BY <1>19, <1>1, <1>4, <1>5, <1>6, Numbers, WrkFields DEF FinishBoot
<1>20. CASE StartCleanup(i)
  BY <1>20, <1>1, <1>4, <1>5, <1>6, Numbers, WrkFields DEF StartCleanup
<1>21. CASE Drain(i)
  <2>1. CASE WrkBecomes(i, [wrk[i] EXCEPT !.pc = "release", !.todo = records'])
    <3>1. wrk'[i].pc = "release" BY <1>1, <2>1 DEF WrkBecomes, Wrks
    <3> QED BY <1>4, <3>1
  <2> QED BY <1>1, <1>4, <1>21, <2>1, WrkFields DEF Drain
<1>22. CASE SessionEnd(i)
  <2>1. wrk'[i].pc = wrk[i].pc /\ wrk[i].pc = "release"
    BY <1>1, <1>22 DEF SessionEnd, WrkBecomes, Wrks
  <2> QED BY <1>4, <2>1
<1>23. CASE SessionEndFails(i)
  BY <1>23, <1>1, <1>4, <1>5, <1>6, Numbers, WrkFields DEF SessionEndFails
<1>24. CASE Unhost(i)
  BY <1>24, <1>1, <1>4, <1>5, <1>6, Numbers, WrkFields DEF Unhost
<1>25. CASE Unlock(i)
  BY <1>25, <1>1, <1>4, <1>5, <1>6, Numbers, WrkFields DEF Unlock
<1>26. CASE Leave(i)
  BY <1>26, <1>1, <1>4, <1>5, <1>6, Numbers, WrkFields DEF Leave
<1>27. CASE WorkerTimesOut(i)
  BY <1>27, <1>1, <1>4, <1>5, <1>6, Numbers, WrkFields DEF WorkerTimesOut
<1>28. CASE BootFails(i)
  BY <1>28, <1>1, <1>4, <1>5, <1>6, Numbers, WrkFields DEF BootFails
<1>29. CASE Kill(i)
  BY <1>29, <1>1, <1>4, <1>5, <1>6, Numbers, WrkFields DEF Kill
<1> QED
  BY <1>7, <1>10, <1>11, <1>12, <1>13, <1>14, <1>15, <1>16, <1>17, <1>18, <1>19,
     <1>20, <1>21, <1>22, <1>23, <1>24, <1>25, <1>26, <1>27, <1>28, <1>29
  DEF Step, SupervisorStep, WorkerStep, Environment, StartupReplay,
      StartupReplayFails, SupervisorReceives, RequestTimer, WorkerExited, Deliver,
      DeliverFails, DeliverAgain, Launch, Signal, ChannelFails, StopCommand

-----------------------------------------------------------------------------
(* How a step changes the place and the owners of its supervisor. *)
SupMoves(i, from, to) ==
  sup[i].pc \in from /\ sup'[i].pc = to /\ sup'[i].owners = sup[i].owners
SupCloses(i) == sup[i].pc \in Working /\ sup'[i].pc \notin Working \cup {"off"}

LEMMA SupStep ==
  ASSUME NEW i \in Launches, sup \in [Launches -> Sups], Step(i)
  PROVE  \/ sup'[i].pc = sup[i].pc /\ sup'[i].owners = sup[i].owners
         \/ Launch(i) /\ SupMoves(i, {"off"}, "replay")
         \/ Fork(i) /\ SupMoves(i, {"replay"}, "run")
         \/ SupervisorReceives(i) /\ sup'[i].pc = "run"
         \/ WorkerExited(i) /\ SupMoves(i, {"run"}, "deliver") /\ sup'[i].todo = records'
              /\ sup[i].owners \subseteq records'
         \/ DeliverFails(i) /\ SupMoves(i, {"deliver"}, "wait")
         \/ DeliverAgain(i) /\ SupMoves(i, {"wait"}, "deliver") /\ sup'[i].todo = records
         \/ SupCloses(i)
<1>0. sup[i] \in Sups OBVIOUS
<1>1. CASE sup' = sup BY <1>1
<1>2. ASSUME NEW how \in {"failed", "done", "quit", "dead"}, SupervisorEnds(i, how),
             sup[i].pc \in Working
      PROVE  SupCloses(i)
  <2>1. sup'[i].pc = how BY <1>2 DEF SupervisorEnds, SupBecomes, NewSupervisor
  <2> QED BY <1>2, <2>1 DEF SupCloses, Working
<1> USE DEF SupMoves
<1>10. CASE StartupReplay(i)
  BY <1>10, <1>0, <1>2 DEF StartupReplay, Sups, SupBecomes, Working
<1>11. CASE StartupReplayFails(i)
  BY <1>11, <1>0, <1>2 DEF StartupReplayFails, Sups, SupBecomes, Working
<1>12. CASE Fork(i)
  BY <1>12, <1>0, <1>2 DEF Fork, Sups, SupBecomes, Working
<1>13. CASE SupervisorReceives(i)
  BY <1>13, <1>0, <1>2 DEF SupervisorReceives, Sups, SupBecomes, Working
<1>14. CASE RequestTimer(i)
  BY <1>14, <1>0, <1>2 DEF RequestTimer, RequestShutdown, Sups, SupBecomes, Working
<1>15. CASE WorkerExited(i)
  <2>1. CASE SupervisorEnds(i, "failed")
    BY <1>2, <1>15, <2>1 DEF WorkerExited, Working
  <2>2. CASE SupBecomes(i, [sup[i] EXCEPT !.pc = "deliver", !.stopping = TRUE, !.timer = FALSE,
                                        !.todo = records']) /\ Publish(sup[i].owners)
    <3>1. /\ sup'[i].pc = "deliver" /\ sup'[i].owners = sup[i].owners /\ sup'[i].todo = records'
      BY <1>0, <2>2 DEF SupBecomes, Sups
    <3>2. sup[i].pc = "run" BY <1>15 DEF WorkerExited
    <3>3. sup[i].owners \subseteq records' BY <2>2 DEF Publish
    <3> QED BY <1>15, <3>1, <3>2, <3>3
  <2> QED BY <1>15, <2>1, <2>2 DEF WorkerExited
<1>16. CASE Deliver(i)
  BY <1>16, <1>0, <1>2 DEF Deliver, Sups, SupBecomes, Working
<1>17. CASE DeliverFails(i)
  BY <1>17, <1>0, <1>2 DEF DeliverFails, Sups, SupBecomes, Working
<1>18. CASE DeliverAgain(i)
  <2>1. CASE SupervisorEnds(i, "quit")
    BY <1>2, <1>18, <2>1 DEF DeliverAgain, Working
  <2>2. CASE SupBecomes(i, [sup[i] EXCEPT !.pc = "deliver", !.todo = records])
    <3>1. /\ sup'[i].pc = "deliver" /\ sup'[i].owners = sup[i].owners /\ sup'[i].todo = records
      BY <1>0, <2>2 DEF SupBecomes, Sups
    <3>2. sup[i].pc = "wait" BY <1>18 DEF DeliverAgain
    <3> QED BY <1>18, <3>1, <3>2
  <2> QED BY <1>18, <2>1, <2>2 DEF DeliverAgain
<1>19. CASE Launch(i)
  BY <1>19, <1>0, <1>2 DEF Launch, Sups, SupBecomes, Working
<1>20. CASE Signal(i)
  BY <1>20, <1>0, <1>2 DEF Signal, RequestShutdown, Sups, SupBecomes, Working
<1>21. CASE ChannelFails(i)
  BY <1>21, <1>0, <1>2 DEF ChannelFails, Sups, SupBecomes, Working
<1>22. CASE Kill(i)
  <2>1. sup' = sup \/ (SupervisorEnds(i, "dead") /\ sup[i].pc \in Working)
    BY <1>22 DEF Kill, WorkerEnds, Supervised
  <2> QED BY <1>1, <1>2, <2>1
<1> QED
  BY <1>1, <1>10, <1>11, <1>12, <1>13, <1>14, <1>15, <1>16, <1>17, <1>18, <1>19,
     <1>20, <1>21, <1>22
  DEF Step, SupervisorStep, WorkerStep, Environment, Watchdog, WorkerReceives,
      WorkerCutOff, TakeLock, UnlinkStale, AskAdmission, Attach, AttachFails,
      FinishBoot, StartCleanup, Drain, SessionEnd, SessionEndFails, Unhost, Unlock,
      Leave, WorkerTimesOut, BootFails, StopCommand

(* A worker that was not forked, or is gone, does nothing. *)
LEMMA Still ==
  ASSUME NEW i \in Launches, Step(i), wrk[i].pc \in {"off", "gone"}
  PROVE  /\ wrk' = wrk \/ (Fork(i) /\ sup[i].pc = "replay")
         /\ sup[i].pc \in {"off", "replay"} /\ up \in [Launches -> Seq(Calls)]
              => up'[i] = up[i] \/ up'[i] = <<>>
<1> USE DEF Worker, Alive, Listening
<1>10. CASE StartupReplay(i)
  BY <1>10 DEF StartupReplay
<1>11. CASE StartupReplayFails(i)
  BY <1>11 DEF StartupReplayFails, SupervisorEnds
<1>12. CASE Fork(i)
  BY <1>12 DEF Fork, SupervisorEnds
<1>13. CASE SupervisorReceives(i)
  BY <1>13 DEF SupervisorReceives
<1>14. CASE RequestTimer(i)
  BY <1>14 DEF RequestTimer, RequestShutdown
<1>15. CASE Watchdog(i)
  BY <1>15 DEF Watchdog
<1>16. CASE WorkerExited(i)
  BY <1>16 DEF WorkerExited, SupervisorEnds
<1>17. CASE Deliver(i)
  BY <1>17 DEF Deliver, SupervisorEnds
<1>18. CASE DeliverFails(i)
  BY <1>18 DEF DeliverFails
<1>19. CASE DeliverAgain(i)
  BY <1>19 DEF DeliverAgain, SupervisorEnds
<1>20. CASE WorkerReceives(i)
  BY <1>20 DEF WorkerReceives
<1>21. CASE WorkerCutOff(i)
  BY <1>21 DEF WorkerCutOff
<1>22. CASE TakeLock(i)
  BY <1>22 DEF TakeLock
<1>23. CASE UnlinkStale(i)
  BY <1>23 DEF UnlinkStale
<1>24. CASE AskAdmission(i)
  BY <1>24 DEF AskAdmission
<1>25. CASE Attach(i)
  BY <1>25 DEF Attach
<1>26. CASE AttachFails(i)
  BY <1>26 DEF AttachFails
<1>27. CASE FinishBoot(i)
  BY <1>27 DEF FinishBoot
<1>28. CASE StartCleanup(i)
  BY <1>28 DEF StartCleanup
<1>29. CASE Drain(i)
  BY <1>29 DEF Drain
<1>30. CASE SessionEnd(i)
  BY <1>30 DEF SessionEnd
<1>31. CASE SessionEndFails(i)
  BY <1>31 DEF SessionEndFails
<1>32. CASE Unhost(i)
  BY <1>32 DEF Unhost
<1>33. CASE Unlock(i)
  BY <1>33 DEF Unlock
<1>34. CASE Leave(i)
  BY <1>34 DEF Leave
<1>35. CASE Launch(i)
  BY <1>35 DEF Launch
<1>36. CASE Signal(i)
  BY <1>36 DEF Signal, RequestShutdown
<1>37. CASE ChannelFails(i)
  BY <1>37 DEF ChannelFails
<1>38. CASE WorkerTimesOut(i)
  BY <1>38 DEF WorkerTimesOut
<1>39. CASE BootFails(i)
  BY <1>39 DEF BootFails
<1>40. CASE StopCommand(i)
  BY <1>40 DEF StopCommand
<1>41. CASE Kill(i)
  BY <1>41 DEF Kill, SupervisorEnds
<1> QED
  BY <1>10, <1>11, <1>12, <1>13, <1>14, <1>15, <1>16, <1>17, <1>18, <1>19, <1>20,
     <1>21, <1>22, <1>23, <1>24, <1>25, <1>26, <1>27, <1>28, <1>29, <1>30, <1>31,
     <1>32, <1>33, <1>34, <1>35, <1>36, <1>37, <1>38, <1>39, <1>40, <1>41
  DEF Step, SupervisorStep, WorkerStep, Environment

(* A worker that has not asked yet has no owner in hand.                   *)
LEMMA FreshStep ==
  ASSUME Types, NEW i \in Launches, Step(i), wrk[i].pc \in Fresh => wrk[i].id = None,
         sup[i].pc = "replay" => wrk[i].pc = "off", wrk'[i].pc \in Fresh
  PROVE  wrk'[i].id = None
<1>1. wrk \in [Launches -> Wrks] BY DEF Types
<1>2. CASE wrk'[i] = wrk[i] BY <1>2
<1> USE DEF Worker, Fresh
<1>10. CASE Fork(i)
  BY <1>10, <1>1, <1>2, WrkFields DEF Fork
<1>11. CASE Watchdog(i)
  BY <1>11, <1>1, <1>2, WrkFields DEF Watchdog
<1>12. CASE WorkerReceives(i)
  <2>1. CASE WrkBecomes(i, [wrk[i] EXCEPT !.pc = "attach", !.owners = @ \cup {wrk[i].id}])
    <3>1. wrk'[i].pc = "attach" BY <1>1, <2>1 DEF WrkBecomes, Wrks
    <3> QED BY <3>1
  <2>2. \/ wrk' = wrk \/ AskToStop(i) \/ Unhosted(i) \/ <2>1!1
        \/ (Move(i, "import") /\ Worker(i, {"hello"}))
    BY <1>12 DEF WorkerReceives
  <2> QED BY <1>1, <1>2, <2>1, <2>2, WrkFields
<1>13. CASE WorkerCutOff(i)
  BY <1>13, <1>1, <1>2, WrkFields DEF WorkerCutOff
<1>14. CASE TakeLock(i)
  BY <1>14, <1>1, <1>2, WrkFields DEF TakeLock
<1>15. CASE UnlinkStale(i)
  BY <1>15, <1>1, <1>2, WrkFields DEF UnlinkStale
<1>16. CASE AskAdmission(i)
  BY <1>16, <1>1, <1>2, WrkFields DEF AskAdmission
<1>17. CASE Attach(i)
  BY <1>17, <1>1, <1>2, WrkFields DEF Attach
<1>18. CASE AttachFails(i)
  BY <1>18, <1>1, <1>2, WrkFields DEF AttachFails
<1>19. CASE FinishBoot(i)
  BY <1>19, <1>1, <1>2, WrkFields DEF FinishBoot
<1>20. CASE StartCleanup(i)
  BY <1>20, <1>1, <1>2, WrkFields DEF StartCleanup
<1>21. CASE Drain(i)
  <2>1. CASE WrkBecomes(i, [wrk[i] EXCEPT !.pc = "release", !.todo = records'])
    <3>1. wrk'[i].pc = "release" BY <1>1, <2>1 DEF WrkBecomes, Wrks
    <3> QED BY <3>1
  <2> QED BY <1>1, <1>21, <2>1, WrkFields DEF Drain
<1>22. CASE SessionEnd(i)
  <2>1. wrk'[i].pc = wrk[i].pc /\ wrk[i].pc = "release"
    BY <1>1, <1>22 DEF SessionEnd, WrkBecomes, Wrks
  <2> QED BY <2>1
<1>23. CASE SessionEndFails(i)
  BY <1>23, <1>1, <1>2, WrkFields DEF SessionEndFails
<1>24. CASE Unhost(i)
  BY <1>24, <1>1, <1>2, WrkFields DEF Unhost
<1>25. CASE Unlock(i)
  BY <1>25, <1>1, <1>2, WrkFields DEF Unlock
<1>26. CASE Leave(i)
  BY <1>26, <1>1, <1>2, WrkFields DEF Leave
<1>27. CASE WorkerTimesOut(i)
  BY <1>27, <1>1, <1>2, WrkFields DEF WorkerTimesOut
<1>28. CASE BootFails(i)
  BY <1>28, <1>1, <1>2, WrkFields DEF BootFails
<1>29. CASE Kill(i)
  BY <1>29, <1>1, <1>2, WrkFields DEF Kill
<1> QED
  BY <1>2, <1>10, <1>11, <1>12, <1>13, <1>14, <1>15, <1>16, <1>17, <1>18, <1>19,
     <1>20, <1>21, <1>22, <1>23, <1>24, <1>25, <1>26, <1>27, <1>28, <1>29
  DEF Step, SupervisorStep, WorkerStep, Environment, StartupReplay,
      StartupReplayFails, SupervisorReceives, RequestTimer, WorkerExited, Deliver,
      DeliverFails, DeliverAgain, Launch, Signal, ChannelFails, StopCommand

(* A supervisor starts only by being launched.                             *)
LEMMA Supervision ==
  ASSUME Types, NEW i \in Launches, Step(i), NEW j \in Launches, Supervised(j)'
  PROVE  Supervised(j) \/ (j = i /\ Launch(i))
<1>1. CASE j # i
  BY <1>1, Local DEF Types, Supervised
<1>2. CASE j = i
  BY <1>2, SupStep
  DEF Types, Supervised, SupMoves, SupCloses, Working, SupervisorReceives
<1> QED BY <1>1, <1>2

(* A launch waits for the earlier supervisors; a worker starts after its   *)
(* supervisor and is gone before the delivery.                             *)
LEMMA PairingStep ==
  ASSUME Types, Pairing, NEW i \in Launches, Step(i)
  PROVE  Pairing'
<1>0. /\ sup \in [Launches -> Sups] /\ wrk \in [Launches -> Wrks]
      /\ up \in [Launches -> Seq(Calls)] /\ down \in [Launches -> Seq(Msgs)]
  BY DEF Types
<1>1. ASSUME NEW j \in Launches, NEW k \in Launches, Supervised(j)', Supervised(k)'
      PROVE  j = k
  <2>1. Supervised(j) \/ (j = i /\ Launch(i)) BY <1>1, Supervision
  <2>2. Supervised(k) \/ (k = i /\ Launch(i)) BY <1>1, Supervision
  <2>3. Launch(i) => ~Supervised(j) /\ ~Supervised(k) BY DEF Launch
  <2> QED BY <2>1, <2>2, <2>3 DEF Pairing
<1>2. ASSUME NEW j \in Launches, j # i
      PROVE  sup'[j] = sup[j] /\ wrk'[j] = wrk[j] /\ up'[j] = up[j]
  BY <1>0, <1>2, Local
<1>3. /\ sup[i].pc \in {"off", "replay"} => wrk[i].pc = "off" /\ up[i] = <<>>
      /\ sup[i].pc \in {"deliver", "wait"} => wrk[i].pc = "gone"
      /\ wrk[i].pc \in Fresh => wrk[i].id = None
  BY DEF Pairing, Worker
<1>4. ASSUME sup'[i].pc \in {"off", "replay"} PROVE wrk'[i].pc = "off" /\ up'[i] = <<>>
  <2>1. sup[i].pc \in {"off", "replay"} /\ ~Fork(i)
    <3>1. sup[i].pc \in {"off", "replay"}
      BY <1>0, <1>4, SupStep DEF SupMoves, SupCloses, Working
    <3>2. Fork(i) => sup'[i].pc \in {"done", "run"}
      BY <1>0 DEF Fork, SupervisorEnds, SupBecomes, Sups, NewSupervisor
    <3> QED BY <1>4, <3>1, <3>2
  <2> QED BY <1>0, <1>3, <2>1, Still
<1>5. ASSUME sup'[i].pc \in {"deliver", "wait"} PROVE wrk'[i].pc = "gone"
  <2>1. wrk[i].pc = "gone" /\ sup[i].pc # "replay"
    BY <1>0, <1>3, <1>5, SupStep DEF SupMoves, SupCloses, Working, WorkerExited
  <2> QED BY <1>3, <2>1, Still
<1>6. ASSUME wrk'[i].pc \in Fresh PROVE wrk'[i].id = None
  BY <1>3, <1>6, FreshStep
<1> QED BY <1>1, <1>2, <1>3, <1>4, <1>5, <1>6 DEF Pairing, Worker

(* Releasing an owner is final, and an event goes only after it. *)
LEMMA Final ==
  ASSUME Types, NEW i \in Launches, Step(i), NEW o \in Owners
  PROVE  /\ lease[o] = "retired" => lease'[o] = "retired"
         /\ o \in records /\ o \notin records' => lease'[o] = "retired"
<1>1. lease \in [Owners -> Leases] BY DEF Types
<1>2. CASE lease' = lease /\ records' = records BY <1>2
<1>3. ASSUME NEW p, ReplayOne(p)
      PROVE  /\ lease[o] = "retired" => lease'[o] = "retired"
             /\ o \in records /\ o \notin records' => lease'[o] = "retired"
  BY <1>1, <1>3 DEF ReplayOne, Release
<1>4. ASSUME NEW S, ReplayFails(S)
      PROVE  /\ lease[o] = "retired" => lease'[o] = "retired"
             /\ records' = records
  BY <1>1, <1>4 DEF ReplayFails, Release
<1>5. ASSUME NEW p, Record(p) PROVE lease[o] = "retired" => lease'[o] = "retired"
  BY <1>1, <1>5 DEF Record
<1>6. ASSUME NEW p, Release(p) PROVE lease[o] = "retired" => lease'[o] = "retired"
  BY <1>1, <1>6 DEF Release
<1>10. CASE StartupReplay(i)
  BY <1>10, <1>1, <1>3, <1>4, <1>5, <1>6 DEF StartupReplay
<1>11. CASE StartupReplayFails(i)
  BY <1>11, <1>1, <1>3, <1>4, <1>5, <1>6 DEF StartupReplayFails
<1>12. CASE WorkerExited(i)
  BY <1>12, <1>1, <1>3, <1>4, <1>5, <1>6 DEF WorkerExited, Publish
<1>13. CASE Deliver(i)
  BY <1>13, <1>1, <1>3, <1>4, <1>5, <1>6 DEF Deliver
<1>14. CASE DeliverFails(i)
  BY <1>14, <1>1, <1>3, <1>4, <1>5, <1>6 DEF DeliverFails
<1>15. CASE AskAdmission(i)
  BY <1>15, <1>1, <1>3, <1>4, <1>5, <1>6 DEF AskAdmission
<1>16. CASE Attach(i)
  BY <1>16, <1>1, <1>3, <1>4, <1>5, <1>6 DEF Attach
<1>17. CASE AttachFails(i)
  BY <1>17, <1>1, <1>3, <1>4, <1>5, <1>6 DEF AttachFails
<1>18. CASE Drain(i)
  BY <1>18, <1>1, <1>3, <1>4, <1>5, <1>6 DEF Drain, Publish
<1>19. CASE SessionEnd(i)
  BY <1>19, <1>1, <1>3, <1>4, <1>5, <1>6 DEF SessionEnd
<1>20. CASE SessionEndFails(i)
  BY <1>20, <1>1, <1>3, <1>4, <1>5, <1>6 DEF SessionEndFails
<1>21. CASE Unhost(i)
  BY <1>21, <1>1, <1>3, <1>4, <1>5, <1>6 DEF Unhost
<1> QED
  BY <1>2, <1>10, <1>11, <1>12, <1>13, <1>14, <1>15, <1>16, <1>17, <1>18, <1>19,
     <1>20, <1>21
  DEF Step, SupervisorStep, WorkerStep, Environment, Fork, SupervisorReceives,
      RequestTimer, Watchdog, DeliverAgain, WorkerReceives, WorkerCutOff, TakeLock,
      UnlinkStale, FinishBoot, StartCleanup, Unlock, Leave, Launch, Signal,
      ChannelFails, WorkerTimesOut, BootFails, StopCommand, Kill, sdk

(* An event leaves the listing of a delivery only when its file is gone. *)
LEMMA DeliverTodo ==
  ASSUME NEW i \in Launches, sup \in [Launches -> Sups], Step(i), NEW o,
         sup[i].pc = "deliver", sup'[i].pc = "deliver", o \in sup[i].todo, o \notin sup'[i].todo
  PROVE  o \notin records'
<1>0. sup[i] \in Sups OBVIOUS
<1>1. CASE sup'[i].todo = sup[i].todo BY <1>1
<1>10. CASE StartupReplay(i)
  BY <1>10, <1>0, <1>1 DEF StartupReplay, Sups, SupBecomes
<1>11. CASE StartupReplayFails(i)
  BY <1>11, <1>0, <1>1 DEF StartupReplayFails, Sups, SupBecomes
<1>12. CASE Fork(i)
  BY <1>12, <1>0, <1>1 DEF Fork, Sups, SupBecomes
<1>13. CASE SupervisorReceives(i)
  BY <1>13, <1>0, <1>1 DEF SupervisorReceives, Sups, SupBecomes
<1>14. CASE RequestTimer(i)
  BY <1>14, <1>0, <1>1 DEF RequestTimer, RequestShutdown, Sups, SupBecomes
<1>15. CASE WorkerExited(i)
  BY <1>15, <1>0, <1>1 DEF WorkerExited, Sups, SupBecomes
<1>16. CASE Deliver(i)
  <2>1. CASE SupervisorEnds(i, "done")
    <3>1. sup'[i].pc = "done" BY <2>1 DEF SupervisorEnds, SupBecomes, NewSupervisor
    <3> QED BY <3>1
  <2>2. CASE \E p : SupBecomes(i, [sup[i] EXCEPT !.todo = IF Replayed(p) THEN @ \ {p} ELSE @])
    <3>1. PICK p : SupBecomes(i, [sup[i] EXCEPT !.todo = IF Replayed(p) THEN @ \ {p} ELSE @])
      BY <2>2
    <3>2. sup'[i].todo = IF Replayed(p) THEN sup[i].todo \ {p} ELSE sup[i].todo
      BY <1>0, <3>1 DEF SupBecomes, Sups
    <3>3. o = p /\ Replayed(p) BY <3>2
    <3> QED BY <3>3 DEF Replayed
  <2> QED BY <1>16, <2>1, <2>2 DEF Deliver
<1>17. CASE DeliverFails(i)
  BY <1>17, <1>0, <1>1 DEF DeliverFails, Sups, SupBecomes
<1>18. CASE DeliverAgain(i)
  BY <1>18, <1>0, <1>1 DEF DeliverAgain, Sups, SupBecomes
<1>19. CASE Launch(i)
  BY <1>19, <1>0, <1>1 DEF Launch, Sups, SupBecomes
<1>20. CASE Signal(i)
  BY <1>20, <1>0, <1>1 DEF Signal, RequestShutdown, Sups, SupBecomes
<1>21. CASE ChannelFails(i)
  BY <1>21, <1>0, <1>1 DEF ChannelFails, Sups, SupBecomes
<1>22. CASE Kill(i)
  <2>1. sup' = sup \/ SupervisorEnds(i, "dead")
    BY <1>22 DEF Kill, WorkerEnds
  <2>2. SupervisorEnds(i, "dead") => sup'[i].pc = "dead"
    BY DEF SupervisorEnds, SupBecomes, NewSupervisor
  <2> QED BY <1>1, <2>1, <2>2
<1> QED
  BY <1>1, <1>10, <1>11, <1>12, <1>13, <1>14, <1>15, <1>16, <1>17, <1>18, <1>19,
     <1>20, <1>21, <1>22
  DEF Step, SupervisorStep, WorkerStep, Environment, Watchdog, WorkerReceives,
      WorkerCutOff, TakeLock, UnlinkStale, AskAdmission, Attach, AttachFails,
      FinishBoot, StartCleanup, Drain, SessionEnd, SessionEndFails, Unhost, Unlock,
      Leave, WorkerTimesOut, BootFails, StopCommand

(* WorkerExited records every owner before it lists the events; a delivery *)
(* drops one only when Final lets it.                                      *)
LEMMA EndingStep ==
  ASSUME Types, Pairing, Ending, NEW i \in Launches, Step(i)
  PROVE  Ending'
<1>0. sup \in [Launches -> Sups] /\ sup' \in [Launches -> Sups]
  <2>1. /\ sup[i] \in Sups /\ wrk[i] \in Wrks /\ records \subseteq Owners
        /\ sup \in [Launches -> Sups]
    BY DEF Types
  <2>2. sup[i].owners \subseteq Owners /\ wrk[i].owners \subseteq Owners
    BY <2>1 DEF Sups, Wrks
  <2>3. records' \subseteq Owners BY <2>1, <2>2, RecordsType
  <2> QED BY <2>1, <2>3, SupType
<1>1. SUFFICES ASSUME NEW j \in Launches, NEW o \in sup'[j].owners
      PROVE  /\ sup'[j].pc \in {"deliver", "wait"} => o \in records' \/ lease'[o] = "retired"
             /\ sup'[j].pc = "deliver" => o \in sup'[j].todo \/ lease'[o] = "retired"
  BY DEF Ending
<1>2. o \in Owners BY <1>0, <1>1 DEF Sups
<1>3. CASE j # i
  <2>1. sup'[j] = sup[j] BY <1>3, Local DEF Types
  <2>2. /\ sup[j].pc \in {"deliver", "wait"} => o \in records \/ lease[o] = "retired"
        /\ sup[j].pc = "deliver" => o \in sup[j].todo \/ lease[o] = "retired"
    BY <1>1, <2>1 DEF Ending
  <2> QED BY <1>2, <2>1, <2>2, Final
<1>4. CASE j = i /\ sup'[i].pc \in {"deliver", "wait"}
  <2>1. CASE sup'[i].pc = sup[i].pc /\ sup'[i].owners = sup[i].owners
    <3>1. o \in records' \/ lease'[o] = "retired"
      BY <1>1, <1>2, <1>4, <2>1, Final DEF Ending
    <3>2. ASSUME sup[i].pc = "deliver", o \in sup[i].todo, o \notin sup'[i].todo
          PROVE  o \notin records'
      BY <1>0, <2>1, <3>2, DeliverTodo
    <3> QED BY <1>1, <1>2, <1>4, <2>1, <3>1, <3>2, Final DEF Ending
  <2>2. CASE WorkerExited(i) /\ SupMoves(i, {"run"}, "deliver") /\ sup'[i].todo = records'
              /\ sup[i].owners \subseteq records'
    BY <1>1, <1>4, <2>2 DEF SupMoves
  <2>3. CASE DeliverFails(i) /\ SupMoves(i, {"deliver"}, "wait")
    BY <1>1, <1>2, <1>4, <2>3, Final DEF SupMoves, Ending
  <2>4. CASE DeliverAgain(i) /\ SupMoves(i, {"wait"}, "deliver") /\ sup'[i].todo = records
    BY <1>1, <1>2, <1>4, <2>4, Final DEF SupMoves, Ending
  <2> QED
    BY <1>0, <1>4, <2>1, <2>2, <2>3, <2>4, SupStep DEF SupMoves, SupCloses, Working
<1> QED BY <1>3, <1>4

-----------------------------------------------------------------------------
(* How a step changes the place and the owner ID of its worker. *)
WrkMoves(i, from, to) ==
  wrk[i].pc \in from /\ wrk'[i].pc \in to /\ wrk'[i].id = wrk[i].id
WrkAsks(i, from, o) ==
  wrk[i].pc = from /\ wrk'[i].pc = "admit" /\ wrk'[i].id = o
Outside == {"off", "hello", "import", "judged", "relock", "leave", "gone"}

(* Where a worker can go, as far as the lock and its owner are concerned.  *)
LEMMA WrkStep ==
  ASSUME NEW i \in Launches, wrk \in [Launches -> Wrks], Step(i)
  PROVE  \/ wrk'[i].pc = wrk[i].pc /\ wrk'[i].id = wrk[i].id
         \/ wrk'[i].pc \in Outside /\ wrk[i].pc # wrk'[i].pc
         \/ wrk[i].pc \notin Outside /\ wrk'[i].pc = "open" /\ wrk'[i].id = None
         \/ TakeLock(i) /\ WrkMoves(i, {"import", "relock"}, {"boot"}) /\ lock = None /\ lock' = i
         \/ AskAdmission(i) /\ WrkAsks(i, "boot", IF ledger = None THEN i ELSE ledger)
         \/ WorkerReceives(i) /\ WrkMoves(i, {"admit"}, {"attach"})
         \/ Attach(i) /\ WrkAsks(i, "attach", i)
         \/ Attach(i) /\ WrkMoves(i, {"attach"}, {"hosting"})
         \/ FinishBoot(i) /\ WrkMoves(i, {"hosting", "open"}, {"serve"})
         \/ WrkMoves(i, {"boot", "hosting", "open", "serve"}, {"drain"})
         \/ WrkMoves(i, {"drain"}, {"release"})
         \/ WrkMoves(i, {"drain", "release"}, {"unlock"})
<1>0. wrk[i] \in Wrks OBVIOUS
<1>1. CASE wrk'[i] = wrk[i] BY <1>1
<1> USE DEF WrkMoves, WrkAsks, Outside, Worker
<1>10. CASE Fork(i)
  BY <1>10, <1>0, <1>1, WrkFields DEF Fork, Alive, Listening
<1>11. CASE Watchdog(i)
  BY <1>11, <1>0, <1>1, WrkFields DEF Watchdog, Alive, Listening
<1>12. CASE WorkerReceives(i)
  <2>1. CASE WrkBecomes(i, [wrk[i] EXCEPT !.pc = "attach", !.owners = @ \cup {wrk[i].id}])
              /\ wrk[i].pc = "admit"
    <3>1. wrk'[i].pc = "attach" /\ wrk'[i].id = wrk[i].id
      BY <1>0, <2>1 DEF WrkBecomes, Wrks
    <3> QED BY <1>12, <2>1, <3>1
  <2>2. \/ wrk' = wrk \/ <2>1!1
        \/ AskToStop(i) /\ wrk[i].pc # "gone"
        \/ Unhosted(i) /\ wrk[i].pc = "admit"
        \/ Move(i, "import") /\ wrk[i].pc = "hello"
    BY <1>12 DEF WorkerReceives, Listening, Alive
  <2> QED BY <1>1, <2>1, <2>2, WrkFields
<1>13. CASE WorkerCutOff(i)
  BY <1>13, <1>0, <1>1, WrkFields DEF WorkerCutOff, Alive, Listening
<1>14. CASE TakeLock(i)
  BY <1>14, <1>0, <1>1, WrkFields DEF TakeLock, Alive, Listening
<1>15. CASE UnlinkStale(i)
  BY <1>15, <1>0, <1>1, WrkFields DEF UnlinkStale, Alive, Listening
<1>16. CASE AskAdmission(i)
  BY <1>16, <1>0, <1>1, WrkFields DEF AskAdmission, Alive, Listening
<1>17. CASE Attach(i)
  <2>1. wrk[i].pc = "attach" BY <1>17 DEF Attach
  <2> QED BY <1>17, <2>1, WrkFields DEF Attach
<1>18. CASE AttachFails(i)
  BY <1>18, <1>0, <1>1, WrkFields DEF AttachFails, Alive, Listening
<1>19. CASE FinishBoot(i)
  BY <1>19, <1>0, <1>1, WrkFields DEF FinishBoot, Alive, Listening
<1>20. CASE StartCleanup(i)
  BY <1>20, <1>0, <1>1, WrkFields DEF StartCleanup, Alive, Listening
<1>21. CASE Drain(i)
  <2>1. CASE WrkBecomes(i, [wrk[i] EXCEPT !.pc = "release", !.todo = records'])
    <3>1. wrk'[i].pc = "release" /\ wrk'[i].id = wrk[i].id
      BY <1>0, <2>1 DEF WrkBecomes, Wrks
    <3> QED BY <1>21, <3>1 DEF Drain
  <2> QED BY <1>21, <2>1, WrkFields DEF Drain
<1>22. CASE SessionEnd(i)
  <2>1. wrk'[i].pc = wrk[i].pc /\ wrk'[i].id = wrk[i].id
    BY <1>0, <1>22 DEF SessionEnd, WrkBecomes, Wrks
  <2> QED BY <2>1
<1>23. CASE SessionEndFails(i)
  BY <1>23, <1>0, <1>1, WrkFields DEF SessionEndFails, Alive, Listening
<1>24. CASE Unhost(i)
  BY <1>24, <1>0, <1>1, WrkFields DEF Unhost, Alive, Listening
<1>25. CASE Unlock(i)
  BY <1>25, <1>0, <1>1, WrkFields DEF Unlock, Alive, Listening
<1>26. CASE Leave(i)
  BY <1>26, <1>0, <1>1, WrkFields DEF Leave, Alive, Listening
<1>27. CASE WorkerTimesOut(i)
  BY <1>27, <1>0, <1>1, WrkFields DEF WorkerTimesOut, Alive, Listening
<1>28. CASE BootFails(i)
  BY <1>28, <1>0, <1>1, WrkFields DEF BootFails, Alive, Listening
<1>29. CASE Kill(i)
  BY <1>29, <1>0, <1>1, WrkFields DEF Kill, Alive, Listening
<1> QED
  BY <1>1, <1>10, <1>11, <1>12, <1>13, <1>14, <1>15, <1>16, <1>17, <1>18, <1>19,
     <1>20, <1>21, <1>22, <1>23, <1>24, <1>25, <1>26, <1>27, <1>28, <1>29
  DEF Step, SupervisorStep, WorkerStep, Environment, StartupReplay,
      StartupReplayFails, SupervisorReceives, RequestTimer, WorkerExited, Deliver,
      DeliverFails, DeliverAgain, Launch, Signal, ChannelFails, StopCommand

(* Who writes each of the files.                                           *)
LEMMA PidStep ==
  ASSUME NEW i \in Launches, Step(i)
  PROVE  pid' = pid \/ FinishBoot(i) \/ Drain(i)
BY DEF Step, SupervisorStep, WorkerStep, Environment, files, StartupReplay,
   StartupReplayFails, Fork, SupervisorReceives, RequestTimer, Watchdog,
   WorkerExited, Deliver, DeliverFails, DeliverAgain, WorkerReceives, WorkerCutOff,
   TakeLock, UnlinkStale, AskAdmission, Attach, AttachFails, StartCleanup,
   SessionEnd, SessionEndFails, Unhost, Unlock, Leave, Launch, Signal, ChannelFails,
   WorkerTimesOut, BootFails, StopCommand, Kill

(* daemon.pid changes under a served launch only by its own worker:        *)
(* writeDaemonPid refuses while its supervisor lives, and the cleanup      *)
(* removes its own entry.                                                  *)
LEMMA NamingStep ==
  ASSUME Types, Pairing, Naming, NEW i \in Launches, Step(i)
  PROVE  Naming'
<1>0. wrk \in [Launches -> Wrks] BY DEF Types
<1>1. SUFFICES ASSUME NEW j \in Launches, wrk'[j].pc = "serve", Supervised(j)'
               PROVE  pid' = j
  BY DEF Naming, Worker
<1>2. Supervised(j)
  <2>1. ASSUME j = i, Launch(i) PROVE FALSE
    BY <1>1, <2>1 DEF Launch, Pairing
  <2> QED BY <1>1, <2>1, Supervision
<1>3. CASE wrk[j].pc = "serve"
  <2>1. pid = j /\ j # None BY <1>2, <1>3, Numbers DEF Naming, Worker
  <2>2. CASE FinishBoot(i)
    <3>1. i # j BY <1>3, <2>2 DEF FinishBoot, Worker
    <3>2. PidIsTaken(i) BY <1>2, <2>1, <3>1 DEF PidIsTaken
    <3> QED BY <2>1, <2>2, <3>2 DEF FinishBoot
  <2>3. CASE Drain(i)
    <3>1. i # j BY <1>3, <2>3 DEF Drain, Worker
    <3> QED BY <2>1, <2>3, <3>1 DEF Drain, RemovePid
  <2>4. pid' = pid \/ FinishBoot(i) \/ Drain(i) BY PidStep
  <2> QED BY <2>1, <2>2, <2>3, <2>4
<1>4. CASE wrk[j].pc # "serve"
  <2>1. j = i BY <1>1, <1>4, Local DEF Types
  <2>2. FinishBoot(i)
    BY <1>0, <1>1, <1>4, <2>1, WrkStep DEF WrkMoves, WrkAsks, Outside
  <2>3. wrk'[i].pc # "drain" BY <1>1, <2>1
  <2> QED BY <1>0, <2>1, <2>2, <2>3, WrkFields DEF FinishBoot
<1> QED BY <1>3, <1>4

LEMMA LockStep ==
  ASSUME NEW i \in Launches, Step(i)
  PROVE  lock' = lock \/ TakeLock(i) \/ UnlinkStale(i) \/ Unlock(i)
BY DEF Step, SupervisorStep, WorkerStep, Environment, files, StartupReplay,
   StartupReplayFails, Fork, SupervisorReceives, RequestTimer, Watchdog,
   WorkerExited, Deliver, DeliverFails, DeliverAgain, WorkerReceives, WorkerCutOff,
   AskAdmission, Attach, AttachFails, FinishBoot, StartCleanup, Drain, SessionEnd,
   SessionEndFails, Unhost, Leave, Launch, Signal, ChannelFails, WorkerTimesOut,
   BootFails, StopCommand, Kill

LEMMA StolenStep ==
  ASSUME NEW i \in Launches, Step(i)
  PROVE  stolen' = stolen \/ UnlinkStale(i)
BY DEF Step, SupervisorStep, WorkerStep, Environment, files, StartupReplay,
   StartupReplayFails, Fork, SupervisorReceives, RequestTimer, Watchdog,
   WorkerExited, Deliver, DeliverFails, DeliverAgain, WorkerReceives, WorkerCutOff,
   TakeLock, AskAdmission, Attach, AttachFails, FinishBoot, StartCleanup, Drain,
   SessionEnd, SessionEndFails, Unhost, Unlock, Leave, Launch, Signal, ChannelFails,
   WorkerTimesOut, BootFails, StopCommand, Kill

(* The ledger is written with the lock held.                               *)
LEMMA LedgerStep ==
  ASSUME NEW i \in Launches, Step(i)
  PROVE  /\ ledger' = ledger \/ AskAdmission(i) \/ Attach(i) \/ AttachFails(i) \/ Unhost(i)
         /\ ledger' # ledger => wrk[i].pc \in {"boot", "attach", "release"}
<1>1. ledger' = ledger \/ AskAdmission(i) \/ Attach(i) \/ AttachFails(i) \/ Unhost(i)
  BY DEF Step, SupervisorStep, WorkerStep, Environment, sdk, StartupReplay,
     StartupReplayFails, Fork, SupervisorReceives, RequestTimer, Watchdog,
     WorkerExited, Deliver, DeliverFails, DeliverAgain, WorkerReceives,
     WorkerCutOff, TakeLock, UnlinkStale, FinishBoot, StartCleanup, Drain,
     SessionEnd, SessionEndFails, Unlock, Leave, Launch, Signal, ChannelFails,
     WorkerTimesOut, BootFails, StopCommand, Kill
<1> QED BY <1>1 DEF AskAdmission, Attach, AttachFails, Unhost, Worker

LEMMA LeasePlace ==
  ASSUME NEW i \in Launches, Step(i)
  PROVE  \/ lease' = lease
         \/ sup[i].pc \in {"replay", "deliver"} /\ (wrk[i].pc \in {"off", "gone"} => wrk' = wrk)
         \/ wrk[i].pc \in {"boot", "attach", "release"}
<1>1. CASE lease' = lease BY <1>1
<1> USE DEF Worker
<1>10. CASE StartupReplay(i)
  BY <1>10 DEF StartupReplay
<1>11. CASE StartupReplayFails(i)
  BY <1>11 DEF StartupReplayFails
<1>12. CASE Deliver(i)
  BY <1>12 DEF Deliver
<1>13. CASE DeliverFails(i)
  BY <1>13 DEF DeliverFails
<1>14. CASE AskAdmission(i)
  BY <1>14 DEF AskAdmission
<1>15. CASE Attach(i)
  BY <1>15 DEF Attach
<1>16. CASE AttachFails(i)
  BY <1>16 DEF AttachFails
<1>17. CASE SessionEnd(i)
  BY <1>17 DEF SessionEnd
<1>18. CASE SessionEndFails(i)
  BY <1>18 DEF SessionEndFails
<1>19. CASE Unhost(i)
  BY <1>19 DEF Unhost
<1> QED
  BY <1>1, <1>10, <1>11, <1>12, <1>13, <1>14, <1>15, <1>16, <1>17, <1>18, <1>19
  DEF Step, SupervisorStep, WorkerStep, Environment, sdk, Fork, SupervisorReceives,
      RequestTimer, Watchdog, WorkerExited, DeliverAgain, WorkerReceives,
      WorkerCutOff, TakeLock, UnlinkStale, FinishBoot, StartCleanup, Drain, Unlock,
      Leave, Launch, Signal, ChannelFails, WorkerTimesOut, BootFails, StopCommand,
      Kill

(* The actions that change a lease.                                        *)
LEMMA LeaseStep ==
  ASSUME NEW i \in Launches, Step(i)
  PROVE  \/ lease' = lease \/ (\E p : ReplayOne(p)) \/ (\E S : ReplayFails(S))
         \/ AskAdmission(i) \/ Attach(i) \/ AttachFails(i) \/ Unhost(i)
<1>1. CASE lease' = lease BY <1>1
<1>10. CASE StartupReplay(i)
  BY <1>10 DEF StartupReplay
<1>11. CASE StartupReplayFails(i)
  BY <1>11 DEF StartupReplayFails
<1>12. CASE Deliver(i)
  BY <1>12 DEF Deliver
<1>13. CASE DeliverFails(i)
  BY <1>13 DEF DeliverFails
<1>14. CASE SessionEnd(i)
  BY <1>14 DEF SessionEnd
<1>15. CASE SessionEndFails(i)
  BY <1>15 DEF SessionEndFails
<1> QED BY <1>1, <1>10, <1>11, <1>12, <1>13, <1>14, <1>15
  DEF Step, SupervisorStep, WorkerStep, Environment, sdk, Fork, SupervisorReceives,
      RequestTimer, Watchdog, WorkerExited, DeliverAgain, WorkerReceives,
      WorkerCutOff, TakeLock, UnlinkStale, FinishBoot, StartCleanup, Drain, Unlock,
      Leave, Launch, Signal, ChannelFails, WorkerTimesOut, BootFails, StopCommand,
      Kill

(* While the lock is good, another worker than the one that has it leaves  *)
(* the lock, the ledger and the leases alone.                              *)
LEMMA OnlyTheHolder ==
  ASSUME Types, Pairing, Leasing, NEW i \in Launches, Step(i), ~stolen',
         NEW j \in Launches, j # i, Hosting(j)
  PROVE  lock' = j /\ ledger' = ledger /\ (Supervised(j) => lease' = lease)
<1>0. ~stolen BY StolenStep DEF UnlinkStale
<1>1. lock = j /\ j # None /\ Alive(j)
  BY <1>0, Numbers DEF Leasing, Hosting, Alive, Worker
<1>2. lock' = lock
  <2>1. TakeLock(i) => lock' = lock BY <1>1 DEF TakeLock
  <2>2. ~UnlinkStale(i) BY <1>1 DEF UnlinkStale
  <2>3. Unlock(i) => lock' = lock BY <1>1 DEF Unlock
  <2> QED BY <2>1, <2>2, <2>3, LockStep
<1>3. wrk[i].pc \notin {"boot", "attach", "release"}
  BY <1>0, <1>1 DEF Leasing, Hosting, Worker
<1>4. Supervised(j) => ~Supervised(i) BY DEF Pairing
<1>5. Supervised(j) => sup[i].pc \notin {"replay", "deliver"}
  BY <1>4 DEF Supervised, Working
<1> QED BY <1>1, <1>2, <1>3, <1>5, LedgerStep, LeasePlace

(* The four conjuncts of Leasing at the launch that steps.                 *)
LEMMA LockKept ==
  ASSUME Types, Leasing, NEW i \in Launches, Step(i), ~stolen', Hosting(i)'
  PROVE  lock' = i
<1>0. wrk \in [Launches -> Wrks] /\ ~stolen BY StolenStep DEF Types, UnlinkStale
<1>1. CASE TakeLock(i) /\ lock' = i BY <1>1
<1>2. CASE Hosting(i)
  <2>1. lock = i BY <1>0, <1>2 DEF Leasing
  <2>2. ~TakeLock(i) /\ ~UnlinkStale(i)
    BY <1>2 DEF TakeLock, UnlinkStale, Hosting, Worker
  <2>3. ~Unlock(i) BY <1>0, WrkFields DEF Unlock, Hosting, Worker
  <2> QED BY <2>1, <2>2, <2>3, LockStep
<1>3. wrk[i].pc \in WrkPlaces BY <1>0 DEF Wrks
<1>4. Hosting(i) <=> wrk[i].pc \notin Outside
  BY <1>3 DEF Hosting, Outside, Worker, WrkPlaces
<1> QED
  BY <1>0, <1>1, <1>2, <1>4, WrkStep DEF WrkMoves, WrkAsks, Outside, Hosting, Worker

LEMMA LedgerKept ==
  ASSUME Types, Handed, Pairing, Leasing, NEW i \in Launches, Step(i), ~stolen',
         wrk'[i].pc \in Owning, wrk'[i].id # None
  PROVE  ledger' = wrk'[i].id
<1>0. wrk \in [Launches -> Wrks] /\ ~stolen BY StolenStep DEF Types, UnlinkStale
<1>1. CASE AskAdmission(i) /\ WrkAsks(i, "boot", IF ledger = None THEN i ELSE ledger)
  BY <1>0, <1>1, WrkFields DEF AskAdmission, WrkAsks, Record
<1>2. CASE Attach(i) /\ WrkAsks(i, "attach", i)
  BY <1>0, <1>2, WrkFields DEF Attach, WrkAsks, Record
<1>3. ASSUME wrk[i].pc \in Owning, wrk[i].id = wrk'[i].id, ledger' = ledger
      PROVE  ledger' = wrk'[i].id
  BY <1>0, <1>3 DEF Leasing, Worker
<1>4. CASE wrk'[i].pc = wrk[i].pc /\ wrk'[i].id = wrk[i].id
  <2>1. ~AskAdmission(i) BY <1>4 DEF AskAdmission, Owning, Worker
  <2>2. ~Attach(i) /\ ~AttachFails(i) /\ ~Unhost(i)
    BY <1>0, <1>4, WrkFields DEF Attach, AttachFails, Unhost, Worker
  <2> QED BY <1>3, <1>4, <2>1, <2>2, LedgerStep
<1>5. CASE WrkMoves(i, {"admit"}, {"attach"})
  BY <1>3, <1>5, LedgerStep DEF WrkMoves, Owning
<1>6. CASE WrkMoves(i, {"attach"}, {"hosting"})
  <2>1. ledger' = ledger
    <3>1. Attach(i) => ledger' = ledger
      BY <1>0, <1>6, WrkFields DEF Attach, WrkMoves
    <3>2. ~AttachFails(i) BY <1>0, <1>6, WrkFields DEF AttachFails, WrkMoves
    <3>3. ~AskAdmission(i) /\ ~Unhost(i)
      BY <1>6 DEF AskAdmission, Unhost, WrkMoves, Worker
    <3> QED BY <3>1, <3>2, <3>3, LedgerStep
  <2> QED BY <1>3, <1>6, <2>1 DEF WrkMoves, Owning
<1>7. CASE \/ WrkMoves(i, {"hosting", "open"}, {"serve"})
           \/ WrkMoves(i, {"boot", "hosting", "open", "serve"}, {"drain"})
  <2>1. wrk[i].pc \in {"hosting", "serve"}
    BY <1>7 DEF WrkMoves, Handed, Pairing, Worker, Fresh
  <2> QED BY <1>3, <1>7, <2>1, LedgerStep DEF WrkMoves, Owning
<1>8. CASE WrkMoves(i, {"drain"}, {"release"})
  BY <1>3, <1>8, LedgerStep DEF WrkMoves, Owning
<1> QED
  BY <1>0, <1>1, <1>2, <1>4, <1>5, <1>6, <1>7, <1>8, WrkStep
  DEF WrkMoves, Outside, Owning

LEMMA HeldKept ==
  ASSUME Types, Handed, Pairing, Leasing, NEW i \in Launches, Step(i), ~stolen',
         NEW o \in Owners, lease'[o] = "held"
  PROVE  ledger' = o
<1>0. lease \in [Owners -> Leases] /\ ~stolen BY StolenStep DEF Types, UnlinkStale
<1>1. lease[o] = "held" => ledger = o BY <1>0 DEF Leasing
<1>2. wrk[i].pc \in {"attach", "release"} /\ wrk[i].id # None => ledger = wrk[i].id
  BY <1>0 DEF Leasing, Owning, Worker
<1>3. wrk[i].pc = "attach" => wrk[i].id # None BY DEF Handed, Worker
<1>4. o # None BY Numbers
<1>5. CASE AskAdmission(i)
  <2>1. CASE UNCHANGED <<lease, ledger>> BY <1>1, <2>1
  <2>2. CASE Record(IF ledger = None THEN i ELSE ledger)
    <3>1. lease[o] = "held" BY <1>0, <2>2 DEF Record
    <3> QED BY <1>1, <1>4, <2>2, <3>1 DEF Record
  <2> QED BY <1>5, <2>1, <2>2 DEF AskAdmission
<1>6. CASE Attach(i)
  <2>1. ledger = wrk[i].id BY <1>2, <1>3, <1>6 DEF Attach, Worker
  <2>2. CASE lease[wrk[i].id] # "retired"
    BY <1>0, <1>1, <1>6, <2>1, <2>2 DEF Attach
  <2>3. CASE lease[wrk[i].id] = "retired"
    <3>1. Record(i) BY <1>6, <2>3 DEF Attach
    <3>2. lease[o] = "held" BY <1>0, <3>1 DEF Record
    <3> QED BY <1>1, <2>1, <2>3, <3>2
  <2> QED BY <2>2, <2>3
<1>7. CASE AttachFails(i)
  <2>1. ledger = wrk[i].id BY <1>2, <1>3, <1>7 DEF AttachFails, Worker
  <2> QED BY <1>0, <1>1, <1>7, <2>1 DEF AttachFails, Release, Forget
<1>8. CASE Unhost(i)
  <2>1. CASE UNCHANGED <<lease, ledger>> BY <1>1, <2>1
  <2>2. CASE wrk[i].id # None /\ Release(wrk[i].id) /\ Forget(wrk[i].id)
    <3>1. ledger = wrk[i].id BY <1>2, <1>8, <2>2 DEF Unhost, Worker
    <3> QED BY <1>0, <1>1, <2>2, <3>1 DEF Release
  <2> QED BY <1>8, <2>1, <2>2 DEF Unhost
<1>9. CASE lease' = lease BY <1>1, <1>9, <1>5, <1>6, <1>7, <1>8, LedgerStep
<1>10. CASE \E S : ReplayFails(S)
  <2>1. lease[o] = "held" BY <1>0, <1>10 DEF ReplayFails, Release
  <2> QED BY <1>1, <1>5, <1>6, <1>7, <1>8, <2>1, LedgerStep
<1>11. CASE \E p : ReplayOne(p)
  <2>1. lease[o] = "held" BY <1>0, <1>11 DEF ReplayOne, Release
  <2> QED BY <1>1, <1>5, <1>6, <1>7, <1>8, <2>1, LedgerStep
<1>12. lease' = lease \/ (\E p : ReplayOne(p)) \/ (\E S : ReplayFails(S))
       \/ AskAdmission(i) \/ Attach(i) \/ AttachFails(i) \/ Unhost(i)
  BY LeaseStep
<1> QED BY <1>5, <1>6, <1>7, <1>8, <1>9, <1>10, <1>11, <1>12

LEMMA LeasingStep ==
  ASSUME Types, Handed, Pairing, Leasing, NEW i \in Launches, Step(i)
  PROVE  Leasing'
<1>0. /\ wrk \in [Launches -> Wrks] /\ sup \in [Launches -> Sups]
      /\ up \in [Launches -> Seq(Calls)] /\ down \in [Launches -> Seq(Msgs)]
      /\ lease \in [Owners -> Leases]
  BY DEF Types
<1>1. SUFFICES ASSUME ~stolen' PROVE Leasing' BY DEF Leasing
<1>2. ~stolen BY <1>1, StolenStep DEF UnlinkStale
<1>3. ASSUME NEW j \in Launches, j # i PROVE wrk'[j] = wrk[j] /\ sup'[j] = sup[j]
  BY <1>0, <1>3, Local
<1>4. ASSUME NEW j \in Launches, Hosting(j)' PROVE lock' = j
  BY <1>1, <1>3, <1>4, LockKept, OnlyTheHolder DEF Hosting, Worker
<1>5. ASSUME NEW j \in Launches, wrk'[j].pc \in Owning, wrk'[j].id # None
      PROVE  ledger' = wrk'[j].id
  <2>1. CASE j = i BY <1>1, <1>5, <2>1, LedgerKept
  <2>2. CASE j # i
    <3>1. Hosting(j) /\ ledger = wrk[j].id
      BY <1>2, <1>3, <1>5, <2>2 DEF Leasing, Hosting, Owning, Worker
    <3> QED BY <1>1, <1>3, <2>2, <3>1, OnlyTheHolder
  <2> QED BY <2>1, <2>2
<1>6. ASSUME NEW o \in Owners, lease'[o] = "held" PROVE ledger' = o
  BY <1>1, <1>6, HeldKept
<1>7. ASSUME NEW j \in Launches, wrk'[j].pc \in {"hosting", "serve"}, Supervised(j)',
             wrk'[j].id # None
      PROVE  lease'[wrk'[j].id] = "held"
  <2>1. CASE j # i
    <3>1. Hosting(j) /\ Supervised(j) /\ lease[wrk[j].id] = "held"
      BY <1>2, <1>3, <1>7, <2>1 DEF Leasing, Hosting, Supervised, Worker
    <3> QED BY <1>1, <1>3, <2>1, <3>1, OnlyTheHolder
  <2>2. CASE j = i
    <3>1. sup[i].pc \notin {"off", "replay", "deliver", "wait"}
      <4>1. sup[i].pc \in {"off", "replay", "deliver", "wait"} => wrk[i].pc \in {"off", "gone"}
        BY DEF Pairing
      <4>2. wrk[i].pc \notin {"off", "gone"}
        <5>1. Fork(i) => wrk' = wrk \/ Move(i, "hello") BY DEF Fork
        <5>2. Move(i, "hello") => wrk'[i].pc = "hello" BY <1>0, WrkFields
        <5>3. wrk[i].pc \in {"off", "gone"} => wrk' = wrk \/ Fork(i) BY Still
        <5> QED BY <1>7, <2>2, <5>1, <5>2, <5>3
      <4> QED BY <4>1, <4>2
    <3>2. Supervised(i) BY <1>7, <2>2, <3>1, Supervision DEF Launch
    <3>3. CASE wrk[i].pc \in {"hosting", "serve"} /\ wrk'[i].id = wrk[i].id
      BY <1>2, <1>7, <2>2, <3>1, <3>2, <3>3, LeasePlace DEF Leasing, Worker
    <3>4. CASE Attach(i) /\ WrkMoves(i, {"attach"}, {"hosting"})
      <4>1. wrk[i].id \in Owners BY <1>0, <1>7, <2>2, <3>4 DEF WrkMoves, Wrks
      <4> QED BY <1>0, <2>2, <3>4, <4>1, WrkFields DEF Attach, WrkMoves
    <3>5. CASE WrkMoves(i, {"hosting", "open"}, {"serve"})
      BY <1>7, <2>2, <3>3, <3>5 DEF WrkMoves, Handed, Worker
    <3> QED
      BY <1>0, <1>7, <2>2, <3>3, <3>4, <3>5, WrkStep DEF WrkMoves, WrkAsks, Outside
  <2> QED BY <2>1, <2>2
<1> QED BY <1>4, <1>5, <1>6, <1>7 DEF Leasing, Worker

-----------------------------------------------------------------------------
(* Messages in a sequence: what sending and receiving one does to No,      *)
(* AtMostOne and Only.                                                     *)
LEMMA NothingSent ==
  ASSUME NEW T
  PROVE  No(<<>>, T) /\ AtMostOne(<<>>, T) /\ \A w : Only(<<>>, T, w)
<1>1. Len(<<>>) = 0 OBVIOUS
<1> QED BY <1>1 DEF No, AtMostOne, Only

LEMMA Appended ==
  ASSUME NEW S, NEW s \in Seq(S), NEW e \in S
  PROVE  /\ Len(s) \in Nat /\ Len(Append(s, e)) = Len(s) + 1
         /\ \A k \in 1..(Len(s) + 1) : Append(s, e)[k] = IF k = Len(s) + 1 THEN e ELSE s[k]
OBVIOUS

LEMMA AppendOther ==
  ASSUME NEW S, NEW s \in Seq(S), NEW T, NEW e \in S, e \notin T
  PROVE  /\ No(s, T) => No(Append(s, e), T)
         /\ AtMostOne(s, T) => AtMostOne(Append(s, e), T)
         /\ \A w : Only(s, T, w) => Only(Append(s, e), T, w)
BY Appended DEF No, AtMostOne, Only

LEMMA AppendFirst ==
  ASSUME NEW S, NEW s \in Seq(S), NEW T, NEW e \in S, No(s, T)
  PROVE  AtMostOne(Append(s, e), T) /\ Only(Append(s, e), T, e)
BY Appended DEF No, AtMostOne, Only

LEMMA TailKeeps ==
  ASSUME NEW S, NEW s \in Seq(S), NEW T, s # <<>>
  PROVE  /\ No(s, T) => No(Tail(s), T) /\ Head(s) \notin T
         /\ AtMostOne(s, T) => AtMostOne(Tail(s), T)
         /\ \A w : Only(s, T, w) => Only(Tail(s), T, w) /\ (Head(s) \in T => Head(s) = w)
         /\ AtMostOne(s, T) /\ Head(s) \in T => No(Tail(s), T)
<1>0. Len(s) \in Nat OBVIOUS
<1>1. Len(s) > 0 /\ Head(s) = s[1] /\ Len(Tail(s)) = Len(s) - 1
  BY <1>0
<1>2. \A k \in 1..(Len(s) - 1) : Tail(s)[k] = s[k + 1] /\ k + 1 \in 1..Len(s) /\ k + 1 # 1
  BY <1>0, <1>1
<1>3. No(s, T) => No(Tail(s), T) /\ Head(s) \notin T
  BY <1>0, <1>1, <1>2 DEF No
<1>4. ASSUME AtMostOne(s, T) PROVE AtMostOne(Tail(s), T)
  <2>1. SUFFICES ASSUME NEW k \in 1..Len(Tail(s)), NEW l \in 1..Len(Tail(s)),
                        Tail(s)[k] \in T, Tail(s)[l] \in T
                 PROVE  k = l
    BY DEF AtMostOne
  <2>2. k + 1 = l + 1 BY <1>1, <1>2, <1>4, <2>1 DEF AtMostOne
  <2> QED BY <1>0, <1>1, <2>2
<1>5. ASSUME NEW w, Only(s, T, w)
      PROVE  Only(Tail(s), T, w) /\ (Head(s) \in T => Head(s) = w)
  BY <1>0, <1>1, <1>2, <1>5 DEF Only
<1>6. ASSUME AtMostOne(s, T), Head(s) \in T PROVE No(Tail(s), T)
  <2>1. SUFFICES ASSUME NEW k \in 1..Len(Tail(s)), Tail(s)[k] \in T PROVE FALSE
    BY DEF No
  <2>2. 1 = k + 1 BY <1>0, <1>1, <1>2, <1>6, <2>1 DEF AtMostOne
  <2> QED BY <1>1, <1>2, <2>1, <2>2
<1> QED BY <1>3, <1>4, <1>5, <1>6

(* What a step does to each direction of the channel.                      *)
LEMMA DownStep ==
  ASSUME Types, NEW i \in Launches, Step(i)
  PROVE  \/ down'[i] = down[i]
         \/ down'[i] = <<>>
         \/ Fork(i) /\ down'[i] = <<"init">>
         \/ WorkerReceives(i) /\ down[i] # <<>> /\ down'[i] = Tail(down[i])
         \/ down'[i] = Append(down[i], "shutdown")
         \/ SupervisorReceives(i) /\ Head(up[i]) \in Owners
             /\ down'[i] = Append(down[i], IF sup[i].stopping THEN "refused" ELSE "registered")
<1>0. down \in [Launches -> Seq(Msgs)] BY DEF Types
<1>1. CASE down' = down BY <1>1
<1>10. CASE Fork(i)
  BY <1>10, <1>0, <1>1 DEF Fork, SupervisorEnds
<1>11. CASE SupervisorReceives(i)
  BY <1>11, <1>0, <1>1 DEF SupervisorReceives
<1>12. CASE RequestTimer(i)
  BY <1>12, <1>0, <1>1 DEF RequestTimer, RequestShutdown
<1>13. CASE Watchdog(i)
  BY <1>13, <1>0, <1>1 DEF Watchdog, WorkerEnds
<1>14. CASE WorkerReceives(i)
  BY <1>14, <1>0, <1>1 DEF WorkerReceives
<1>15. CASE TakeLock(i)
  BY <1>15, <1>0, <1>1 DEF TakeLock, WorkerEnds
<1>16. CASE UnlinkStale(i)
  BY <1>16, <1>0, <1>1 DEF UnlinkStale, WorkerEnds
<1>17. CASE Leave(i)
  BY <1>17, <1>0, <1>1 DEF Leave, WorkerEnds
<1>18. CASE Signal(i)
  BY <1>18, <1>0, <1>1 DEF Signal, RequestShutdown
<1>19. CASE WorkerTimesOut(i)
  BY <1>19, <1>0, <1>1 DEF WorkerTimesOut, WorkerEnds
<1>20. CASE Kill(i)
  BY <1>20, <1>0, <1>1 DEF Kill, SupervisorEnds, WorkerEnds
<1> QED
  BY <1>1, <1>10, <1>11, <1>12, <1>13, <1>14, <1>15, <1>16, <1>17, <1>18, <1>19,
     <1>20
  DEF Step, SupervisorStep, WorkerStep, Environment, StartupReplay,
      StartupReplayFails, WorkerExited, Deliver, DeliverFails, DeliverAgain,
      WorkerCutOff, AskAdmission, Attach, AttachFails, FinishBoot, StartCleanup,
      Drain, SessionEnd, SessionEndFails, Unhost, Unlock, Launch, ChannelFails,
      BootFails, StopCommand

LEMMA UpStep ==
  ASSUME Types, NEW i \in Launches, Step(i)
  PROVE  \/ up'[i] = up[i]
         \/ up'[i] = <<>>
         \/ SupervisorReceives(i) /\ up[i] # <<>> /\ up'[i] = Tail(up[i])
         \/ up'[i] = Append(up[i], StopRequest)
         \/ /\ wrk[i].pc \in {"boot", "attach"}
            /\ \E o \in Owners : Ask(i, o) /\ up'[i] = Append(up[i], o) /\ down' = down
<1>0. up \in [Launches -> Seq(Calls)] /\ ledger \in Owners \cup {None} /\ i \in Owners
  BY DEF Types, Owners
<1>1. CASE up' = up BY <1>1
<1>2. ASSUME NEW o \in Owners, Ask(i, o) PROVE up'[i] = Append(up[i], o)
  BY <1>0, <1>2 DEF Ask
<1>3. ASSUME NEW how, SupervisorEnds(i, how) PROVE up'[i] = <<>>
  BY <1>0, <1>3 DEF SupervisorEnds
<1>10. CASE StartupReplayFails(i)
  BY <1>10, <1>0, <1>1, <1>2, <1>3 DEF StartupReplayFails, Worker
<1>11. CASE Fork(i)
  BY <1>11, <1>0, <1>1, <1>2, <1>3 DEF Fork, Worker
<1>12. CASE SupervisorReceives(i)
  BY <1>12, <1>0, <1>1, <1>2, <1>3 DEF SupervisorReceives, Worker
<1>13. CASE WorkerExited(i)
  BY <1>13, <1>0, <1>1, <1>2, <1>3 DEF WorkerExited, Worker
<1>14. CASE Deliver(i)
  BY <1>14, <1>0, <1>1, <1>2, <1>3 DEF Deliver, Worker
<1>15. CASE DeliverAgain(i)
  BY <1>15, <1>0, <1>1, <1>2, <1>3 DEF DeliverAgain, Worker
<1>16. CASE AskAdmission(i)
  BY <1>16, <1>0, <1>1, <1>2, <1>3 DEF AskAdmission, Worker
<1>17. CASE Attach(i)
  BY <1>17, <1>0, <1>1, <1>2, <1>3 DEF Attach, Worker
<1>18. CASE StopCommand(i)
  BY <1>18, <1>0, <1>1, <1>2, <1>3 DEF StopCommand, Worker
<1>19. CASE Kill(i)
  BY <1>19, <1>0, <1>1, <1>2, <1>3 DEF Kill, WorkerEnds, Worker
<1> QED
  BY <1>1, <1>10, <1>11, <1>12, <1>13, <1>14, <1>15, <1>16, <1>17, <1>18, <1>19
  DEF Step, SupervisorStep, WorkerStep, Environment, StartupReplay, RequestTimer,
      Watchdog, DeliverFails, WorkerReceives, WorkerCutOff, TakeLock, UnlinkStale,
      AttachFails, FinishBoot, StartCleanup, Drain, SessionEnd, SessionEndFails,
      Unhost, Unlock, Leave, Launch, Signal, ChannelFails, WorkerTimesOut,
      BootFails, Unhosted, RequestShutdown

(* Nobody returns to the places before the admission.                      *)
LEMMA FreshFrom ==
  ASSUME NEW i \in Launches, wrk \in [Launches -> Wrks], Step(i), wrk'[i].pc \in Fresh, ~Fork(i)
  PROVE  wrk[i].pc \in Fresh
<1>0. wrk[i] \in Wrks OBVIOUS
<1>1. CASE wrk'[i].pc = wrk[i].pc BY <1>1
<1> USE DEF Fresh, Worker
<1>10. CASE Fork(i)
  BY <1>10
<1>11. CASE Watchdog(i)
  BY <1>11, <1>1, WrkFields DEF Watchdog
<1>12. CASE WorkerReceives(i)
  <2>1. CASE WrkBecomes(i, [wrk[i] EXCEPT !.pc = "attach", !.owners = @ \cup {wrk[i].id}])
    <3>1. wrk'[i].pc = "attach" BY <1>0, <2>1 DEF WrkBecomes, Wrks
    <3> QED BY <3>1
  <2>2. \/ wrk' = wrk \/ AskToStop(i) \/ Unhosted(i) \/ <2>1!1
        \/ (Move(i, "import") /\ wrk[i].pc = "hello")
    BY <1>12 DEF WorkerReceives
  <2> QED BY <1>1, <2>1, <2>2, WrkFields
<1>13. CASE WorkerCutOff(i)
  BY <1>13, <1>1, WrkFields DEF WorkerCutOff
<1>14. CASE TakeLock(i)
  BY <1>14, <1>1, WrkFields DEF TakeLock
<1>15. CASE UnlinkStale(i)
  BY <1>15, <1>1, WrkFields DEF UnlinkStale
<1>16. CASE AskAdmission(i)
  BY <1>16, <1>1, WrkFields DEF AskAdmission
<1>17. CASE Attach(i)
  BY <1>17, <1>1, WrkFields DEF Attach
<1>18. CASE AttachFails(i)
  BY <1>18, <1>1, WrkFields DEF AttachFails
<1>19. CASE FinishBoot(i)
  BY <1>19, <1>1, WrkFields DEF FinishBoot
<1>20. CASE StartCleanup(i)
  BY <1>20, <1>1, WrkFields DEF StartCleanup
<1>21. CASE Drain(i)
  <2>1. CASE WrkBecomes(i, [wrk[i] EXCEPT !.pc = "release", !.todo = records'])
    <3>1. wrk'[i].pc = "release" BY <1>0, <2>1 DEF WrkBecomes, Wrks
    <3> QED BY <3>1
  <2> QED BY <1>21, <2>1, WrkFields DEF Drain
<1>22. CASE SessionEnd(i)
  <2>1. wrk'[i].pc = wrk[i].pc
    BY <1>0, <1>22 DEF SessionEnd, WrkBecomes, Wrks
  <2> QED BY <1>1, <2>1
<1>23. CASE SessionEndFails(i)
  BY <1>23, <1>1, WrkFields DEF SessionEndFails
<1>24. CASE Unhost(i)
  BY <1>24, <1>1, WrkFields DEF Unhost
<1>25. CASE Unlock(i)
  BY <1>25, <1>1, WrkFields DEF Unlock
<1>26. CASE Leave(i)
  BY <1>26, <1>1, WrkFields DEF Leave
<1>27. CASE WorkerTimesOut(i)
  BY <1>27, <1>1, WrkFields DEF WorkerTimesOut
<1>28. CASE BootFails(i)
  BY <1>28, <1>1, WrkFields DEF BootFails
<1>29. CASE Kill(i)
  BY <1>29, <1>1, WrkFields DEF Kill
<1> QED
  BY <1>1, <1>10, <1>11, <1>12, <1>13, <1>14, <1>15, <1>16, <1>17, <1>18, <1>19,
     <1>20, <1>21, <1>22, <1>23, <1>24, <1>25, <1>26, <1>27, <1>28, <1>29
  DEF Step, SupervisorStep, WorkerStep, Environment, StartupReplay,
      StartupReplayFails, SupervisorReceives, RequestTimer, WorkerExited, Deliver,
      DeliverFails, DeliverAgain, Launch, Signal, ChannelFails, StopCommand

(* The channel and the memory of the supervisor, one message at a time.    *)
LEMMA AskingHere ==
  ASSUME Types, Types', Handed, Pairing, Asking, NEW i \in Launches, Step(i), sup'[i].pc = "run"
  PROVE  /\ wrk'[i].pc \in Fresh \cup {"attach"} => Quiet(i)'
         /\ wrk'[i].pc = "admit" => Waiting(i)'
         /\ wrk'[i].pc \in Attached /\ wrk'[i].id # None => wrk'[i].id \in sup'[i].owners
<1>0. /\ wrk \in [Launches -> Wrks] /\ sup \in [Launches -> Sups]
      /\ up[i] \in Seq(Calls) /\ down[i] \in Seq(Msgs) /\ StopRequest \in Calls
      /\ StopRequest \notin Owners /\ Owners \subseteq Calls
  BY Numbers DEF Types, Calls
<1>3. /\ No(<<>>, Owners) /\ AtMostOne(<<>>, Owners) /\ Only(<<>>, Owners, wrk[i].id)
      /\ No(<<>>, Answers) /\ AtMostOne(<<>>, Answers) /\ No(<<>>, Granted)
  BY NothingSent
<1>4. /\ "shutdown" \in Msgs \ Answers /\ "shutdown" \notin Granted
      /\ "registered" \in Msgs \cap Answers
      /\ "refused" \in (Msgs \cap Answers) \ Granted
  BY DEF Msgs, Answers, Granted
<1>5. ASSUME No(up[i], Owners)
      PROVE  /\ No(Append(up[i], StopRequest), Owners)
             /\ \A o \in Owners :
                  AtMostOne(Append(up[i], o), Owners) /\ Only(Append(up[i], o), Owners, o)
             /\ up[i] # <<>> => No(Tail(up[i]), Owners) /\ Head(up[i]) \notin Owners
  <2>1. No(Append(up[i], StopRequest), Owners) BY <1>0, <1>5, AppendOther
  <2>2. ASSUME NEW o \in Owners
        PROVE  AtMostOne(Append(up[i], o), Owners) /\ Only(Append(up[i], o), Owners, o)
    BY <1>0, <1>5, AppendFirst
  <2>3. ASSUME up[i] # <<>> PROVE No(Tail(up[i]), Owners) /\ Head(up[i]) \notin Owners
    BY <1>0, <1>5, <2>3, TailKeeps
  <2> QED BY <2>1, <2>2, <2>3
<1>6. ASSUME No(down[i], Answers)
      PROVE  /\ No(Append(down[i], "shutdown"), Answers)
             /\ \A e \in Msgs : AtMostOne(Append(down[i], e), Answers)
             /\ down[i] # <<>> => No(Tail(down[i]), Answers) /\ Head(down[i]) \notin Answers
  <2>1. No(Append(down[i], "shutdown"), Answers) BY <1>0, <1>4, <1>6, AppendOther
  <2>2. ASSUME NEW e \in Msgs PROVE AtMostOne(Append(down[i], e), Answers)
    BY <1>0, <1>6, AppendFirst
  <2>3. ASSUME down[i] # <<>> PROVE No(Tail(down[i]), Answers) /\ Head(down[i]) \notin Answers
    BY <1>0, <1>6, <2>3, TailKeeps
  <2> QED BY <2>1, <2>2, <2>3
<1>7. ASSUME AtMostOne(up[i], Owners), NEW w, Only(up[i], Owners, w)
      PROVE  /\ AtMostOne(Append(up[i], StopRequest), Owners)
             /\ Only(Append(up[i], StopRequest), Owners, w)
             /\ up[i] # <<>> =>
                  /\ AtMostOne(Tail(up[i]), Owners)
                  /\ Only(Tail(up[i]), Owners, w)
                  /\ Head(up[i]) \in Owners => Head(up[i]) = w /\ No(Tail(up[i]), Owners)
  <2>1. /\ AtMostOne(Append(up[i], StopRequest), Owners)
        /\ Only(Append(up[i], StopRequest), Owners, w)
    BY <1>0, <1>7, AppendOther
  <2>2. ASSUME up[i] # <<>>
        PROVE  /\ AtMostOne(Tail(up[i]), Owners) /\ Only(Tail(up[i]), Owners, w)
               /\ Head(up[i]) \in Owners => Head(up[i]) = w /\ No(Tail(up[i]), Owners)
    BY <1>0, <1>7, <2>2, TailKeeps
  <2> QED BY <2>1, <2>2
<1>8. ASSUME AtMostOne(down[i], Answers)
      PROVE  /\ AtMostOne(Append(down[i], "shutdown"), Answers)
             /\ down[i] # <<>> =>
                  /\ AtMostOne(Tail(down[i]), Answers)
                  /\ Head(down[i]) \in Answers => No(Tail(down[i]), Answers)
  <2>1. AtMostOne(Append(down[i], "shutdown"), Answers)
    BY <1>0, <1>4, <1>8, AppendOther
  <2>2. ASSUME down[i] # <<>>
        PROVE  /\ AtMostOne(Tail(down[i]), Answers)
               /\ Head(down[i]) \in Answers => No(Tail(down[i]), Answers)
    BY <1>0, <1>8, <2>2, TailKeeps
  <2> QED BY <2>1, <2>2
<1>9. ASSUME No(down[i], Granted)
      PROVE  /\ No(Append(down[i], "shutdown"), Granted)
             /\ No(Append(down[i], "refused"), Granted)
             /\ down[i] # <<>> => No(Tail(down[i]), Granted) /\ Head(down[i]) # "registered"
  <2>1. No(Append(down[i], "shutdown"), Granted) /\ No(Append(down[i], "refused"), Granted)
    BY <1>0, <1>4, <1>9, AppendOther
  <2>2. ASSUME down[i] # <<>> PROVE No(Tail(down[i]), Granted) /\ Head(down[i]) \notin Granted
    BY <1>0, <1>9, <2>2, TailKeeps
  <2> QED BY <2>1, <2>2 DEF Granted
<1>1. CASE Fork(i)
  <2>1. sup[i].pc = "replay" /\ up[i] = <<>> BY <1>1 DEF Fork, Pairing
  <2>2. ~SupervisorEnds(i, "done")
    BY <1>0 DEF SupervisorEnds, SupBecomes, NewSupervisor
  <2>3. wrk'[i].pc = "hello" /\ up' = up /\ down' = [down EXCEPT ![i] = <<"init">>]
    BY <1>0, <1>1, <2>2, WrkFields DEF Fork
  <2>4. down'[i] = <<"init">> BY <2>3 DEF Types
  <2>5. No(up'[i], Owners) /\ No(down'[i], Answers)
    BY <2>1, <2>3, <2>4 DEF No, Answers, Granted
  <2> QED BY <2>3, <2>5 DEF Quiet, Attached
<1>2. CASE ~Fork(i)
  <2>1. sup[i].pc = "run" /\ sup[i].owners \subseteq sup'[i].owners
    <3>1. SupervisorReceives(i) => sup[i].pc = "run" /\ sup[i].owners \subseteq sup'[i].owners
      BY <1>0 DEF SupervisorReceives, SupBecomes, Sups
    <3> QED BY <1>0, <1>2, <3>1, SupStep DEF SupMoves, SupCloses, Working
  <2>2. /\ wrk[i].pc \in Fresh \cup {"attach"} => Quiet(i)
        /\ wrk[i].pc = "admit" => Waiting(i)
        /\ wrk[i].pc \in Attached /\ wrk[i].id # None => wrk[i].id \in sup[i].owners
    BY <2>1 DEF Asking, Worker
  <2>3. SupervisorReceives(i) =>
          /\ up[i] # <<>> /\ up'[i] = Tail(up[i]) /\ wrk' = wrk
          /\ Head(up[i]) \notin Owners => down' = down
          /\ Head(up[i]) \in Owners /\ ~sup[i].stopping => Head(up[i]) \in sup'[i].owners
    BY <1>0 DEF SupervisorReceives, SupBecomes, Sups, Types
  (* Nothing is under way, and only a request can start it. *)
  <2>4. ASSUME Quiet(i), \A o \in Owners : ~Ask(i, o) PROVE Quiet(i)'
    <3>1. ~(SupervisorReceives(i) /\ Head(up[i]) \in Owners)
      BY <1>5, <2>3, <2>4 DEF Quiet
    <3>2. No(up'[i], Owners)
      BY <1>3, <1>5, <2>4, UpStep DEF Quiet
    <3>3. No(down'[i], Answers)
      BY <1>2, <1>3, <1>6, <2>4, <3>1, DownStep DEF Quiet
    <3> QED BY <3>2, <3>3 DEF Quiet
  <2>5. ASSUME wrk'[i].pc \in Fresh \cup {"attach"} PROVE Quiet(i)'
    <3>1. \A o \in Owners : ~Ask(i, o) BY <1>0, <2>5, WrkFields DEF Fresh
    <3>2. CASE wrk[i].pc \in Fresh \cup {"attach"} BY <2>2, <2>4, <3>1, <3>2
    <3>3. CASE wrk[i].pc \notin Fresh \cup {"attach"}
      <4>1. wrk'[i].pc = "attach" BY <1>0, <1>2, <2>5, <3>3, FreshFrom
      <4>2. WorkerReceives(i) /\ wrk[i].pc = "admit"
        BY <1>0, <3>3, <4>1, WrkStep DEF WrkMoves, WrkAsks, Outside
      <4>3. down[i] # <<>> /\ down'[i] = Tail(down[i]) /\ up' = up /\ Head(down[i]) \in Answers
        <5>1. down[i] # <<>> /\ down'[i] = Tail(down[i]) /\ up' = up
          BY <4>2 DEF WorkerReceives, Types
        <5>2. Head(down[i]) \in Answers
          BY <1>0, <4>1, <4>2, WrkFields
          DEF WorkerReceives, Worker, Answers, Granted
        <5> QED BY <5>1, <5>2
      <4>4. Waiting(i) BY <2>2, <4>2
      <4>5. No(up[i], Owners)
        <5>1. ~No(down[i], Answers) BY <1>6, <4>3
        <5> QED BY <4>4, <5>1 DEF Waiting
      <4>6. No(Tail(down[i]), Answers)
        <5>1. AtMostOne(down[i], Answers) BY <4>4 DEF Waiting
        <5> QED BY <1>8, <4>3, <5>1
      <4> QED BY <4>3, <4>5, <4>6 DEF Quiet
    <3> QED BY <3>2, <3>3
  <2>6. ASSUME wrk'[i].pc = "admit" PROVE Waiting(i)'
    <3>1. CASE wrk[i].pc = "admit" /\ wrk'[i].id = wrk[i].id
      <4>1. Waiting(i) BY <2>2, <3>1
      <4>2. wrk[i].pc \notin {"boot", "attach"} BY <3>1
      <4>3. CASE SupervisorReceives(i) /\ Head(up[i]) \in Owners
        <5>1. Head(up[i]) = wrk[i].id /\ No(up'[i], Owners) /\ No(down[i], Answers)
          <6>1. AtMostOne(up[i], Owners) /\ Only(up[i], Owners, wrk[i].id)
            BY <4>1 DEF Waiting
          <6>2. Head(up[i]) = wrk[i].id /\ No(Tail(up[i]), Owners)
            BY <1>7, <2>3, <4>3, <6>1
          <6>3. ~No(up[i], Owners) BY <1>5, <2>3, <4>3
          <6>4. No(down[i], Answers) BY <4>1, <6>3 DEF Waiting
          <6> QED BY <2>3, <4>3, <6>2, <6>4
        <5>2. No(down[i], Granted) BY <5>1 DEF No, Answers, Granted
        <5>3. down'[i] = Append(down[i], IF sup[i].stopping THEN "refused" ELSE "registered")
          BY <1>0, <4>3 DEF SupervisorReceives, Types
        <5>4. AtMostOne(down'[i], Answers) BY <1>4, <1>6, <5>1, <5>3
        <5>5. No(down'[i], Granted) \/ wrk[i].id \in sup'[i].owners
          BY <1>9, <2>3, <4>3, <5>1, <5>2, <5>3
        <5>6. AtMostOne(up'[i], Owners) /\ Only(up'[i], Owners, wrk[i].id)
          BY <5>1 DEF No, AtMostOne, Only
        <5> QED BY <3>1, <5>1, <5>4, <5>5, <5>6 DEF Waiting
      <4>4. CASE ~(SupervisorReceives(i) /\ Head(up[i]) \in Owners)
        <5>1. /\ AtMostOne(up'[i], Owners) /\ Only(up'[i], Owners, wrk[i].id)
              /\ No(up[i], Owners) => No(up'[i], Owners)
          <6>1. AtMostOne(up[i], Owners) /\ Only(up[i], Owners, wrk[i].id)
            BY <4>1 DEF Waiting
          <6>2. \/ up'[i] = up[i] \/ up'[i] = <<>>
                \/ up[i] # <<>> /\ up'[i] = Tail(up[i])
                \/ up'[i] = Append(up[i], StopRequest)
            BY <4>2, UpStep
          <6> QED BY <1>3, <1>5, <1>7, <6>1, <6>2
        <5>2. /\ AtMostOne(down'[i], Answers)
              /\ No(down[i], Answers) => No(down'[i], Answers)
              /\ No(down[i], Granted) => No(down'[i], Granted)
          <6>1. AtMostOne(down[i], Answers) BY <4>1 DEF Waiting
          <6>2. \/ down'[i] = down[i] \/ down'[i] = <<>>
                \/ down[i] # <<>> /\ down'[i] = Tail(down[i])
                \/ down'[i] = Append(down[i], "shutdown")
            BY <1>2, <4>4, DownStep
          <6>3. No(down[i], Answers) => No(down'[i], Answers)
            BY <1>3, <1>6, <6>2
          <6>4. No(down[i], Granted) => No(down'[i], Granted)
            BY <1>3, <1>9, <6>2
          <6> QED BY <1>3, <1>8, <6>1, <6>2, <6>3, <6>4
        <5> QED BY <2>1, <3>1, <4>1, <5>1, <5>2 DEF Waiting
      <4> QED BY <4>3, <4>4
    <3>2. ASSUME NEW o \in Owners, Ask(i, o), Quiet(i), down' = down,
                 up' = [up EXCEPT ![i] = Append(@, o)]
          PROVE  Waiting(i)'
      <4>1. wrk'[i].id = o /\ up'[i] = Append(up[i], o)
        BY <1>0, <3>2, WrkFields DEF Types
      <4>2. No(down[i], Answers) /\ No(up[i], Owners) BY <3>2 DEF Quiet
      <4>3. AtMostOne(up'[i], Owners) /\ Only(up'[i], Owners, o) BY <1>5, <4>1, <4>2
      <4>4. AtMostOne(down[i], Answers) /\ No(down[i], Granted)
        BY <4>2 DEF No, AtMostOne, Answers, Granted
      <4> QED BY <3>2, <4>1, <4>2, <4>3, <4>4 DEF Waiting
    <3>3. CASE AskAdmission(i) \/ Attach(i)
      <4>1. Quiet(i) BY <2>2, <3>3 DEF AskAdmission, Attach, Worker, Fresh
      <4>2. \E o \in Owners : Ask(i, o) /\ down' = down
        <5>1. ledger \in Owners \cup {None} /\ i \in Owners BY DEF Types, Owners
        <5> QED BY <1>0, <2>6, <3>3, <5>1, WrkFields DEF AskAdmission, Attach
      <4> QED BY <3>2, <4>1, <4>2 DEF Ask
    <3> QED BY <1>0, <2>6, <3>1, <3>3, WrkStep DEF WrkMoves, WrkAsks, Outside
  <2>7. ASSUME wrk'[i].pc \in Attached, wrk'[i].id # None PROVE wrk'[i].id \in sup'[i].owners
    <3>1. CASE wrk[i].pc \in Attached /\ wrk'[i].id = wrk[i].id
      BY <2>1, <2>2, <2>7, <3>1
    <3>2. CASE WorkerReceives(i) /\ WrkMoves(i, {"admit"}, {"attach"})
      <4>1. down[i] # <<>> /\ Head(down[i]) = "registered"
        BY <1>0, <3>2, WrkFields DEF WorkerReceives, WrkMoves, Worker
      <4>2. Waiting(i) BY <2>2, <3>2 DEF WrkMoves
      <4>3. wrk[i].id \in sup[i].owners BY <1>9, <4>1, <4>2 DEF Waiting
      <4> QED BY <2>1, <3>2, <4>3 DEF WrkMoves
    <3>3. ASSUME wrk[i].pc \in {"open", "boot"}, wrk'[i].id = wrk[i].id PROVE FALSE
      BY <2>7, <3>3 DEF Handed, Pairing, Worker, Fresh
    <3> QED
      BY <1>0, <2>7, <3>1, <3>2, <3>3, WrkStep
      DEF WrkMoves, WrkAsks, Outside, Attached
  <2> QED BY <2>5, <2>6, <2>7
<1> QED BY <1>1, <1>2

(* The channel of another launch is as it was. *)
LEMMA AskingStep ==
  ASSUME Types, Types', Handed, Pairing, Asking, NEW i \in Launches, Step(i)
  PROVE  Asking'
<1>0. /\ sup \in [Launches -> Sups] /\ wrk \in [Launches -> Wrks]
      /\ down \in [Launches -> Seq(Msgs)] /\ up \in [Launches -> Seq(Calls)]
  BY DEF Types
<1>1. ASSUME NEW j \in Launches, j # i, sup'[j].pc = "run"
      PROVE  /\ wrk'[j].pc \in Fresh \cup {"attach"} => Quiet(j)'
             /\ wrk'[j].pc = "admit" => Waiting(j)'
             /\ wrk'[j].pc \in Attached /\ wrk'[j].id # None => wrk'[j].id \in sup'[j].owners
  <2>1. sup'[j] = sup[j] /\ wrk'[j] = wrk[j] /\ down'[j] = down[j] /\ up'[j] = up[j]
    BY <1>0, <1>1, Local
  <2>2. /\ wrk[j].pc \in Fresh \cup {"attach"} => Quiet(j)
        /\ wrk[j].pc = "admit" => Waiting(j)
        /\ wrk[j].pc \in Attached /\ wrk[j].id # None => wrk[j].id \in sup[j].owners
    BY <1>1, <2>1 DEF Asking, Worker
  <2>3. Quiet(j) => Quiet(j)' BY <2>1 DEF Quiet
  <2>4. Waiting(j) => Waiting(j)' BY <2>1 DEF Waiting
  <2> QED BY <2>1, <2>2, <2>3, <2>4
<1>2. sup'[i].pc = "run" => /\ wrk'[i].pc \in Fresh \cup {"attach"} => Quiet(i)'
                            /\ wrk'[i].pc = "admit" => Waiting(i)'
                            /\ wrk'[i].pc \in Attached /\ wrk'[i].id # None
                                 => wrk'[i].id \in sup'[i].owners
  BY AskingHere
<1> QED BY <1>1, <1>2 DEF Asking, Worker

-----------------------------------------------------------------------------
LEMMA TypeParts == TypeOK <=> Types /\ Handed
BY DEF TypeOK, Types, Handed, Sups, SupPlaces, Wrks, WrkPlaces, Msgs, Calls, Leases

LEMMA InitTypes == Init => Types
<1>1. SUFFICES ASSUME Init PROVE Types OBVIOUS
<1>2. 1 \in Launches BY ProcessConstants DEF Launches
<1>3. NewSupervisor \in Sups /\ [NewSupervisor EXCEPT !.pc = "done"] \in Sups
  BY DEF NewSupervisor, Sups, SupPlaces
<1>4. NewWorker \in Wrks /\ [NewWorker EXCEPT !.pc = "gone"] \in Wrks
  BY DEF NewWorker, Wrks, WrkPlaces
<1>5. sup \in [Launches -> Sups] BY <1>1, <1>3 DEF Init
<1>6. wrk \in [Launches -> Wrks] BY <1>1, <1>4 DEF Init
<1>7. <<>> \in Seq(Msgs) /\ <<>> \in Seq(Calls) OBVIOUS
<1>8. down \in [Launches -> Seq(Msgs)] /\ up \in [Launches -> Seq(Calls)]
  BY <1>1, <1>7 DEF Init
<1>9. lease \in [Owners -> Leases] BY <1>1 DEF Init, Leases
<1>10. lock \in Launches \cup {None} /\ pid = lock /\ ledger = lock
  BY <1>1, <1>2 DEF Init, Earlier
<1>11. records = {} /\ kills = 0 /\ fails = 0 /\ stolen = FALSE BY <1>1 DEF Init
<1>12. kills \in 0..MaxKills /\ fails \in 0..MaxFails BY <1>11, ProcessConstants
<1> QED BY <1>5, <1>6, <1>8, <1>9, <1>10, <1>11, <1>12 DEF Types

LEMMA InitHolds == Init => IInv
<1>1. SUFFICES ASSUME Init PROVE IInv OBVIOUS
<1>2. Types BY <1>1, InitTypes
<1>3. \A i \in Launches :
        /\ sup[i].pc = IF i = Earlier THEN "done" ELSE "off"
        /\ wrk[i].pc = IF i = Earlier THEN "gone" ELSE "off"
        /\ wrk[i].id = None /\ sup[i].owners = {} /\ up[i] = <<>>
  <2>1. \A i \in Launches :
          /\ sup[i] = IF i = Earlier THEN [NewSupervisor EXCEPT !.pc = "done"] ELSE NewSupervisor
          /\ wrk[i] = IF i = Earlier THEN [NewWorker EXCEPT !.pc = "gone"] ELSE NewWorker
          /\ up[i] = <<>>
    BY <1>1 DEF Init
  <2>2. /\ NewSupervisor.pc = "off" /\ [NewSupervisor EXCEPT !.pc = "done"].pc = "done"
        /\ NewSupervisor.owners = {} /\ [NewSupervisor EXCEPT !.pc = "done"].owners = {}
    BY DEF NewSupervisor
  <2>3. /\ NewWorker.pc = "off" /\ [NewWorker EXCEPT !.pc = "gone"].pc = "gone"
        /\ NewWorker.id = None /\ [NewWorker EXCEPT !.pc = "gone"].id = None
    BY DEF NewWorker
  <2> QED BY <2>1, <2>2, <2>3
<1>4. TypeOK BY <1>2, <1>3, TypeParts DEF Handed, Worker
<1>5. Pairing BY <1>3 DEF Pairing, Supervised, Working, Worker
<1>6. Asking BY <1>3 DEF Asking
<1>7. Leasing
  <2>1. \A o \in Owners : lease[o] = "held" => ledger = o
    BY <1>1 DEF Init, Earlier
  <2> QED BY <1>3, <2>1 DEF Leasing, Hosting, Owning, Worker
<1>8. Naming BY <1>3 DEF Naming, Worker
<1>9. Ending BY <1>3 DEF Ending
<1> QED BY <1>4, <1>5, <1>6, <1>7, <1>8, <1>9 DEF IInv

LEMMA StepHolds == IInv /\ [Next]_vars => IInv'
<1>1. ASSUME IInv, NEW i \in Launches, Step(i) PROVE IInv'
  <2>1. Types /\ Handed /\ Pairing /\ Asking /\ Leasing /\ Naming /\ Ending
    BY <1>1, TypeParts DEF IInv
  <2>2. Types' BY <1>1, <2>1, TypeStep
  <2>3. Handed' BY <1>1, <2>1, HandedStep
  <2>4. TypeOK'
    BY <2>2, <2>3
    DEF TypeOK, Types, Handed, Sups, SupPlaces, Wrks, WrkPlaces, Msgs, Calls,
        Leases
  <2>5. Pairing' BY <1>1, <2>1, PairingStep
  <2>6. Asking' BY <1>1, <2>1, <2>2, AskingStep
  <2>7. Leasing' BY <1>1, <2>1, LeasingStep
  <2>8. Naming' BY <1>1, <2>1, NamingStep
  <2>9. Ending' BY <1>1, <2>1, EndingStep
  <2> QED BY <2>4, <2>5, <2>6, <2>7, <2>8, <2>9 DEF IInv
<1>2. ASSUME IInv, UNCHANGED vars PROVE IInv'
  <2>1. TypeOK' /\ Pairing' /\ Naming' /\ Ending'
    BY <1>2 DEF IInv, vars, TypeOK, Pairing, Naming, Ending, Supervised, Worker
  <2>2. Asking' BY <1>2 DEF IInv, vars, Asking, Quiet, Waiting, Worker
  <2>3. Leasing' BY <1>2 DEF IInv, vars, Leasing, Hosting, Supervised, Worker
  <2> QED BY <2>1, <2>2, <2>3 DEF IInv
<1> QED BY <1>1, <1>2 DEF Next, Step

(* The channel protocol of registerOwner, the two file locks and the event *)
(* files keep the inductive invariant, whatever is killed or fails.        *)
THEOREM Invariance == Spec => []IInv
BY InitHolds, StepHolds, PTL DEF Spec

(* The files, the channel and both processes keep their shape, and a       *)
(* worker waits, attaches or hosts with an owner in hand.                  *)
THEOREM TypeCorrect == Spec => []TypeOK
<1>1. IInv => TypeOK BY DEF IInv
<1> QED BY <1>1, Invariance, PTL

(* acquireDaemonLock and writeDaemonPid let one worker at a time host the  *)
(* room: it is the one daemon.lock and daemon.pid name, and the lease of   *)
(* its owner is alive, whatever an orphan of an earlier launch still does. *)
THEOREM ServesAloneAlways == Spec => []ServesAlone
<1>1. ASSUME IInv PROVE ServesAlone
  <2>1. ASSUME ~stolen, NEW i \in Launches, NEW j \in Launches, Hosting(i), Hosting(j)
        PROVE  i = j
    BY <1>1, <2>1 DEF IInv, Leasing
  <2>2. ASSUME NEW i \in Launches, Worker(i, {"serve"}), Supervised(i)
        PROVE  pid = i /\ (~stolen /\ wrk[i].id # None => lease[wrk[i].id] = "held")
    BY <1>1, <2>2 DEF IInv, Leasing, Naming, Worker
  <2> QED BY <2>1, <2>2 DEF ServesAlone
<1> QED BY <1>1, Invariance, PTL

(* registerOwner is acknowledged before the attachment, so that 'exit'     *)
(* finds every owner in the supervisor's memory, and replaySerial drops an *)
(* event only after the release it stands for.                             *)
THEOREM OwnersStayAccounted == Spec => []OwnersAreAccounted
<1>1. ASSUME IInv PROVE OwnersAreAccounted
  <2>1. ASSUME NEW i \in Launches, sup[i].pc = "run", wrk[i].id # None,
               Worker(i, {"attach", "hosting", "serve", "drain"})
        PROVE  wrk[i].id \in sup[i].owners
    BY <1>1, <2>1 DEF IInv, Asking, Attached
  <2>2. ASSUME NEW i \in Launches, NEW o \in sup[i].owners
        PROVE  /\ sup[i].pc = "deliver" => o \in sup[i].todo \/ lease[o] = "retired"
               /\ sup[i].pc = "wait" => o \in records \/ lease[o] = "retired"
    BY <1>1 DEF IInv, Ending
  <2>3. ~stolen => \A o \in Owners : lease[o] = "held" => ledger = o
    BY <1>1 DEF IInv, Leasing
  <2> QED BY <2>1, <2>2, <2>3 DEF OwnersAreAccounted
<1> QED BY <1>1, Invariance, PTL
=============================================================================

---------------------------- MODULE DaemonProofs ----------------------------
(* Theorems about Daemon, for any rooms, residues and numbers of failures.  *)
EXTENDS Daemon, TLAPS

(* The Boolean variables stay Boolean. *)
LEMMA FlagsStep == ASSUME FlagsOK, Next PROVE FlagsOK'
<1>. USE DEF FlagsOK, startup, disk, traffic, debt, fanout, ending, budget, Fault, Go, CleanUp, MayFail,
       WorkEnds
<1>1. CASE BootStep
  BY ZenonT(30), <1>1 DEF BootStep, Boot, HostReady, ListRooms, BootFails, NextPhase, TransportsUp, Flushed, Work,
     StartWork, Recovered, Fails, ResumeRequest, FinishClosing, FanOut, DeferFanout
<1>2. CASE CleanupStep
  BY <1>2 DEF CleanupStep, StopIdle, StopTransports, Settle, Attest, UnhostAll, Release
<1>3. ASSUME NEW r \in Rooms, RetryStep(r) PROVE FlagsOK'
  BY <1>3 DEF RetryStep, Fire, Load, AttemptFails, DrainOk, DrainTransport, Unhosted
<1>4. ASSUME NEW r \in Rooms, Notify(r) PROVE FlagsOK'
  BY <1>4 DEF Notify, Announce, NoteDone, NoteFails
<1>5. ASSUME NEW r \in Rooms, Arrive(r) \/ StartClose(r) \/ FinishClose(r) PROVE FlagsOK'
  BY <1>5 DEF Arrive, StartClose, FinishClose
<1>6. CASE Shutdown
  BY <1>6 DEF Shutdown
<1>. QED
  BY <1>1, <1>2, <1>3, <1>4, <1>5, <1>6 DEF Next

(* The other variables keep their shape, one step per action. *)
LEMMA ShapeStep == ASSUME ShapeOK, Next PROVE ShapeOK'
<1>. USE DaemonConstants DEF ShapeOK, Phases, Cleanup, States, Callers, Fault, Go, startup, disk, traffic,
       debt, fanout, ending, budget
<1>1. CASE Boot BY <1>1 DEF Boot
<1>2. CASE HostReady BY <1>2 DEF HostReady, CleanUp, CancelRetries
<1>3. CASE ListRooms BY <1>3 DEF ListRooms, CleanUp, CancelRetries
<1>4. CASE BootFails BY <1>4 DEF BootFails, CleanUp, CancelRetries
<1>5. CASE NextPhase BY <1>5 DEF NextPhase, After
<1>6. CASE TransportsUp BY <1>6 DEF TransportsUp, CleanUp, CancelRetries
<1>7. CASE Flushed BY <1>7 DEF Flushed, CleanUp, CancelRetries
<1>8. CASE Shutdown BY <1>8 DEF Shutdown
<1>9. CASE StopIdle BY <1>9 DEF StopIdle, CleanUp, CancelRetries
<1>10. CASE StopTransports BY <1>10 DEF StopTransports, MayFail
<1>11. CASE Settle BY <1>11 DEF Settle, MayFail
<1>12. CASE Attest BY <1>12 DEF Attest
<1>13. CASE UnhostAll BY <1>13 DEF UnhostAll, MayFail
<1>14. CASE Release BY <1>14 DEF Release, MayFail
<1>15. ASSUME NEW r \in Rooms, Work(r) PROVE ShapeOK'
  <2>1. CASE StartWork(r) BY <2>1 DEF StartWork
  <2>2. CASE Recovered(r) BY <2>2 DEF Recovered, WorkEnds, Unhost
  <2>3. CASE Fails(r) BY <2>3 DEF Fails, WorkEnds, Unhost
  <2>4. CASE ResumeRequest(r) BY <2>4 DEF ResumeRequest, StaysClosing, Unhost
  <2>5. CASE FinishClosing(r) BY <2>5 DEF FinishClosing, Unhost
  <2>6. CASE FanOut(r) BY <2>6 DEF FanOut, WorkEnds, Unhost, Pay
  <2>7. CASE DeferFanout(r) BY <2>7 DEF DeferFanout, WorkEnds, Unhost, Retry
  <2>. QED BY <1>15, <2>1, <2>2, <2>3, <2>4, <2>5, <2>6, <2>7 DEF Work
<1>16. ASSUME NEW r \in Rooms, Notify(r) PROVE ShapeOK'
  <2>1. CASE Announce(r) BY <2>1 DEF Announce
  <2>2. ASSUME NEW c \in Callers, NoteDone(r, c) PROVE ShapeOK' BY <2>2 DEF NoteDone, Pay
  <2>3. ASSUME NEW c \in Callers, NoteFails(r, c) PROVE ShapeOK' BY <2>3 DEF NoteFails
  <2>. QED BY <1>16, <2>1, <2>2, <2>3 DEF Notify
<1>17. ASSUME NEW r \in Rooms, RetryStep(r) PROVE ShapeOK'
  <2>1. CASE Fire(r) BY <2>1 DEF Fire, Retry
  <2>2. CASE Load(r) BY <2>2 DEF Load, Retry
  <2>3. CASE AttemptFails(r) BY <2>3 DEF AttemptFails, Retry, Unhost
  <2>4. CASE DrainOk(r) BY <2>4 DEF DrainOk, Retry, Pay
  <2>5. CASE DrainTransport(r) BY <2>5 DEF DrainTransport, Retry
  <2>6. CASE Unhosted(r) BY <2>6 DEF Unhosted, Retry
  <2>. QED BY <1>17, <2>1, <2>2, <2>3, <2>4, <2>5, <2>6 DEF RetryStep
<1>18. ASSUME NEW r \in Rooms, Arrive(r) PROVE ShapeOK' BY <1>18 DEF Arrive
<1>19. ASSUME NEW r \in Rooms, StartClose(r) PROVE ShapeOK' BY <1>19 DEF StartClose
<1>20. ASSUME NEW r \in Rooms, FinishClose(r) PROVE ShapeOK' BY <1>20 DEF FinishClose, StaysClosing, Unhost
<1>. QED
  BY <1>1, <1>2, <1>3, <1>4, <1>5, <1>6, <1>7, <1>8, <1>9, <1>10, <1>11, <1>12, <1>13, <1>14, <1>15, <1>16,
     <1>17, <1>18, <1>19, <1>20 DEF Next, BootStep, CleanupStep

LEMMA TypeInit == Init => TypeOK
<1>1. Init => ShapeOK
  BY DaemonConstants DEF Init, ShapeOK, Phases, Cleanup, States, Callers
<1>2. Init => FlagsOK
  BY DEF Init, FlagsOK
<1>. QED
  BY <1>1, <1>2 DEF TypeOK

LEMMA TypeStep == TypeOK /\ [Next]_vars => TypeOK'
<1>1. ASSUME TypeOK, UNCHANGED vars PROVE TypeOK'
  <2>1. ShapeOK'
    BY <1>1 DEF TypeOK, ShapeOK, vars, startup, disk, traffic, debt, fanout, ending, budget
  <2>2. FlagsOK'
    BY <1>1 DEF TypeOK, FlagsOK, vars, ending
  <2>. QED
    BY <2>1, <2>2 DEF TypeOK
<1>. QED
  BY <1>1, FlagsStep, ShapeStep DEF TypeOK

(* Every variable keeps the shape the code gives it, and no recovery is at   *)
(* work outside the phases: a failed boot's cleanup starts alone.            *)
THEOREM TypeCorrect == Spec => []TypeOK
BY TypeInit, TypeStep, PTL DEF Spec

-----------------------------------------------------------------------------
(* The end of cleanup.  Cancelling leaves no timer behind, no step of a      *)
(* stopping worker arms one, and settling waits for what was running.        *)
Quiet ==
  /\ Stopping => \A r \in Rooms : retry[r] \notin {"timer", "deferred"}
  /\ QuietOnceSettled

LEMMA QuietStep == ASSUME ShapeOK, Quiet, Next PROVE Quiet'
<1>. USE DaemonConstants DEF Quiet, QuietOnceSettled, Stopping, Cleanup, Phases, ShapeOK, startup, disk,
       traffic, debt, fanout, ending, budget, Go
<1>1. CASE Boot \/ HostReady \/ ListRooms \/ BootFails \/ TransportsUp \/ Flushed
  BY <1>1 DEF Boot, HostReady, ListRooms, BootFails, TransportsUp, Flushed, CleanUp, CancelRetries, Attempting
<1>2. CASE NextPhase
  BY <1>2 DEF NextPhase, After
<1>3. ASSUME NEW r \in Rooms, Work(r) PROVE Quiet'
  BY <1>3 DEF Work, StartWork, Recovered, Fails, ResumeRequest, FinishClosing, FanOut, DeferFanout,
     WorkEnds, Retry
<1>4. CASE Shutdown \/ StopTransports \/ Attest \/ UnhostAll \/ Release
  BY <1>4 DEF Shutdown, StopTransports, Attest, UnhostAll, Release, MayFail
<1>5. CASE StopIdle
  BY <1>5 DEF StopIdle, CleanUp, CancelRetries, Attempting
<1>6. CASE Settle
  BY <1>6 DEF Settle, Attempting
<1>7. ASSUME NEW r \in Rooms, Arrive(r) \/ StartClose(r) \/ FinishClose(r) PROVE Quiet'
  BY <1>7 DEF Arrive, StartClose, FinishClose
<1>8. ASSUME NEW r \in Rooms, Notify(r) PROVE Quiet'
  BY <1>8 DEF Notify, Announce, NoteDone, NoteFails, Ready
<1>9. ASSUME NEW r \in Rooms, RetryStep(r) PROVE Quiet'
  <2>1. CASE Fire(r) BY <2>1 DEF Fire, Retry
  <2>2. CASE Load(r) BY <2>2 DEF Load, Retry
  <2>3. CASE AttemptFails(r) BY <2>3 DEF AttemptFails, Retry
  <2>4. CASE DrainOk(r) BY <2>4 DEF DrainOk, Retry
  <2>5. CASE DrainTransport(r) BY <2>5 DEF DrainTransport, Retry
  <2>6. CASE Unhosted(r) BY <2>6 DEF Unhosted, Retry
  <2>. QED BY <1>9, <2>1, <2>2, <2>3, <2>4, <2>5, <2>6 DEF RetryStep
<1>. QED
  BY <1>1, <1>2, <1>3, <1>4, <1>5, <1>6, <1>7, <1>8, <1>9 DEF Next, BootStep, CleanupStep

(* Once the transports have stopped either no accepted request is left or an *)
(* error is on record, and an error keeps the end from being attested.       *)
Drained ==
  /\ pc \in {"settling", "terminal", "unhosting", "release", "ended"} => closes = {} \/ errors
  /\ attested => closes = {} /\ pc \in {"unhosting", "release", "ended"}

LEMMA DrainedStep == ASSUME ShapeOK, Drained, Next PROVE Drained'
<1>. USE DEF Drained, Cleanup, Phases, startup, disk, traffic, debt, fanout, ending, budget, Go
<1>1. CASE BootStep
  <2>1. CASE NextPhase BY <2>1 DEF NextPhase, Phases, After
  <2>2. CASE Boot \/ HostReady \/ ListRooms \/ BootFails \/ TransportsUp \/ Flushed
    BY <2>2 DEF Boot, HostReady, ListRooms, BootFails, TransportsUp, Flushed, CleanUp
  <2>3. ASSUME NEW r \in Rooms, Work(r) PROVE pc \in Phases /\ UNCHANGED <<pc, closes, ending>>
    BY <2>3 DEF Work, StartWork, Recovered, Fails, ResumeRequest, FinishClosing, FanOut, DeferFanout, WorkEnds
  <2>4. ASSUME NEW r \in Rooms, Work(r) PROVE Drained'
    BY <2>3, <2>4
  <2>. QED BY <1>1, <2>1, <2>2, <2>4 DEF BootStep
<1>2. CASE CleanupStep
  BY <1>2 DEF CleanupStep, StopIdle, CleanUp, StopTransports, Settle, Attest, UnhostAll, Release, MayFail
<1>3. CASE Shutdown
  BY <1>3 DEF Shutdown
<1>4. ASSUME NEW r \in Rooms, Arrive(r) \/ StartClose(r) \/ FinishClose(r) PROVE Drained'
  BY <1>4 DEF Arrive, StartClose, FinishClose, Ready
<1>5. ASSUME NEW r \in Rooms, Notify(r) PROVE Drained'
  <2>1. UNCHANGED <<pc, closes, errors, attested>>
    BY <1>5 DEF Notify, Announce, NoteDone, NoteFails
  <2>. QED
    BY <2>1
<1>6. ASSUME NEW r \in Rooms, RetryStep(r) PROVE Drained'
  BY <1>6 DEF RetryStep, Fire, Load, AttemptFails, DrainOk, DrainTransport, Unhosted
<1>. QED
  BY <1>1, <1>2, <1>3, <1>4, <1>5, <1>6 DEF Next

LEMMA CleanupInvariant == Spec => [](Quiet /\ Drained)
<1>1. Init => Quiet /\ Drained
  BY DEF Init, Quiet, QuietOnceSettled, Stopping, Cleanup, Drained
<1>2. TypeOK /\ Quiet /\ Drained /\ [Next]_vars => (Quiet /\ Drained)'
  <2>1. ASSUME Quiet, Drained, UNCHANGED vars PROVE (Quiet /\ Drained)'
    BY <2>1 DEF Quiet, QuietOnceSettled, Stopping, Cleanup, Drained, vars, traffic, fanout, ending
  <2>. QED
    BY <2>1, QuietStep, DrainedStep DEF TypeOK
<1>. QED
  BY <1>1, <1>2, TypeCorrect, PTL DEF Spec

(* When the leases are released no notification, attempt or timer is left    *)
(* (cleanupUnlocked, cancelFanoutRetries).                                  *)
THEOREM NothingOutlivesCleanup == Spec => []QuietOnceSettled
<1>1. Quiet => QuietOnceSettled
  BY DEF Quiet
<1>. QED
  BY <1>1, CleanupInvariant, PTL

(* The session's end is attested only when every accepted request has been   *)
(* answered (cleanupUnlocked).                                              *)
THEOREM AttestationFollowsDrain == Spec => []AttestedIsDrained
<1>1. Drained => AttestedIsDrained
  BY DEF Drained, AttestedIsDrained
<1>. QED
  BY <1>1, CleanupInvariant, PTL

(* Both halves of an orderly end (cleanupUnlocked).                          *)
THEOREM CleanupStaysOrderly == Spec => []CleanupIsOrderly
  BY NothingOutlivesCleanup, AttestationFollowsDrain, PTL DEF CleanupIsOrderly

-----------------------------------------------------------------------------
(* Health.  A retry may clear the health of a room it found unhosted, so the *)
(* invariant has to show that an open room with a retry is hosted, which in  *)
(* turn rests on what the recovery phases establish.                        *)
Recovering ==
  /\ ~Ready /\ ~Stopping => closes = {}
  /\ busy # NoRoom => busy \notin todo /\ (pc # "requests" => busy \in healthy)
  /\ pc = "restore" => \A r \in healthy \ todo : r = busy \/ r \in hosted
  /\ pc \in Phases \ {"restore"} => \A r \in healthy : state[r] = "open" => r \in hosted
Deferred ==
  /\ pc \in {"down", "host", "list"} \cup Phases =>
       \A r \in Rooms : \/ retry[r] = "none"
                        \/ pc = "fanout" /\ retry[r] = "deferred" /\ r \notin todo /\ r # busy
  /\ pc = "transports" => \A r \in Rooms : retry[r] \in {"none", "deferred"}
  /\ Ready => \A r \in Rooms : retry[r] # "deferred"
Retrying(r) ==
  retry[r] \in {"timer", "loading", "draining"} \/ (retry[r] = "deferred" /\ ~cancelled)
RetriedIsHosted == ~Stopping => \A r \in Rooms : state[r] = "open" /\ Retrying(r) => r \in hosted

HealthInv == Recovering /\ Deferred /\ RetriedIsHosted /\ FanoutHealthIsHonest

LEMMA HealthStep == ASSUME ShapeOK, HealthInv, Next PROVE HealthInv'
<1>. USE DaemonConstants DEF HealthInv, Recovering, Deferred, RetriedIsHosted, Retrying,
       FanoutHealthIsHonest, Stopping, Ready, Cleanup, Phases, ShapeOK, startup, disk,
       traffic, debt, fanout, ending, budget, Go
<1>1. CASE Boot \/ HostReady \/ ListRooms \/ BootFails
  BY <1>1 DEF Boot, HostReady, ListRooms, BootFails, CleanUp, CancelRetries, Attempting
<1>2. CASE TransportsUp \/ Flushed
  BY <1>2 DEF TransportsUp, Flushed, CleanUp, CancelRetries, Attempting
<1>3. CASE NextPhase
  BY <1>3 DEF NextPhase, After, Eligible
<1>4. ASSUME NEW r \in Rooms, Work(r) PROVE HealthInv'
  <2>1. CASE StartWork(r) BY <2>1 DEF StartWork, Eligible
  <2>2. CASE Recovered(r) BY <2>2 DEF Recovered, WorkEnds, Unhost
  <2>3. CASE Fails(r) BY <2>3 DEF Fails, WorkEnds, Unhost
  <2>4. CASE ResumeRequest(r) BY <2>4 DEF ResumeRequest, StaysClosing, Unhost
  <2>5. CASE FinishClosing(r) BY <2>5 DEF FinishClosing, Unhost
  <2>6. CASE FanOut(r) BY <2>6 DEF FanOut, WorkEnds, Unhost, Pay
  <2>7. CASE DeferFanout(r) BY <2>7 DEF DeferFanout, WorkEnds, Unhost, Retry
  <2>. QED BY <1>4, <2>1, <2>2, <2>3, <2>4, <2>5, <2>6, <2>7 DEF Work
<1>5. CASE Shutdown
  BY <1>5 DEF Shutdown
<1>6. CASE CleanupStep
  BY <1>6 DEF CleanupStep, StopIdle, CleanUp, CancelRetries, Attempting, StopTransports, Settle,
     Attest, UnhostAll, Release
<1>7. ASSUME NEW r \in Rooms, Arrive(r) \/ StartClose(r) PROVE HealthInv'
  BY <1>7 DEF Arrive, StartClose
<1>8. ASSUME NEW r \in Rooms, FinishClose(r) PROVE HealthInv'
  BY <1>8 DEF FinishClose, StaysClosing, Unhost
<1>9. ASSUME NEW r \in Rooms, Notify(r) PROVE HealthInv'
  <2>1. /\ UNCHANGED <<pc, todo, busy, healthy, state, hosted, closes, retry, sick, cancelled>>
        /\ failed' \subseteq failed
    BY <1>9 DEF Notify, Announce, NoteDone, NoteFails, Pay
  <2>. QED BY <2>1
<1>10. ASSUME NEW r \in Rooms, RetryStep(r) PROVE HealthInv'
  <2>1. CASE Fire(r) BY <2>1 DEF Fire, Retry
  <2>2. CASE Load(r) BY <2>2 DEF Load, Retry
  <2>3. CASE AttemptFails(r) BY <2>3 DEF AttemptFails, Retry, Unhost
  <2>4. CASE DrainOk(r) BY <2>4 DEF DrainOk, Retry, Pay, Serves
  <2>5. CASE DrainTransport(r) BY <2>5 DEF DrainTransport, Retry
  <2>6. CASE Unhosted(r) BY <2>6 DEF Unhosted, Retry
  <2>. QED BY <1>10, <2>1, <2>2, <2>3, <2>4, <2>5, <2>6 DEF RetryStep
<1>. QED
  BY <1>1, <1>2, <1>3, <1>4, <1>5, <1>6, <1>7, <1>8, <1>9, <1>10 DEF Next, BootStep

LEMMA HealthInvariant == Spec => []HealthInv
<1>1. Init => HealthInv
  BY DaemonConstants DEF Init, HealthInv, Recovering, Deferred, RetriedIsHosted, Retrying,
     FanoutHealthIsHonest, Ready, Phases
<1>2. TypeOK /\ HealthInv /\ [Next]_vars => HealthInv'
  <2>1. ASSUME HealthInv, UNCHANGED vars PROVE HealthInv'
    BY <2>1 DEF HealthInv, Recovering, Deferred, RetriedIsHosted, Retrying, FanoutHealthIsHonest, Ready,
       Stopping, vars, startup, disk, debt, fanout
  <2>. QED
    BY <2>1, HealthStep DEF TypeOK
<1>. QED
  BY <1>1, <1>2, TypeCorrect, PTL DEF Spec

(* A room whose start-up fan-out failed in transport reads unhealthy until   *)
(* it is served, closing or gone, whatever races the retry (deferFanout).    *)
THEOREM HealthIsHonest == Spec => []FanoutHealthIsHonest
<1>1. HealthInv => FanoutHealthIsHonest
  BY DEF HealthInv
<1>. QED
  BY <1>1, HealthInvariant, PTL

-----------------------------------------------------------------------------
(* Who comes back to unread rows.  Until the worker is ready every hosted    *)
(* room is still to be announced or queued, which the flush turns into a     *)
(* notification; a failed flush counts on the retry, which every room whose  *)
(* start-up fan-out failed has while it is served.                           *)
Announced == ~Ready /\ ~Stopping => hosted \subseteq announce \cup queued
Owing ==
  /\ pc \in {"down", "host", "list"} \cup (Phases \ {"fanout"}) => failed = {}
  /\ ~Stopping => \A r \in failed :
       Serves(r) => retry[r] \in {"deferred", "timer", "loading", "draining"}
OwnerInv == Announced /\ Owing /\ UnreadHasAnOwner

LEMMA OwnerStep == ASSUME ShapeOK, HealthInv, OwnerInv, Next PROVE OwnerInv'
<1>. USE DaemonConstants DEF OwnerInv, Announced, Owing, UnreadHasAnOwner, Responsible, Serves, Stopping, Ready,
       Cleanup, Phases, Callers, ShapeOK, startup, disk, traffic, debt, fanout, ending, budget, Go
<1>1. CASE Boot \/ HostReady \/ ListRooms \/ BootFails
  BY <1>1 DEF Boot, HostReady, ListRooms, BootFails, CleanUp, CancelRetries, Attempting
<1>2. CASE TransportsUp
  BY <1>2 DEF TransportsUp, CleanUp, CancelRetries, Attempting
<1>3. CASE Flushed
  BY <1>3 DEF Flushed, CleanUp
<1>4. CASE NextPhase
  BY <1>4 DEF NextPhase, After
<1>5. ASSUME NEW r \in Rooms, Work(r) PROVE OwnerInv'
  <2>1. CASE StartWork(r) BY <2>1 DEF StartWork
  <2>2. CASE Recovered(r) BY <2>2 DEF Recovered, WorkEnds, Unhost
  <2>3. CASE Fails(r) BY <2>3 DEF Fails, WorkEnds, Unhost
  <2>4. CASE ResumeRequest(r) BY <2>4 DEF ResumeRequest, StaysClosing, Unhost
  <2>5. CASE FinishClosing(r) BY <2>5 DEF FinishClosing, Unhost
  <2>6. CASE FanOut(r) BY <2>6 DEF FanOut, WorkEnds, Unhost, Pay
  <2>7. CASE DeferFanout(r) BY <2>7 DEF DeferFanout, WorkEnds, Unhost, Retry
  <2>. QED BY <1>5, <2>1, <2>2, <2>3, <2>4, <2>5, <2>6, <2>7 DEF Work
<1>6. CASE Shutdown
  BY <1>6 DEF Shutdown
<1>7. CASE CleanupStep
  BY <1>7 DEF CleanupStep, StopIdle, CleanUp, StopTransports, Settle, Attest, UnhostAll, Release
<1>8. ASSUME NEW r \in Rooms, Arrive(r) PROVE OwnerInv'
  BY <1>8 DEF Arrive
<1>9. ASSUME NEW r \in Rooms, StartClose(r) PROVE OwnerInv'
  BY <1>9 DEF StartClose
<1>10. ASSUME NEW r \in Rooms, FinishClose(r) PROVE OwnerInv'
  BY <1>10 DEF FinishClose, StaysClosing, Unhost
<1>11. ASSUME NEW r \in Rooms, Notify(r) PROVE OwnerInv'
  <2>1. CASE Announce(r) BY <2>1 DEF Announce
  <2>2. ASSUME NEW c \in Callers, NoteDone(r, c) PROVE OwnerInv'
    BY <2>2 DEF NoteDone, Pay
  <2>3. ASSUME NEW c \in Callers, NoteFails(r, c) PROVE OwnerInv'
    BY <2>3 DEF NoteFails, HealthInv, Deferred
  <2>. QED BY <1>11, <2>1, <2>2, <2>3 DEF Notify
<1>12. ASSUME NEW r \in Rooms, RetryStep(r) PROVE OwnerInv'
  <2>1. CASE Fire(r) BY <2>1 DEF Fire, Retry
  <2>2. CASE Load(r) BY <2>2 DEF Load, Retry
  <2>3. CASE AttemptFails(r) BY <2>3 DEF AttemptFails, Retry, Unhost
  <2>4. CASE DrainOk(r) BY <2>4 DEF DrainOk, Retry, Pay
  <2>5. CASE DrainTransport(r) BY <2>5 DEF DrainTransport, Retry
  <2>6. CASE Unhosted(r) BY <2>6 DEF Unhosted, Retry
  <2>. QED BY <1>12, <2>1, <2>2, <2>3, <2>4, <2>5, <2>6 DEF RetryStep
<1>. QED
  BY <1>1, <1>2, <1>3, <1>4, <1>5, <1>6, <1>7, <1>8, <1>9, <1>10, <1>11, <1>12 DEF Next, BootStep

(* An open room with unread rows or unsent content is never left to nobody   *)
(* by the races of boot, its notification queue, the retries and shutdown;   *)
(* only a flushed notification that failed is (bootUnlocked,                 *)
(* handleNotification, deferFanout).                                         *)
THEOREM UnreadIsOwned == Spec => []UnreadHasAnOwner
<1>1. Init => OwnerInv
  BY DaemonConstants DEF Init, OwnerInv, Announced, Owing, UnreadHasAnOwner, Ready
<1>2. TypeOK /\ HealthInv /\ OwnerInv /\ [Next]_vars => OwnerInv'
  <2>1. ASSUME OwnerInv, UNCHANGED vars PROVE OwnerInv'
    BY <2>1 DEF OwnerInv, Announced, Owing, UnreadHasAnOwner, Responsible, Serves, Ready, Stopping, vars,
       startup, disk, traffic, debt, fanout
  <2>. QED
    BY <2>1, OwnerStep DEF TypeOK
<1>3. OwnerInv => UnreadHasAnOwner
  BY DEF OwnerInv
<1>. QED
  BY <1>1, <1>2, <1>3, TypeCorrect, HealthInvariant, PTL DEF Spec
=============================================================================

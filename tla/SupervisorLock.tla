--------------------------- MODULE SupervisorLock ---------------------------
(***************************************************************************)
(* The supervisor lock of one state directory (src/supervisor-lock.ts):    *)
(* a chain of files supervisor.lock.<n>.  A contender lists the directory, *)
(* judges the newest generation and links the next one; a second listing   *)
(* tells it whether that listing was stale.  Release leaves a tombstone.   *)
(*                                                                         *)
(* Each step below is one call on the file system, so every contender can  *)
(* be anywhere in the procedure, or dead, when another one moves.  A Procs *)
(* element is one incarnation of a process: a supervisor acquires once.    *)
(* The waiter is the read-only check of `cowork start` (src/cli.ts).       *)
(***************************************************************************)
EXTENDS Integers

CONSTANTS
  Procs,      \* contending supervisors
  Ghost,      \* the holder an earlier run of the machine left behind
  NoFile,     \* no generation of this number in the directory
  MaxGen,     \* GENERATION_NAME matches no larger number
  MaxTries,   \* the attempts of acquireSupervisorLock
  Uncertain,  \* a dead holder may look alive: its PID was reused, no evidence
  Residues    \* what an earlier run left: records of one generation

Gens == 1..MaxGen
FirstGen == 1
LockRecord == [owner : Procs \cup {Ghost}, released : BOOLEAN, alias : BOOLEAN]

ASSUME LockConstants ==
  /\ Ghost \notin Procs
  /\ NoFile \notin LockRecord
  /\ MaxGen \in Nat \ {0} /\ MaxTries \in Nat /\ Uncertain \subseteq Procs \cup {Ghost}
  /\ Residues \subseteq {NoFile} \cup [owner : {Ghost}, released : BOOLEAN, alias : BOOLEAN]

VARIABLES
  files,   \* Gens -> the record of that generation, or NoFile
  pc,      \* where each contender is in acquireSupervisorLock and release
  tries,   \* attempts a contender has made
  top,     \* the newest generation its listing showed
  rec,     \* the record it read there
  gen,     \* the generation it published
  doomed,  \* the superseded generations it still has to unlink
  waiter,  \* the start command: "idle", "listed", "read", "held" or "finished"
  seen     \* the generation the start command asks about

vars == <<files, pc, tries, top, rec, gen, doomed, waiter, seen>>
waiting == <<waiter, seen>>

Present == {g \in Gens : files[g] # NoFile}
Top == CHOOSE n \in Present \cup {0} : \A g \in Present : g <= n

Dead(o) == o # Ghost => pc[o] = "dead"
Running(p) == pc[p] # "dead"
(* a record that no longer excludes a replacement *)
Finished(r) == r.released \/ Dead(r.owner)
(* a record whose holder is, or may be, running *)
Doubtful(r) == ~r.released /\ (r.owner \in Uncertain \/ ~Dead(r.owner))
(* From the second listing until the tombstone is in place. *)
Holds(p) == pc[p] \in {"sweep", "hold", "rename"}

Record(p) == [owner |-> p, released |-> FALSE, alias |-> TRUE]
Tombstone(p) == [owner |-> p, released |-> TRUE, alias |-> FALSE]
Goto(p, where) == pc' = [pc EXCEPT ![p] = where]

Init ==
  /\ \E r \in Residues : files = [g \in Gens |-> IF g = FirstGen THEN r ELSE NoFile]
  /\ pc = [p \in Procs |-> "list"] /\ tries = [p \in Procs |-> 0]
  /\ top = [p \in Procs |-> 0] /\ gen = [p \in Procs |-> FirstGen]
  /\ rec = [p \in Procs |-> Tombstone(Ghost)] /\ doomed = [p \in Procs |-> {}]
  /\ waiter = "idle" /\ seen = FirstGen

-----------------------------------------------------------------------------
(* acquireSupervisorLock *)

List(p) ==
  /\ pc[p] = "list" /\ tries[p] < MaxTries
  /\ tries' = [tries EXCEPT ![p] = @ + 1]
  /\ top' = [top EXCEPT ![p] = Top]
  /\ Goto(p, IF Top = 0 THEN "publish" ELSE "probe")
  /\ UNCHANGED <<files, rec, gen, doomed, waiting>>

GiveUp(p) ==
  /\ pc[p] = "list" /\ tries[p] = MaxTries
  /\ Goto(p, "refused")
  /\ UNCHANGED <<files, tries, top, rec, gen, doomed, waiting>>

ProbeKeepsAlias(p) ==
  /\ pc[p] = "probe"
  /\ Goto(p, IF files[top[p]] = NoFile THEN "list" ELSE "read")
  /\ UNCHANGED <<files, tries, top, rec, gen, doomed, waiting>>
(* A second link is the temporary name of a publisher that is, or died,    *)
(* between linking the generation and unlinking it; readHolder wants one.  *)
Probe(p) ==
  /\ pc[p] = "probe"
  /\ IF files[top[p]] = NoFile THEN Goto(p, "list") /\ UNCHANGED files
     ELSE /\ files' = [files EXCEPT ![top[p]].alias = FALSE]
          /\ Goto(p, "read")
  /\ UNCHANGED <<tries, top, rec, gen, doomed, waiting>>

(* A file with a second link is one recreated since: readHolder throws.    *)
Read(p) ==
  /\ pc[p] = "read"
  /\ \/ files[top[p]] = NoFile /\ Goto(p, "list") /\ UNCHANGED rec
     \/ /\ files[top[p]] # NoFile /\ files[top[p]].alias
        /\ Goto(p, "refused") /\ UNCHANGED rec
     \/ /\ files[top[p]] # NoFile /\ ~files[top[p]].alias
        /\ rec' = [rec EXCEPT ![p] = files[top[p]]]
        /\ Goto(p, "inspect")
  /\ UNCHANGED <<files, tries, top, gen, doomed, waiting>>

Inspect(p) ==
  /\ pc[p] = "inspect"
  /\ \/ Finished(rec[p]) /\ Goto(p, "publish")
     \/ Doubtful(rec[p]) /\ Goto(p, "refused")
  /\ UNCHANGED <<files, tries, top, rec, gen, doomed, waiting>>

PublishBeyond(p) ==
  /\ pc[p] = "publish"
  /\ gen' = [gen EXCEPT ![p] = top[p] + 1]
  /\ IF top[p] + 1 \in Gens /\ files[top[p] + 1] # NoFile
     THEN Goto(p, "list") /\ UNCHANGED files
     ELSE /\ files' = [files EXCEPT ![top[p] + 1] = Record(p)]
          /\ Goto(p, "unalias")
  /\ UNCHANGED <<tries, top, rec, doomed, waiting>>
(* linkSync is exclusive.  A number the listing cannot see is taken back   *)
(* at once, so past MaxGen an attempt only fails.                          *)
Publish(p) ==
  /\ pc[p] = "publish"
  /\ IF top[p] + 1 \notin Gens \/ files[top[p] + 1] # NoFile
     THEN Goto(p, "list") /\ UNCHANGED <<files, gen>>
     ELSE /\ files' = [files EXCEPT ![top[p] + 1] = Record(p)]
          /\ gen' = [gen EXCEPT ![p] = top[p] + 1]
          /\ Goto(p, "unalias")
  /\ UNCHANGED <<tries, top, rec, doomed, waiting>>

Own(p) == files[gen[p]] # NoFile /\ files[gen[p]].owner = p

Unalias(p) ==
  /\ pc[p] = "unalias"
  /\ files' = IF Own(p) THEN [files EXCEPT ![gen[p]].alias = FALSE] ELSE files
  /\ Goto(p, "confirm")
  /\ UNCHANGED <<tries, top, rec, gen, doomed, waiting>>

ConfirmBlind(p) ==
  /\ pc[p] = "confirm"
  /\ Goto(p, "sweep")
  /\ doomed' = [doomed EXCEPT ![p] = {g \in Present : g < gen[p]}]
  /\ UNCHANGED <<files, tries, top, rec, gen, waiting>>
ConfirmSweepsAll(p) ==
  /\ pc[p] = "confirm"
  /\ IF Top # gen[p] THEN Goto(p, "withdraw") /\ UNCHANGED doomed
     ELSE Goto(p, "sweep") /\ doomed' = [doomed EXCEPT ![p] = Present]
  /\ UNCHANGED <<files, tries, top, rec, gen, waiting>>
(* "Whoever sees a higher generation has lost." *)
Confirm(p) ==
  /\ pc[p] = "confirm"
  /\ IF Top # gen[p] THEN Goto(p, "withdraw") /\ UNCHANGED doomed
     ELSE /\ Goto(p, "sweep")
          /\ doomed' = [doomed EXCEPT ![p] = {g \in Present : g < gen[p]}]
  /\ UNCHANGED <<files, tries, top, rec, gen, waiting>>

Withdraw(p) ==
  /\ pc[p] = "withdraw"
  /\ files' = [files EXCEPT ![gen[p]] = NoFile]
  /\ Goto(p, "list")
  /\ UNCHANGED <<tries, top, rec, gen, doomed, waiting>>

Sweep(p) ==
  /\ pc[p] = "sweep"
  /\ IF doomed[p] = {} THEN Goto(p, "hold") /\ UNCHANGED <<files, doomed>>
     ELSE /\ \E g \in doomed[p] :
               /\ files' = [files EXCEPT ![g] = NoFile]
               /\ doomed' = [doomed EXCEPT ![p] = @ \ {g}]
          /\ UNCHANGED pc
  /\ UNCHANGED <<tries, top, rec, gen, waiting>>

-----------------------------------------------------------------------------
(* release, and the end of a process *)

Release(p) ==
  /\ pc[p] = "hold"
  /\ Goto(p, IF Own(p) /\ ~files[gen[p]].released THEN "rename" ELSE "done")
  /\ UNCHANGED <<files, tries, top, rec, gen, doomed, waiting>>

Rename(p) ==
  /\ pc[p] = "rename"
  /\ files' = [files EXCEPT ![gen[p]] = Tombstone(p)]
  /\ Goto(p, "done")
  /\ UNCHANGED <<tries, top, rec, gen, doomed, waiting>>

(* A process ends anywhere: killed, or after its release. *)
Die(p) ==
  /\ Running(p) /\ Goto(p, "dead")
  /\ UNCHANGED <<files, tries, top, rec, gen, doomed, waiting>>

-----------------------------------------------------------------------------
(* currentSupervisorGeneration and supervisorGenerationFinished *)

Look ==
  /\ waiter \in {"idle", "held"} /\ Top # 0
  /\ seen' = Top /\ waiter' = "listed"
  /\ UNCHANGED <<files, pc, tries, top, rec, gen, doomed>>

LookAgain ==
  /\ waiter = "listed"
  /\ waiter' = IF Top > seen THEN "finished" ELSE "read"
  /\ UNCHANGED <<files, pc, tries, top, rec, gen, doomed, seen>>

(* An unreadable record counts as held. *)
Judge ==
  /\ waiter = "read"
  /\ IF files[seen] = NoFile THEN waiter' = "finished"
     ELSE \/ ~files[seen].alias /\ Finished(files[seen]) /\ waiter' = "finished"
          \/ /\ files[seen].alias \/ Doubtful(files[seen])
             /\ waiter' = "held"
  /\ UNCHANGED <<files, pc, tries, top, rec, gen, doomed, seen>>

-----------------------------------------------------------------------------
Acquire(p) == \/ List(p) \/ GiveUp(p) \/ Probe(p) \/ Read(p) \/ Inspect(p) \/ Publish(p)
              \/ Unalias(p) \/ Confirm(p) \/ Withdraw(p) \/ Sweep(p)
Next == \/ \E p \in Procs : Acquire(p) \/ Release(p) \/ Rename(p) \/ Die(p)
        \/ Look \/ LookAgain \/ Judge

Spec == Init /\ [][Next]_vars

(* A running supervisor executes its synchronous acquisition to the end.   *)
Fairness == \A p \in Procs : WF_vars(Acquire(p))
LiveSpec == Spec /\ Fairness

-----------------------------------------------------------------------------
(* Properties *)

(* Every variable has the shape the code gives it; no contender believes   *)
(* it published a generation the listing cannot show.                      *)
TypeOK ==
  /\ files \in [Gens -> LockRecord \cup {NoFile}]
  /\ pc \in [Procs -> {"list", "probe", "read", "inspect", "publish", "unalias", "confirm",
                       "withdraw", "sweep", "hold", "rename", "done", "refused", "dead"}]
  /\ tries \in [Procs -> 0..MaxTries]
  /\ top \in [Procs -> 0..MaxGen] /\ rec \in [Procs -> LockRecord]
  /\ gen \in [Procs -> Gens] /\ doomed \in [Procs -> SUBSET Gens]
  /\ waiter \in {"idle", "listed", "read", "held", "finished"} /\ seen \in Gens

(* Exclusive for the whole life of one supervisor: however stale the       *)
(* listings and records contenders act on, at most one holds the lock.     *)
OneSupervisor == \A p, q \in Procs : Holds(p) /\ Holds(q) => p = q

(* The newest generation is never removed, so the numbering never restarts *)
(* and a stale contender can always see that it lost.                      *)
NumbersNeverRestart == [][Top' >= Top]_vars

(* Once the start command has read that a generation is finished, no       *)
(* running supervisor holds that generation, then or ever after.           *)
FinishedIsFinal == waiter = "finished" => \A p \in Procs : Holds(p) => gen[p] # seen

(* What a contender or the start command has learned from the directory it *)
(* may rely on: the numbering and the end of a generation are for good     *)
(* (acquireSupervisorLock, supervisorGenerationFinished).                  *)
HistoryIsReliable == []FinishedIsFinal /\ NumbersNeverRestart

(* Whatever an earlier run left behind, somebody gets in, unless a         *)
(* contender dies on the way.                                              *)
SomebodyGetsIn == <>(\E p \in Procs : Holds(p) \/ ~Running(p))
=============================================================================

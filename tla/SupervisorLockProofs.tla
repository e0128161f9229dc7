------------------------ MODULE SupervisorLockProofs ------------------------
(* Theorems about SupervisorLock, for any number of contenders, any bound   *)
(* on numbers and attempts, and whatever an earlier run left behind.        *)
EXTENDS SupervisorLock, TLAPS, WellFoundedInduction

Smaller == {p \in Nat \X Nat : p[1] < p[2]}
Filed(f) == {g \in Gens : f[g] # NoFile}
TopOf(f) == CHOOSE n \in Filed(f) \cup {0} : \A g \in Filed(f) : g <= n

(* A directory with any generation in it has a newest one. *)
LEMMA TopIsNewest ==
  ASSUME NEW f
  PROVE  /\ TopOf(f) \in 0..MaxGen
         /\ TopOf(f) # 0 => TopOf(f) \in Filed(f)
         /\ \A g \in Filed(f) : g <= TopOf(f)
<1>. DEFINE S == Filed(f) \cup {0}
            D == {MaxGen - g : g \in S}
<1>1. S \subseteq 0..MaxGen /\ MaxGen \in Nat
  BY LockConstants DEF Filed, Gens
<1>2. D \subseteq Nat /\ MaxGen \in D
  BY <1>1
<1>3. IsWellFoundedOn(Smaller, Nat)
  BY NatLessThanWellFounded DEF OpToRel, Smaller
<1>4. PICK x \in D : \A y \in D : <<y, x>> \notin Smaller
  BY <1>2, <1>3, WFMin
<1>5. PICK n \in S : x = MaxGen - n
  BY <1>4
<1>6. ASSUME NEW g \in Filed(f) PROVE g <= n
  <2>1. MaxGen - g \in D /\ MaxGen - g \in Nat /\ x \in Nat /\ g \in Nat /\ n \in Nat
    BY <1>1, <1>2, <1>4
  <2>2. ~(MaxGen - g < x)
    BY <1>4, <2>1 DEF Smaller
  <2>. QED
    BY <1>1, <1>5, <2>1, <2>2
<1>7. TopOf(f) \in S /\ \A g \in Filed(f) : g <= TopOf(f)
  BY <1>6 DEF TopOf
<1>. QED
  BY <1>1, <1>7

(* The newest generation is the present one that no other exceeds. *)
LEMMA TopIsUnique ==
  ASSUME NEW f, NEW n \in Filed(f), \A g \in Filed(f) : g <= n
  PROVE  TopOf(f) = n
<1>1. n \in Gens /\ n # 0
  BY LockConstants DEF Filed, Gens
<1>2. n <= TopOf(f) /\ TopOf(f) \in Nat
  BY TopIsNewest, LockConstants
<1>3. TopOf(f) \in Filed(f)
  BY <1>1, <1>2, TopIsNewest DEF Gens
<1>. QED
  BY <1>1, <1>2, <1>3 DEF Gens

(* Removing a superseded generation leaves the newest one in place. *)
LEMMA TopSurvives ==
  ASSUME NEW f, NEW h, TopOf(f) # 0, TopOf(f) \in Filed(h), Filed(h) \subseteq Filed(f)
  PROVE  TopOf(h) = TopOf(f)
  BY TopIsNewest, TopIsUnique

-----------------------------------------------------------------------------
Published == {"unalias", "confirm", "sweep", "hold", "rename"}

(* What a contender knows of the newest generation, wherever it is: nothing *)
(* it listed is newer, what it read or judged of the newest is still so,    *)
(* and the newest is its own if it published it.                            *)
Knows(p) ==
  /\ pc[p] \in {"probe", "read", "inspect", "publish"} => top[p] <= Top
  /\ pc[p] \in {"probe", "read", "inspect"} => top[p] # 0
  /\ pc[p] = "inspect" /\ top[p] = Top =>
       rec[p].owner = files[Top].owner /\ (rec[p].released => files[Top].released)
  /\ pc[p] = "publish" /\ top[p] = Top /\ Top # 0 => Finished(files[Top])
  /\ pc[p] \in Published =>
       gen[p] <= Top /\ (gen[p] = Top => files[Top].owner = p /\ ~files[Top].released)
  /\ pc[p] = "withdraw" => gen[p] < Top
  /\ Holds(p) => gen[p] = Top
  /\ pc[p] = "sweep" => \A g \in doomed[p] : g < gen[p]
Chain == \A p \in Procs : Knows(p)

(* What the start command knows of the generation it asks about. *)
Waiting ==
  /\ waiter \in {"listed", "read"} => seen <= Top
  /\ waiter = "finished" => seen <= Top /\ (seen = Top => Finished(files[Top]))

Inv == TypeOK /\ Chain /\ Waiting

(* The directory's newest generation and its record. *)
LEMMA TopTyped ==
  /\ Top = TopOf(files) /\ Top' = TopOf(files')
  /\ Top \in 0..MaxGen
  /\ Top # 0 => Top \in Gens /\ files[Top] # NoFile
  /\ \A g \in Gens : files[g] # NoFile => g <= Top
<1>1. Top = TopOf(files) /\ Top' = TopOf(files')
  BY DEF Top, TopOf, Present, Filed
<1>. QED
  BY <1>1, TopIsNewest DEF Filed

(* The invariant holds of whatever an earlier run left. *)
LEMMA InitInv == Init => Inv
<1>. SUFFICES ASSUME Init PROVE Inv
  OBVIOUS
<1>1. FirstGen \in Gens /\ MaxGen \in Nat
  BY LockConstants DEF FirstGen, Gens
<1>2. TypeOK
  BY <1>1, LockConstants DEF Init, TypeOK, LockRecord, Tombstone
<1>3. Chain /\ Waiting
  BY DEF Init, Chain, Knows, Waiting, Holds, Published
<1>. QED
  BY <1>2, <1>3 DEF Inv

(* The records contenders write. *)
LEMMA Written ==
  /\ \A p \in Procs : Record(p) \in LockRecord /\ Tombstone(p) \in LockRecord
  /\ \A r \in LockRecord : [r EXCEPT !.alias = FALSE] \in LockRecord
  BY DEF Record, Tombstone, LockRecord

(* Every step of the lock is well typed. *)
LEMMA TypeStep == TypeOK /\ Chain /\ [Next]_vars => TypeOK'
<1>. SUFFICES ASSUME TypeOK, Chain, [Next]_vars PROVE TypeOK'
  OBVIOUS
<1>. USE DEF TypeOK
<1>0. MaxGen \in Nat /\ MaxTries \in Nat /\ Top \in 0..MaxGen /\ Gens = 1..MaxGen
  BY LockConstants, TopTyped DEF Gens
<1>1. CASE UNCHANGED vars
  BY <1>1 DEF vars
<1>2. ASSUME NEW p \in Procs, List(p) PROVE TypeOK'
  BY <1>0, <1>2 DEF List, Goto, waiting
<1>3. ASSUME NEW p \in Procs, GiveUp(p) PROVE TypeOK'
  BY <1>3 DEF GiveUp, Goto, waiting
<1>4. ASSUME NEW p \in Procs, Probe(p) PROVE TypeOK'
  <2>1. top[p] \in Gens
    BY <1>0, <1>4 DEF Probe, Chain, Knows
  <2>2. CASE files[top[p]] = NoFile
    BY <1>4, <2>2 DEF Probe, Goto, waiting
  <2>3. CASE files[top[p]] # NoFile
    <3>1. [files[top[p]] EXCEPT !.alias = FALSE] \in LockRecord
      BY <2>1, <2>3, Written
    <3>2. files' = [files EXCEPT ![top[p]] = [files[top[p]] EXCEPT !.alias = FALSE]]
      BY <1>4, <2>1, <2>3 DEF Probe
    <3>3. files' \in [Gens -> LockRecord \cup {NoFile}]
      BY <3>1, <3>2
    <3>. QED
      BY <1>4, <2>3, <3>3 DEF Probe, Goto, waiting
  <2>. QED
    BY <2>2, <2>3
<1>13. ASSUME NEW p \in Procs, Read(p) PROVE TypeOK'
  <2>1. top[p] \in Gens
    BY <1>0, <1>13 DEF Read, Chain, Knows
  <2>. QED
    BY <1>13, <2>1 DEF Read, Goto, waiting
<1>5. ASSUME NEW p \in Procs, Inspect(p) PROVE TypeOK'
  BY <1>5 DEF Inspect, Goto, waiting
<1>6. ASSUME NEW p \in Procs, Publish(p) PROVE TypeOK'
  <2>1. CASE top[p] + 1 \notin Gens \/ files[top[p] + 1] # NoFile
    BY <1>6, <2>1 DEF Publish, Goto, waiting
  <2>2. CASE top[p] + 1 \in Gens /\ files[top[p] + 1] = NoFile
    BY <1>6, <2>2, Written DEF Publish, Goto, waiting
  <2>. QED
    BY <2>1, <2>2
<1>7. ASSUME NEW p \in Procs, Unalias(p) PROVE TypeOK'
  <2>1. CASE Own(p)
    <3>1. files[gen[p]] \in LockRecord
      BY <2>1 DEF Own
    <3>2. [files EXCEPT ![gen[p]].alias = FALSE] \in [Gens -> LockRecord \cup {NoFile}]
      BY <3>1, Written
    <3>. QED
      BY <1>7, <2>1, <3>2 DEF Unalias, Goto, waiting
  <2>. QED
    BY <1>7, <2>1 DEF Unalias, Goto, waiting
<1>8. ASSUME NEW p \in Procs, Confirm(p) PROVE TypeOK'
  <2>1. {g \in Present : g < gen[p]} \in SUBSET Gens
    BY DEF Present
  <2>2. doomed' \in [Procs -> SUBSET Gens]
    BY <1>8, <2>1 DEF Confirm
  <2>. QED
    BY <1>8, <2>2 DEF Confirm, Goto, waiting
<1>9. ASSUME NEW p \in Procs, Withdraw(p) PROVE TypeOK'
  BY <1>9 DEF Withdraw, Goto, waiting
<1>10. ASSUME NEW p \in Procs, Sweep(p) PROVE TypeOK'
  <2>1. doomed' \in [Procs -> SUBSET Gens] /\ files' \in [Gens -> LockRecord \cup {NoFile}]
    BY <1>10 DEF Sweep
  <2>. QED
    BY <1>10, <2>1 DEF Sweep, Goto, waiting
<1>11. ASSUME NEW p \in Procs, Release(p) \/ Rename(p) \/ Die(p) PROVE TypeOK'
  BY <1>11, Written DEF Release, Rename, Die, Goto, waiting
<1>12. CASE Look \/ LookAgain \/ Judge
  BY <1>0, <1>12 DEF Look, LookAgain, Judge
<1>. QED
  BY <1>1, <1>2, <1>3, <1>4, <1>5, <1>6, <1>7, <1>8, <1>9, <1>10, <1>11, <1>12, <1>13 DEF Next, Acquire

-----------------------------------------------------------------------------
(* The newest generation after a step that keeps the set of files. *)
LEMMA SameTop ==
  ASSUME Filed(files') = Filed(files)
  PROVE  Top' = Top
  BY TopTyped DEF TopOf

(* A step that changes nothing others know of the newest generation: a dead *)
(* holder stays dead, and its record keeps its owner and its state.         *)
Steady ==
  /\ Top' = Top
  /\ Top # 0 => files'[Top].owner = files[Top].owner /\ files'[Top].released = files[Top].released
  /\ \A o : Dead(o) => Dead(o)'

Untouched(q) ==
  /\ pc'[q] = pc[q] /\ top'[q] = top[q] /\ rec'[q] = rec[q]
  /\ gen'[q] = gen[q] /\ doomed'[q] = doomed[q]

(* Contenders keep what they know through every steady step of another one. *)
LEMMA KeepsKnowing ==
  ASSUME Inv, Steady, NEW q \in Procs, Untouched(q)
  PROVE  Knows(q)'
<1>1. Knows(q) /\ Top \in 0..MaxGen /\ MaxGen \in Nat /\ gen[q] \in 1..MaxGen /\ top[q] \in 0..MaxGen
  BY LockConstants, TopTyped DEF Inv, Chain, TypeOK, Gens
<1>2. Holds(q)' <=> Holds(q)
  BY DEF Untouched, Holds
<1>3. Top # 0 /\ Finished(files[Top]) => Finished(files[Top])'
  BY DEF Steady, Finished
<1>. QED
  BY <1>1, <1>2, <1>3 DEF Knows, Untouched, Steady, Published

(* So does the start command. *)
LEMMA KeepsWaiting ==
  ASSUME Inv, Steady, UNCHANGED waiting
  PROVE  Waiting'
<1>1. Top \in 0..MaxGen /\ MaxGen \in Nat /\ seen \in 1..MaxGen
  BY LockConstants, TopTyped DEF Inv, TypeOK, Gens
<1>2. Top # 0 /\ Finished(files[Top]) => Finished(files[Top])'
  BY DEF Steady, Finished
<1>. QED
  BY <1>1, <1>2 DEF Waiting, waiting, Steady, Inv

(* Only Die kills, and the dead do not come back. *)
LEMMA DeadStay ==
  ASSUME Inv, NEW p \in Procs, NEW where, Goto(p, where), pc[p] # "dead"
  PROVE  \A o : Dead(o) => Dead(o)'
  BY DEF Goto, Dead, Inv, TypeOK

(* A contender's step on its own knowledge, every other one's kept. *)
LEMMA OneMoves ==
  ASSUME Inv, Steady, UNCHANGED waiting, NEW p \in Procs, Knows(p)',
         \A q \in Procs : q # p => Untouched(q)
  PROVE  Chain' /\ Waiting'
  BY KeepsKnowing, KeepsWaiting DEF Chain

(* The invariant is inductive. *)
LEMMA InvStep == Inv /\ [Next]_vars => Inv'
<1>. SUFFICES ASSUME Inv, [Next]_vars PROVE Chain' /\ Waiting'
  BY TypeStep DEF Inv
<1>0. TypeOK /\ MaxGen \in Nat /\ Top \in 0..MaxGen /\ Gens = 1..MaxGen
  BY LockConstants, TopTyped DEF Gens, Inv
<1>k. \A p \in Procs : Knows(p)
  BY DEF Inv, Chain
<1>1. CASE UNCHANGED vars
  <2>1. Steady /\ (\A q \in Procs : Untouched(q)) /\ UNCHANGED waiting
    BY <1>1, SameTop DEF vars, Steady, Untouched, waiting, Dead
  <2>. QED
    BY <2>1, KeepsKnowing, KeepsWaiting DEF Chain
<1>2. ASSUME NEW p \in Procs, List(p) PROVE Chain' /\ Waiting'
  <2>1. Steady
    BY <1>2, SameTop, DeadStay DEF List, Steady
  <2>2. Knows(p)'
    BY <1>0, <1>2, <2>1 DEF List, Goto, Knows, Holds, Published, Steady, TypeOK
  <2>. QED
    BY <1>0, <1>2, <2>1, <2>2, OneMoves DEF List, Goto, Untouched, TypeOK, waiting
<1>3. ASSUME NEW p \in Procs, GiveUp(p) PROVE Chain' /\ Waiting'
  <2>1. Steady
    BY <1>3, SameTop, DeadStay DEF GiveUp, Steady
  <2>2. Knows(p)'
    BY <1>0, <1>3, <2>1 DEF GiveUp, Goto, Knows, Holds, Published, TypeOK
  <2>. QED
    BY <1>0, <1>3, <2>1, <2>2, OneMoves DEF GiveUp, Goto, Untouched, TypeOK, waiting
<1>4. ASSUME NEW p \in Procs, Probe(p) PROVE Chain' /\ Waiting'
  <2>1. top[p] \in Gens /\ top[p] <= Top
    BY <1>0, <1>4, <1>k DEF Probe, Knows, TypeOK
  <2>2. CASE files[top[p]] = NoFile
    <3>1. Steady
      BY <1>4, <2>2, SameTop, DeadStay DEF Probe, Steady
    <3>2. Knows(p)'
      BY <1>0, <1>4, <2>2 DEF Probe, Goto, Knows, Holds, Published, TypeOK
    <3>. QED
      BY <1>0, <1>4, <3>1, <3>2, OneMoves DEF Probe, Goto, Untouched, TypeOK, waiting
  <2>3. CASE files[top[p]] # NoFile
    <3>0. files[top[p]] \in LockRecord /\ [files[top[p]] EXCEPT !.alias = FALSE] \in LockRecord
      BY <1>0, <2>1, <2>3, Written DEF TypeOK
    <3>1. /\ files' = [files EXCEPT ![top[p]] = [files[top[p]] EXCEPT !.alias = FALSE]]
          /\ Goto(p, "read") /\ UNCHANGED <<tries, top, rec, gen, doomed, waiting>>
      BY <1>4, <2>3 DEF Probe
    <3>2. /\ files'[top[p]].owner = files[top[p]].owner
          /\ files'[top[p]].released = files[top[p]].released
          /\ files'[top[p]] # NoFile
          /\ \A g \in Gens : g # top[p] => files'[g] = files[g]
      BY <1>0, <2>1, <3>0, <3>1, LockConstants DEF TypeOK, LockRecord
    <3>3. Filed(files') = Filed(files)
      BY <2>1, <2>3, <3>2 DEF Filed
    <3>4. Steady
      BY <1>0, <1>4, <3>1, <3>2, <3>3, SameTop, DeadStay DEF Steady, Probe
    <3>5. Knows(p)'
      BY <1>0, <2>1, <3>1, <3>4 DEF Goto, Knows, Holds, Published, TypeOK, Steady
    <3>. QED
      BY <1>0, <3>1, <3>4, <3>5, OneMoves DEF Goto, Untouched, TypeOK, waiting
  <2>. QED
    BY <2>2, <2>3
<1>15. ASSUME NEW p \in Procs, Read(p) PROVE Chain' /\ Waiting'
  <2>1. top[p] \in Gens /\ top[p] <= Top
    BY <1>0, <1>15, <1>k DEF Read, Knows, TypeOK
  <2>2. Steady
    BY <1>15, SameTop, DeadStay DEF Read, Steady
  <2>3. ASSUME Goto(p, "list") \/ Goto(p, "refused") PROVE Knows(p)'
    BY <1>0, <2>3 DEF Goto, Knows, Holds, Published, TypeOK
  <2>4. ASSUME rec' = [rec EXCEPT ![p] = files[top[p]]], Goto(p, "inspect") PROVE Knows(p)'
    BY <1>0, <1>15, <2>1, <2>2, <2>4 DEF Read, Goto, Knows, Holds, Published, TypeOK, Steady
  <2>5. Knows(p)'
    BY <1>15, <2>3, <2>4 DEF Read
  <2>6. \A q \in Procs : q # p => Untouched(q)
    BY <1>0, <1>15 DEF Read, Goto, Untouched, TypeOK
  <2>. QED
    BY <1>15, <2>2, <2>5, <2>6, OneMoves DEF Read
<1>5. ASSUME NEW p \in Procs, Inspect(p) PROVE Chain' /\ Waiting'
  <2>1. Steady
    BY <1>5, SameTop, DeadStay DEF Inspect, Steady
  <2>2. ASSUME Goto(p, "refused") PROVE Knows(p)'
    BY <1>0, <2>2 DEF Goto, Knows, Holds, Published, TypeOK
  <2>3. ASSUME Finished(rec[p]), Goto(p, "publish") PROVE Knows(p)'
    <3>1. top[p] = Top => Finished(files[Top])
      BY <1>5, <1>k, <2>3 DEF Inspect, Knows, Finished
    <3>2. top[p] = Top /\ Top # 0 => Finished(files[Top])'
      BY <2>1, <3>1 DEF Steady, Finished
    <3>3. top' = top /\ pc'[p] = "publish" /\ Top' = Top /\ top[p] <= Top
      BY <1>0, <1>5, <1>k, <2>1, <2>3 DEF Inspect, Goto, Knows, Steady, TypeOK
    <3>. QED
      BY <3>2, <3>3 DEF Knows, Holds, Published
  <2>. QED
    BY <1>0, <1>5, <2>1, <2>2, <2>3, OneMoves DEF Inspect, Goto, Untouched, TypeOK, waiting
<1>6. ASSUME NEW p \in Procs, Publish(p) PROVE Chain' /\ Waiting'
  <2>0. top[p] <= Top /\ top[p] \in 0..MaxGen
    BY <1>0, <1>6, <1>k DEF Publish, Knows, TypeOK
  <2>1. CASE top[p] + 1 \notin Gens \/ files[top[p] + 1] # NoFile
    <3>1. Steady
      BY <1>6, <2>1, SameTop, DeadStay DEF Publish, Steady
    <3>2. Knows(p)'
      BY <1>0, <1>6, <2>1 DEF Publish, Goto, Knows, Holds, Published, TypeOK
    <3>. QED
      BY <1>0, <1>6, <2>1, <3>1, <3>2, OneMoves DEF Publish, Goto, Untouched, TypeOK, waiting
  <2>2. CASE top[p] + 1 \in Gens /\ files[top[p] + 1] = NoFile
    <3>. DEFINE g == top[p] + 1
    <3>1. /\ files' = [files EXCEPT ![g] = Record(p)] /\ gen' = [gen EXCEPT ![p] = g]
          /\ Goto(p, "unalias") /\ UNCHANGED <<tries, top, rec, doomed, waiting>>
      BY <1>6, <2>2 DEF Publish
    <3>2. files'[g] = Record(p) /\ Record(p) # NoFile /\ \A h \in Gens : h # g => files'[h] = files[h]
      BY <1>0, <2>2, <3>1, LockConstants, Written DEF TypeOK
    <3>3. Filed(files') = Filed(files) \cup {g}
      BY <2>2, <3>2 DEF Filed
    <3>4. pc'[p] = "unalias" /\ gen'[p] = g /\ \A o : Dead(o) => Dead(o)'
      BY <1>0, <1>6, <3>1, DeadStay DEF Publish, Goto, TypeOK
    <3>5. CASE top[p] = Top
      <4>1. \A h \in Filed(files') : h <= g
        BY <1>0, <3>3, <3>5, TopTyped DEF Filed
      <4>2. Top' = g
        BY <3>3, <4>1, TopIsUnique, TopTyped
      <4>3. Top # 0 => Finished(files[Top])
        BY <1>6, <1>k, <3>5 DEF Publish, Knows
      <4>4. ASSUME NEW q \in Procs, q # p PROVE Knows(q)'
        <5>1. Untouched(q) /\ ~Holds(q) /\ Knows(q)
          <6>1. Untouched(q) /\ Knows(q) /\ gen[q] \in Gens
            BY <1>0, <1>k, <3>1, <4>4 DEF Goto, Untouched, TypeOK
          <6>2. Holds(q) => gen[q] = Top /\ Top # 0 /\ files[Top].owner = q /\ ~files[Top].released
            BY <1>0, <6>1 DEF Knows, Holds, Published
          <6>3. q # Ghost /\ (Holds(q) => pc[q] # "dead")
            BY LockConstants DEF Holds
          <6>. QED
            BY <4>3, <6>1, <6>2, <6>3 DEF Finished, Dead
        <5>2. gen[q] \in Nat /\ top[q] \in Nat /\ Top \in Nat /\ g = Top + 1
          BY <1>0, <3>5 DEF TypeOK
        <5>. QED
          BY <4>2, <5>1, <5>2 DEF Knows, Untouched, Holds, Published
      <4>5. Knows(p)'
        BY <1>0, <2>2, <3>2, <3>4, <4>2 DEF Knows, Holds, Published, Record
      <4>6. Waiting'
        BY <1>0, <3>1, <3>5, <4>2 DEF Inv, Waiting, waiting, TypeOK
      <4>. QED
        BY <4>4, <4>5, <4>6 DEF Chain
    <3>6. CASE top[p] # Top
      <4>1. g < Top
        <5>1. g <= Top /\ Top # 0
          BY <1>0, <2>0, <3>6
        <5>. QED
          BY <1>0, <2>2, <5>1, TopTyped
      <4>2. Top' = Top
        <5>1. Top # 0 /\ Top \in Filed(files')
          BY <1>0, <2>2, <3>3, <4>1, TopTyped DEF Filed
        <5>2. \A h \in Filed(files') : h <= Top
          BY <1>0, <2>2, <3>3, <4>1, TopTyped DEF Filed
        <5>. QED
          BY <5>1, <5>2, TopIsUnique, TopTyped
      <4>3. Steady
        BY <1>0, <3>2, <3>4, <4>1, <4>2 DEF Steady
      <4>4. Knows(p)'
        BY <1>0, <2>2, <3>4, <4>1, <4>2 DEF Knows, Holds, Published
      <4>. QED
        BY <1>0, <3>1, <4>3, <4>4, OneMoves DEF Goto, Untouched, TypeOK, waiting
    <3>. QED
      BY <3>5, <3>6
  <2>. QED
    BY <2>1, <2>2
<1>7. ASSUME NEW p \in Procs, Unalias(p) PROVE Chain' /\ Waiting'
  <2>1. Steady /\ files' \in [Gens -> LockRecord \cup {NoFile}]
    <3>1. CASE ~Own(p)
      BY <1>0, <1>7, <3>1, SameTop, DeadStay DEF Unalias, Steady, TypeOK
    <3>2. CASE Own(p)
      <4>. DEFINE g == gen[p]
      <4>1. files[g] \in LockRecord /\ [files[g] EXCEPT !.alias = FALSE] \in LockRecord /\ g \in Gens
        BY <1>0, <3>2, Written DEF Own, TypeOK
      <4>2. files' = [files EXCEPT ![g] = [files[g] EXCEPT !.alias = FALSE]]
        BY <1>7, <3>2 DEF Unalias
      <4>3. /\ files'[g].owner = files[g].owner /\ files'[g].released = files[g].released
            /\ files'[g] # NoFile /\ \A h \in Gens : h # g => files'[h] = files[h]
        BY <1>0, <4>1, <4>2, LockConstants DEF TypeOK, LockRecord
      <4>4. Filed(files') = Filed(files)
        BY <3>2, <4>1, <4>3 DEF Filed, Own
      <4>5. Top' = Top /\ \A o : Dead(o) => Dead(o)'
        BY <1>7, <4>4, SameTop, DeadStay DEF Unalias
      <4>6. Top # 0 => files'[Top].owner = files[Top].owner /\ files'[Top].released = files[Top].released
        BY <4>3, TopTyped
      <4>7. Steady
        BY <4>5, <4>6 DEF Steady
      <4>8. files' \in [Gens -> LockRecord \cup {NoFile}]
        BY <1>0, <4>1, <4>2 DEF TypeOK
      <4>. QED
        BY <4>7, <4>8
    <3>. QED
      BY <3>1, <3>2
  <2>2. Knows(p)'
    BY <1>0, <1>7, <1>k, <2>1 DEF Unalias, Goto, Knows, Holds, Published, TypeOK, Steady
  <2>. QED
    BY <1>0, <1>7, <2>1, <2>2, OneMoves DEF Unalias, Goto, Untouched, TypeOK, waiting
<1>8. ASSUME NEW p \in Procs, Confirm(p) PROVE Chain' /\ Waiting'
  <2>1. Steady
    BY <1>8, SameTop, DeadStay DEF Confirm, Steady
  <2>2. ASSUME Top # gen[p] PROVE Knows(p)'
    BY <1>0, <1>8, <1>k, <2>1, <2>2 DEF Confirm, Goto, Knows, Holds, Published, TypeOK, Steady
  <2>3. ASSUME Top = gen[p] PROVE Knows(p)'
    <3>1. pc'[p] = "sweep" /\ \A g \in doomed'[p] : g < gen'[p]
      BY <1>0, <1>8, <2>3 DEF Confirm, Goto, TypeOK
    <3>. QED
      BY <1>0, <1>8, <1>k, <2>1, <2>3, <3>1 DEF Confirm, Knows, Holds, Published, TypeOK, Steady
  <2>. QED
    BY <1>0, <1>8, <2>1, <2>2, <2>3, OneMoves DEF Confirm, Goto, Untouched, TypeOK, waiting
<1>9. ASSUME NEW p \in Procs, Withdraw(p) PROVE Chain' /\ Waiting'
  <2>1. gen[p] \in Gens /\ gen[p] < Top /\ Top # 0
    BY <1>0, <1>9, <1>k DEF Withdraw, Knows, TypeOK
  <2>2. /\ Filed(files') \subseteq Filed(files) /\ Top \in Filed(files') /\ files'[Top] = files[Top]
    BY <1>0, <1>9, <2>1, TopTyped DEF Withdraw, Filed, TypeOK
  <2>3. Steady
    BY <1>9, <2>1, <2>2, TopSurvives, TopTyped, DeadStay DEF Withdraw, Steady
  <2>4. Knows(p)'
    BY <1>0, <1>9 DEF Withdraw, Goto, Knows, Holds, Published, TypeOK
  <2>. QED
    BY <1>0, <1>9, <2>3, <2>4, OneMoves DEF Withdraw, Goto, Untouched, TypeOK, waiting
<1>10. ASSUME NEW p \in Procs, Sweep(p) PROVE Chain' /\ Waiting'
  <2>1. CASE doomed[p] = {}
    <3>1. Steady
      BY <1>10, <2>1, SameTop, DeadStay DEF Sweep, Steady
    <3>2. Knows(p)'
      BY <1>0, <1>10, <1>k, <2>1, <3>1 DEF Sweep, Goto, Knows, Holds, Published, TypeOK, Steady
    <3>. QED
      BY <1>0, <1>10, <2>1, <3>1, <3>2, OneMoves DEF Sweep, Goto, Untouched, TypeOK, waiting
  <2>2. CASE doomed[p] # {}
    <3>1. PICK g \in doomed[p] : /\ files' = [files EXCEPT ![g] = NoFile]
                                 /\ doomed' = [doomed EXCEPT ![p] = @ \ {g}]
      BY <1>10, <2>2 DEF Sweep
    <3>2. UNCHANGED <<pc, tries, top, rec, gen, waiting>> /\ pc[p] = "sweep"
      BY <1>10, <2>2 DEF Sweep
    <3>3. g \in Gens /\ g < Top /\ Top # 0
      BY <1>0, <1>k, <3>1, <3>2 DEF Knows, Holds, TypeOK
    <3>4. Filed(files') \subseteq Filed(files) /\ Top \in Filed(files') /\ files'[Top] = files[Top]
      BY <1>0, <3>1, <3>3, TopTyped DEF Filed, TypeOK
    <3>5. Steady
      BY <3>2, <3>3, <3>4, TopSurvives, TopTyped DEF Steady, Dead
    <3>6. Knows(p)'
      BY <1>0, <1>k, <3>1, <3>2, <3>5 DEF Knows, Holds, Published, TypeOK, Steady
    <3>. QED
      BY <1>0, <3>1, <3>2, <3>5, <3>6, OneMoves DEF Untouched, TypeOK, waiting
  <2>. QED
    BY <2>1, <2>2
<1>11. ASSUME NEW p \in Procs, Release(p) PROVE Chain' /\ Waiting'
  <2>1. Steady
    BY <1>11, SameTop, DeadStay DEF Release, Steady
  <2>2. Knows(p)'
    BY <1>0, <1>11, <1>k, <2>1 DEF Release, Goto, Knows, Holds, Published, TypeOK, Steady
  <2>. QED
    BY <1>0, <1>11, <2>1, <2>2, OneMoves DEF Release, Goto, Untouched, TypeOK, waiting
<1>13. ASSUME NEW p \in Procs, Die(p) PROVE Chain' /\ Waiting'
  <2>1. Steady
    BY <1>13, SameTop, DeadStay DEF Die, Running, Steady
  <2>2. Knows(p)'
    BY <1>0, <1>13 DEF Die, Goto, Knows, Holds, Published, TypeOK
  <2>. QED
    BY <1>0, <1>13, <2>1, <2>2, OneMoves DEF Die, Goto, Untouched, TypeOK, waiting
<1>12. ASSUME NEW p \in Procs, Rename(p) PROVE Chain' /\ Waiting'
  <2>1. /\ gen[p] = Top /\ Top \in Gens /\ p # Ghost
        /\ files[Top].owner = p /\ ~files[Top].released /\ files[Top] # NoFile
    BY <1>0, <1>12, <1>k, TopTyped, LockConstants DEF Rename, Knows, Holds, Published, TypeOK
  <2>2. /\ files'[Top] = Tombstone(p) /\ Tombstone(p) # NoFile
        /\ \A g \in Gens : g # Top => files'[g] = files[g]
    BY <1>0, <1>12, <2>1, Written, LockConstants DEF Rename, TypeOK
  <2>3. Filed(files') = Filed(files)
    BY <2>1, <2>2 DEF Filed
  <2>4. Top' = Top /\ files'[Top].owner = p /\ files'[Top].released
    BY <2>2, <2>3, SameTop DEF Tombstone
  <2>5. Finished(files[Top])'
    BY <2>4 DEF Finished
  <2>6. ASSUME NEW q \in Procs, q # p PROVE Knows(q)'
    <3>1. Untouched(q) /\ Knows(q)
      BY <1>0, <1>12, <1>k, <2>6 DEF Rename, Goto, Untouched, TypeOK
    <3>2. pc[q] \in Published => gen[q] # Top
      BY <2>1, <2>6, <3>1 DEF Knows
    <3>3. Holds(q)' <=> Holds(q)
      BY <3>1 DEF Untouched, Holds
    <3>. QED
      BY <2>1, <2>4, <2>5, <3>1, <3>2, <3>3 DEF Knows, Untouched, Published
  <2>7. Knows(p)'
    BY <1>0, <1>12 DEF Rename, Goto, Knows, Holds, Published, TypeOK
  <2>8. Waiting'
    BY <1>12, <2>4, <2>5 DEF Rename, Inv, Waiting, waiting
  <2>. QED
    BY <2>6, <2>7, <2>8 DEF Chain
<1>14. CASE Look \/ LookAgain \/ Judge
  <2>1. Steady /\ UNCHANGED <<files, pc, tries, top, rec, gen, doomed>>
    BY <1>14, SameTop DEF Look, LookAgain, Judge, Steady, Dead
  <2>2. Chain'
    BY <2>1, KeepsKnowing DEF Untouched, Chain
  <2>3. Look => Waiting'
    BY <1>0, <2>1 DEF Look, Waiting, Steady
  <2>4. LookAgain => Waiting'
    BY <1>0, <2>1 DEF LookAgain, Inv, Waiting, Steady, TypeOK
  <2>5. ASSUME Judge PROVE Waiting'
    <3>1. seen <= Top /\ seen' = seen /\ Top' = Top /\ seen \in Gens /\ files' = files /\ pc' = pc
      BY <2>1, <2>5 DEF Judge, Inv, Waiting, Steady, TypeOK
    <3>2. CASE waiter' = "held"
      BY <3>2 DEF Waiting
    <3>3. CASE waiter' = "finished"
      <4>1. files[seen] = NoFile \/ Finished(files[seen])
        BY <2>5, <3>3 DEF Judge
      <4>2. seen = Top => Finished(files[Top])
        BY <1>0, <3>1, <4>1, TopTyped
      <4>3. Finished(files[Top]) => Finished(files[Top])'
        BY <3>1 DEF Finished, Dead
      <4>. QED
        BY <3>1, <3>3, <4>2, <4>3 DEF Waiting
    <3>. QED
      BY <2>5, <3>2, <3>3 DEF Judge
  <2>. QED
    BY <1>14, <2>2, <2>3, <2>4, <2>5
<1>. QED
  BY <1>1, <1>2, <1>3, <1>4, <1>5, <1>6, <1>7, <1>8, <1>9, <1>10, <1>11, <1>12, <1>13, <1>14, <1>15
  DEF Next, Acquire

-----------------------------------------------------------------------------
(* Every state a run of the lock reaches satisfies the invariant. *)
THEOREM Always == Spec => []Inv
<1>1. Init => Inv
  BY InitInv
<1>2. Inv /\ [Next]_vars => Inv'
  BY InvStep
<1>. QED
  BY <1>1, <1>2, PTL DEF Spec

(* The lock's state keeps its shape, for any number of contenders. *)
THEOREM TypeCorrect == Spec => []TypeOK
<1>1. Inv => TypeOK
  BY DEF Inv
<1>. QED
  BY <1>1, Always, PTL

(* At most one supervisor holds the lock of a state directory: a holder's  *)
(* generation is the newest, and the newest has one owner.                 *)
THEOREM MutualExclusion == Spec => []OneSupervisor
<1>1. Inv => OneSupervisor
  <2>. SUFFICES ASSUME Inv, NEW p \in Procs, NEW q \in Procs, Holds(p), Holds(q) PROVE p = q
    BY DEF OneSupervisor
  <2>1. gen[p] = Top /\ gen[q] = Top /\ pc[p] \in Published /\ pc[q] \in Published
    BY DEF Inv, Chain, Knows, Holds, Published
  <2>. QED
    BY <2>1 DEF Inv, Chain, Knows
<1>. QED
  BY <1>1, Always, PTL

(* What the start command has read to be finished stays finished: no       *)
(* running supervisor holds that generation.                               *)
THEOREM FinishedForGood == Spec => []FinishedIsFinal
<1>1. Inv => FinishedIsFinal
  <2>. SUFFICES ASSUME Inv, waiter = "finished", NEW p \in Procs, Holds(p), gen[p] = seen PROVE FALSE
    BY DEF FinishedIsFinal
  <2>1. gen[p] = Top /\ pc[p] \in Published /\ Knows(p)
    BY DEF Inv, Chain, Knows, Holds, Published
  <2>2. files[Top].owner = p /\ ~files[Top].released /\ Finished(files[Top])
    BY <2>1 DEF Inv, Waiting, Knows
  <2>3. p # Ghost /\ pc[p] # "dead"
    BY LockConstants DEF Holds
  <2>. QED
    BY <2>2, <2>3 DEF Finished, Dead
<1>. QED
  BY <1>1, Always, PTL

(* A step that leaves the newest generation's file in place lowers nothing. *)
LEMMA NeverLower ==
  ASSUME Top # 0 => files'[Top] # NoFile
  PROVE  Top' >= Top
<1>1. Top \in 0..MaxGen /\ MaxGen \in Nat /\ TopOf(files') \in 0..MaxGen /\ Top' = TopOf(files')
  BY LockConstants, TopTyped, TopIsNewest
<1>2. CASE Top = 0
  BY <1>1, <1>2
<1>3. CASE Top # 0
  <2>1. Top \in Filed(files')
    BY <1>3, TopTyped DEF Filed
  <2>. QED
    BY <1>1, <2>1, TopIsNewest
<1>. QED
  BY <1>2, <1>3

(* No step of the lock removes the newest generation: superseded ones are   *)
(* swept, a loser withdraws its own, and a holder leaves a tombstone.       *)
LEMMA GrowStep == Inv /\ [Next]_vars => Top' >= Top
<1>. SUFFICES ASSUME Inv, [Next]_vars, Top # 0 PROVE files'[Top] # NoFile
  BY NeverLower
<1>0. TypeOK /\ Top \in Gens /\ files[Top] # NoFile /\ Gens = 1..MaxGen /\ MaxGen \in Nat
  BY LockConstants, TopTyped DEF Gens, Inv
<1>k. \A p \in Procs : Knows(p)
  BY DEF Inv, Chain
<1>1. CASE UNCHANGED files
  BY <1>0, <1>1
<1>2. ASSUME NEW g \in Gens, files[g] # NoFile,
             files' = [files EXCEPT ![g].alias = FALSE]
      PROVE  files'[Top] # NoFile
  <2>1. files' = [files EXCEPT ![g] = [files[g] EXCEPT !.alias = FALSE]]
    BY <1>2
  <2>2. [files[g] EXCEPT !.alias = FALSE] # NoFile
    BY <1>0, <1>2, Written, LockConstants DEF TypeOK
  <2>. QED
    BY <1>0, <2>1, <2>2 DEF TypeOK
<1>3. ASSUME NEW p \in Procs, Probe(p) PROVE files'[Top] # NoFile
  <2>1. top[p] \in Gens
    BY <1>0, <1>3, <1>k DEF Probe, Knows, TypeOK
  <2>. QED
    BY <1>1, <1>2, <1>3, <2>1 DEF Probe
<1>4. ASSUME NEW p \in Procs, Unalias(p) PROVE files'[Top] # NoFile
  BY <1>0, <1>1, <1>2, <1>4 DEF Unalias, Own, TypeOK
<1>5. ASSUME NEW p \in Procs, Publish(p) PROVE files'[Top] # NoFile
  <2>1. Record(p) # NoFile
    BY Written, LockConstants
  <2>. QED
    BY <1>0, <1>1, <1>5, <2>1 DEF Publish, TypeOK
<1>6. ASSUME NEW p \in Procs, Withdraw(p) PROVE files'[Top] # NoFile
  BY <1>0, <1>6, <1>k DEF Withdraw, Knows, TypeOK
<1>7. ASSUME NEW p \in Procs, Sweep(p) PROVE files'[Top] # NoFile
  <2>1. CASE doomed[p] = {}
    BY <1>1, <1>7, <2>1 DEF Sweep
  <2>2. CASE doomed[p] # {}
    <3>1. PICK g \in doomed[p] : files' = [files EXCEPT ![g] = NoFile]
      BY <1>7, <2>2 DEF Sweep
    <3>2. g < Top
      BY <1>7, <1>k, <3>1 DEF Sweep, Knows, Holds
    <3>. QED
      BY <1>0, <3>1, <3>2 DEF TypeOK
  <2>. QED
    BY <2>1, <2>2
<1>8. ASSUME NEW p \in Procs, Rename(p) PROVE files'[Top] # NoFile
  <2>1. Tombstone(p) # NoFile
    BY Written, LockConstants
  <2>. QED
    BY <1>0, <1>8, <2>1 DEF Rename, TypeOK
<1>9. ASSUME NEW p \in Procs,
             \/ List(p) \/ GiveUp(p) \/ Read(p) \/ Inspect(p) \/ Confirm(p) \/ Release(p) \/ Die(p)
      PROVE  UNCHANGED files
  BY <1>9 DEF List, GiveUp, Read, Inspect, Confirm, Release, Die
<1>10. Look \/ LookAgain \/ Judge \/ UNCHANGED vars => UNCHANGED files
  BY DEF Look, LookAgain, Judge, vars
<1>. QED
  BY <1>1, <1>3, <1>4, <1>5, <1>6, <1>7, <1>8, <1>9, <1>10 DEF Next, Acquire

(* The numbering of generations never restarts, so a contender acting on a  *)
(* stale listing always finds out that it lost.                             *)
THEOREM NumbersOnlyGrow == Spec => NumbersNeverRestart
<1>1. Inv /\ [Next]_vars => [Top' >= Top]_vars
  BY GrowStep
<1>. QED
  BY <1>1, Always, PTL DEF Spec, NumbersNeverRestart

(* Both together: no reader of the directory, however stale its listing, is *)
(* ever told something that a later step takes back.                        *)
THEOREM HistoryStaysReliable == Spec => HistoryIsReliable
  BY FinishedForGood, NumbersOnlyGrow, PTL DEF HistoryIsReliable
=============================================================================

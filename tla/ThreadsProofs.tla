---------------------------- MODULE ThreadsProofs ----------------------------
(* Theorems about Threads, for any participants, keys and bounds. *)
EXTENDS Threads, FiniteSetTheorems, WellFoundedInduction, TLAPS

(* The shapes of the rows. *)
ItemType ==
  [kind : {"message", "file"}, author : Cids, by : Nat, to : SUBSET Cids, source : Nat, reply : Nat,
   scope : Nat, parent : Nat, members : SUBSET (Cids \X Nat), key : Keys \cup {None}]
WireType == [item : Nat, seat : Nat, link : Nat, copy : BOOLEAN]
Statuses == {"queued", "send_failed", "skipped_removed", "skipped_reply_unavailable"}
ResultType == [item : Nat, to : Cids, status : Statuses, wires : Seq(Nat)]
Shapes ==
  /\ items \in Seq(ItemType) /\ Len(items) <= MaxItems
  /\ results \subseteq ResultType /\ wires \in [Cids -> Seq(WireType)]
  /\ active \subseteq Cids /\ number \in [Cids -> Nat \ {0}] /\ failed \subseteq Items

(* Its source is the wire the author of an item sent it under, and a wire that was saved *)
(* is one of its recipient's, of the item it is saved for.                               *)
SourceOK(i) ==
  LET t == items[i] IN t.source # None => t.source \in Knows(t.author) /\ wires[t.author][t.source].item = i
ResultOK(r) ==
  /\ r.item \in Items /\ r.to \in items[r.item].to /\ ToSet(r.wires) \subseteq Knows(r.to)
  /\ r.status = "queued" => \A w \in ToSet(r.wires) : wires[r.to][w].item = r.item
  /\ \A s \in results : s.item = r.item /\ s.to = r.to => s = r
Faithful == (\A i \in Items : SourceOK(i)) /\ (\A r \in results : ResultOK(r))

(* What a row says of its item: a root belongs to itself; a reply to the thread of what it   *)
(* replied to, which the wire its author named is of and no other item is.            *)
RowOK(i) ==
  LET t == items[i] IN
  /\ t.by \in 1..number[t.author] /\ \A m \in t.members : m[2] \in 1..number[m[1]]
  /\ IsRoot(i) =>
       /\ t.scope = i /\ t.parent = None /\ t.source = None /\ t.reply = None
       /\ t.kind = "message" /\ <<t.author, t.by>> \in t.members
  /\ ~IsRoot(i) /\ t.reply = None => t.scope = None /\ t.parent = None
  /\ t.reply # None =>
       /\ t.reply \in Knows(t.author) /\ Meant(i) \in 1..(i - 1)
       /\ OwnersFor(t.reply, t.author) = {Meant(i)} /\ t.scope = items[Meant(i)].scope
       /\ t.scope = None => t.parent = None
       /\ t.scope # None =>
            /\ t.kind = "message" /\ t.parent = Meant(i) /\ t.scope \in 1..(i - 1)
            /\ IsRoot(t.scope) /\ <<t.author, t.by>> \in items[t.scope].members

(* A wire is of a seat that the thread of its item was selected for, and a copy links to *)
(* its recipient's wire of what the author replied to.                                   *)
WireOK(c, w) ==
  LET s == wires[c][w]
      thread == items[s.item].scope
  IN  /\ s.item \in Items
      /\ thread # None => <<c, s.seat>> \in items[thread].members
      /\ s.copy =>
           /\ s.link # None => s.link \in Knows(c) /\ wires[c][s.link].item = Meant(s.item)
           /\ thread \notin {None, s.item} => s.link # None

Sound ==
  /\ Faithful
  /\ \A i \in Items : RowOK(i)
  /\ \A c \in Cids : \A w \in Knows(c) : WireOK(c, w)

-----------------------------------------------------------------------------
(* What a wire names *)

(* The least natural number of a set of them. *)
LEMMA First == ASSUME NEW S, S \subseteq Nat, S # {} PROVE \E i \in S : \A k \in S : i <= k
<1>. DEFINE R == OpToRel(<, Nat)
<1>1. PICK i \in S : \A k \in S : ~(<<k, i>> \in R)
  BY NatLessThanWellFounded, WFMin
<1>2. \A a, b \in Nat : b < a => <<b, a>> \in R
  BY DEF OpToRel
<1>. HIDE DEF R
<1>3. ASSUME NEW k \in S PROVE i <= k
  <2>1. k \in Nat /\ i \in Nat OBVIOUS
  <2>2. ~(k < i) BY <1>1, <1>2, <2>1
  <2>. QED BY <2>1, <2>2
<1>. QED BY <1>3

LEMMA Rows ==
  Shapes => /\ Len(items) \in Nat /\ Items = 1..Len(items) /\ None \notin Items
            /\ \A i \in Items : items[i] \in ItemType
            /\ \A c \in Cids : /\ Len(wires[c]) \in Nat /\ Knows(c) = 1..Len(wires[c])
                               /\ \A w \in Knows(c) : wires[c][w] \in WireType
            /\ \A r \in results : r \in ResultType
BY DEF Shapes, Items, Knows, None

NamedBy(i, w, c) ==
  /\ i \in Items
  /\ \/ items[i].author = c /\ items[i].source = w
     \/ \E r \in results : /\ r.item = i /\ r.to = c /\ r.status = "queued" /\ c \in items[i].to
                           /\ w \in ToSet(r.wires)
LEMMA Naming == \A i, w, c : /\ i \in OwnersFor(w, c) <=> NamedBy(i, w, c)
                             /\ i \in OwnersFor(w, c)' <=> NamedBy(i, w, c)'
BY DEF OwnersFor, Aliases, Queued, NamedBy

(* A wire names the item that it stands for or nothing. *)
WiresName ==
  \A c \in Cids : \A w \in Nat \ {0} : \A i \in OwnersFor(w, c) : w \in Knows(c) /\ wires[c][w].item = i
LEMMA Named == Shapes /\ Faithful => WiresName
<1>. SUFFICES ASSUME Shapes, Faithful, NEW c \in Cids, NEW w \in Nat \ {0}, NEW i \in OwnersFor(w, c)
     PROVE  w \in Knows(c) /\ wires[c][w].item = i
  BY DEF WiresName
<1>1. CASE items[i].author = c /\ items[i].source = w
  <2>1. i \in Items BY Naming DEF NamedBy
  <2>2. SourceOK(i) BY <2>1 DEF Faithful
  <2>. QED BY <1>1, <2>2 DEF SourceOK, None
<1>2. ASSUME NEW r \in results, r.item = i, r.to = c, r.status = "queued", w \in ToSet(r.wires)
      PROVE  w \in Knows(c) /\ wires[c][w].item = i
  BY <1>2 DEF Faithful, ResultOK
<1>. QED BY <1>1, <1>2, Naming DEF NamedBy

LEMMA Resolved ==
  Shapes /\ Faithful =>
    \A c \in Cids, w \in Nat, n \in Nat :
      /\ LET p == Resolve(w, c, n) IN
         /\ p # None => /\ p \in Items /\ p < n /\ w \in Knows(c) /\ wires[c][w].item = p
                        /\ OwnersFor(w, c) = {p}
         /\ w = None => p = None
      /\ \A i \in Items : w # None /\ OwnersFor(w, c) = {i} /\ i < n => Resolve(w, c, n) = i
<1>. SUFFICES ASSUME Shapes, Faithful, NEW c \in Cids, NEW w \in Nat, NEW n \in Nat
     PROVE /\ LET p == Resolve(w, c, n) IN
              /\ p # None => /\ p \in Items /\ p < n /\ w \in Knows(c) /\ wires[c][w].item = p
                             /\ OwnersFor(w, c) = {p}
              /\ w = None => p = None
           /\ \A i \in Items : w # None /\ OwnersFor(w, c) = {i} /\ i < n => Resolve(w, c, n) = i
  OBVIOUS
<1>. DEFINE owners == IF w = None THEN {} ELSE OwnersFor(w, c)
            p == Resolve(w, c, n)
<1>1. p = IF Cardinality(owners) = 1 /\ \A i \in owners : i < n
          THEN CHOOSE i \in owners : TRUE ELSE None
  BY DEF Resolve
<1>2. \A i, j \in owners : i = j
  BY Named DEF WiresName, None
<1>3. Cardinality({}) = 0 BY FS_EmptySet
<1>4. \A i : Cardinality({i}) = 1 BY FS_Singleton
<1>. HIDE DEF p
<1>5. ASSUME p # None
      PROVE  p \in Items /\ p < n /\ w \in Knows(c) /\ wires[c][w].item = p /\ OwnersFor(w, c) = {p}
  <2>1. owners # {} BY <1>1, <1>3, <1>5
  <2>2. w # None /\ owners = OwnersFor(w, c) BY <2>1
  <2>3. p \in owners BY <1>1, <1>5, <2>1
  <2>4. owners = {p} BY <1>2, <2>3
  <2>5. p < n BY <1>1, <1>5, <2>3
  <2>6. w \in Knows(c) /\ wires[c][w].item = p BY Named, <2>2, <2>3 DEF WiresName, None
  <2>7. p \in Items BY <2>2, <2>3, Naming DEF NamedBy
  <2>. QED BY <2>2, <2>4, <2>5, <2>6, <2>7
<1>6. ASSUME NEW i \in Items, w # None, OwnersFor(w, c) = {i}, i < n PROVE p = i
  <2>1. owners = {i} BY <1>6
  <2>. QED BY <1>1, <1>4, <1>6, <2>1
<1>7. w = None => p = None BY <1>1, <1>3
<1>. QED BY <1>5, <1>6, <1>7 DEF p

(* What an item's reference resolves to is what its author replied to. *)
LEMMA ReplyResolved ==
  Shapes /\ Sound =>
    \A i \in Items : Resolve(items[i].reply, items[i].author, i) = Meant(i) /\ Meant(i) \in 0..(i - 1)
<1>. SUFFICES ASSUME Shapes, Sound, NEW i \in Items
     PROVE  Resolve(items[i].reply, items[i].author, i) = Meant(i) /\ Meant(i) \in 0..(i - 1)
  OBVIOUS
<1>. DEFINE t == items[i]
<1>1. i \in Nat /\ i > 0 /\ t.author \in Cids /\ t.reply \in Nat BY Rows DEF ItemType
<1>2. RowOK(i) BY DEF Sound
<1>3. CASE t.reply = None
  <2>1. Meant(i) = None BY <1>3 DEF Meant
  <2>2. Resolve(t.reply, t.author, i) = None BY <1>1, <1>3, Resolved DEF Sound
  <2>. QED BY <1>1, <2>1, <2>2 DEF None
<1>4. CASE t.reply # None
  <2>1. OwnersFor(t.reply, t.author) = {Meant(i)} /\ Meant(i) \in 1..(i - 1) BY <1>2, <1>4 DEF RowOK
  <2>2. Meant(i) \in Items BY <2>1, Rows
  <2>. QED BY <1>1, <1>4, <2>1, <2>2, Resolved DEF Sound
<1>. QED BY <1>3, <1>4

-----------------------------------------------------------------------------
(* Every item is classified by its scope: the scopes solve the equation that defines *)
(* Association, and nothing else does, for its first deviation would be one from it. *)
Above(f, p) == IF p = None THEN Ordinary ELSE f[p]
Admits(f, i) ==
  LET p == Resolve(items[i].reply, items[i].author, i)
      r == items[i].scope
  IN  /\ Message(i) /\ Declared(i) /\ RootIsSound(r)
      /\ PublicThreadMetadata(r) /\ PublicThreadAuthor(i, r)
      /\ i # r => r < i /\ p # None /\ items[i].parent = p /\ Above(f, p) = r
Class(f, i) ==
  LET p == Resolve(items[i].reply, items[i].author, i)
  IN  IF Above(f, p) = Broken THEN Broken
      ELSE IF Above(f, p) = Ordinary /\ ~Declared(i) THEN Ordinary
      ELSE IF Admits(f, i) THEN items[i].scope ELSE Broken

LEMMA AssociationIs ==
  ASSUME NEW g, g = [i \in Items |-> Class(g, i)]
  PROVE  Association = [i \in Items |-> Class(Association, i)]
<1>1. \A f : [i \in Items |-> Class(f, i)] =
         [i \in Items |->
            LET p == Resolve(items[i].reply, items[i].author, i)
                above == IF p = None THEN Ordinary ELSE f[p]
                r == items[i].scope
            IN  CASE above = Broken -> Broken
                  [] above = Ordinary /\ ~Declared(i) -> Ordinary
                  [] OTHER ->
                       IF /\ Message(i) /\ Declared(i) /\ RootIsSound(r)
                          /\ PublicThreadMetadata(r) /\ PublicThreadAuthor(i, r)
                          /\ i # r => r < i /\ p # None /\ items[i].parent = p /\ above = r
                       THEN r ELSE Broken]
  BY DEF Class, Admits, Above, Broken, Ordinary
<1>2. Association = CHOOSE f : f = [i \in Items |-> Class(f, i)]
  BY <1>1 DEF Association
<1>. QED BY <1>2

(* With the parents classified by their scopes, so is the item. *)
LEMMA ClassIsScope ==
  ASSUME Shapes, Sound, NEW f, NEW i \in Items,
         \A j \in Items : j < i => f[j] = items[j].scope
  PROVE  Class(f, i) = items[i].scope
<1>. DEFINE t == items[i]
            p == Resolve(t.reply, t.author, i)
<1>1. i \in 1..Len(items) /\ Len(items) \in Nat /\ Len(items) <= MaxItems /\ t \in ItemType
  BY Rows DEF Shapes
<1>2. RowOK(i) BY DEF Sound
<1>3. p = Meant(i) /\ Meant(i) \in 0..(i - 1) BY ReplyResolved
<1>4. \A j \in Items : j \in Nat /\ items[j].scope \in 0..j
  <2>1. SUFFICES ASSUME NEW j \in Items PROVE j \in Nat /\ items[j].scope \in 0..j
    OBVIOUS
  <2>2. j \in 1..Len(items) /\ items[j] \in ItemType BY Rows
  <2>3. RowOK(j) BY DEF Sound
  <2>. QED BY <1>1, <2>2, <2>3 DEF RowOK, ItemType, None
<1>5. MaxItems \in Nat BY ThreadConstants
<1>6. CASE IsRoot(i)
  <2>1. /\ t.scope = i /\ t.parent = None /\ t.source = None /\ t.reply = None
        /\ t.kind = "message" /\ <<t.author, t.by>> \in t.members
    BY <1>2, <1>6 DEF RowOK
  <2>2. Meant(i) = None BY <2>1 DEF Meant
  <2>3. Above(f, p) = Ordinary BY <1>3, <2>2 DEF Above
  <2>4. Declared(i) BY <1>1, <2>1 DEF Declared, None
  <2>5. RootIsSound(i) BY <1>6, <2>1 DEF RootIsSound
  <2>6. PublicThreadMetadata(i) /\ PublicThreadAuthor(i, i)
    BY <2>1 DEF PublicThreadMetadata, PublicThreadAuthor, MemberCids
  <2>7. Message(i) BY <2>1 DEF Message
  <2>8. Admits(f, i) BY <2>1, <2>4, <2>5, <2>6, <2>7 DEF Admits
  <2>9. Ordinary # Broken BY <1>5 DEF Ordinary, Broken
  <2>. QED BY <2>3, <2>4, <2>8, <2>9 DEF Class
<1>7. CASE ~IsRoot(i) /\ t.reply = None
  <2>1. t.scope = None BY <1>2, <1>7 DEF RowOK
  <2>2. Above(f, p) = Ordinary BY <1>3, <1>7 DEF Above, Meant
  <2>3. Ordinary # Broken BY <1>5 DEF Ordinary, Broken
  <2>. QED BY <2>1, <2>2, <2>3 DEF Class, Declared, Ordinary, None
<1>8. CASE ~IsRoot(i) /\ t.reply # None
  <2>1. Meant(i) \in 1..(i - 1) /\ t.scope = items[Meant(i)].scope BY <1>2, <1>8 DEF RowOK
  <2>2. Meant(i) \in Items /\ Meant(i) < i /\ p # None BY <1>1, <1>3, <2>1, Rows DEF None
  <2>3. Above(f, p) = t.scope BY <1>3, <2>1, <2>2 DEF Above
  <2>4. t.scope # Broken BY <1>1, <1>4, <1>5 DEF Broken
  <2>5. CASE t.scope = None
    BY <2>3, <2>4, <2>5 DEF Class, Declared, Ordinary, None
  <2>6. CASE t.scope # None
    <3>1. /\ t.kind = "message" /\ t.parent = Meant(i) /\ t.scope \in 1..(i - 1)
          /\ IsRoot(t.scope) /\ <<t.author, t.by>> \in items[t.scope].members
      BY <1>2, <1>8, <2>6 DEF RowOK
    <3>2. t.scope \in Items /\ t.scope < i BY <1>1, <3>1, Rows
    <3>3. RowOK(t.scope) BY <3>2 DEF Sound
    <3>4. RootIsSound(t.scope) /\ PublicThreadMetadata(t.scope)
      BY <3>1, <3>3 DEF RowOK, RootIsSound, PublicThreadMetadata
    <3>5. PublicThreadAuthor(i, t.scope) BY <3>1 DEF PublicThreadAuthor, MemberCids
    <3>6. Admits(f, i)
      BY <1>3, <2>2, <2>3, <2>6, <3>1, <3>2, <3>4, <3>5 DEF Admits, Message, Declared
    <3>7. Declared(i) BY <2>6 DEF Declared
    <3>. QED BY <2>3, <2>4, <3>6, <3>7 DEF Class
  <2>. QED BY <2>5, <2>6
<1>. QED BY <1>6, <1>7, <1>8

LEMMA Classified == Shapes /\ Sound => \A i \in Items : Association[i] = items[i].scope
<1>. SUFFICES ASSUME Shapes, Sound PROVE \A i \in Items : Association[i] = items[i].scope
  OBVIOUS
<1>. DEFINE g == [i \in Items |-> items[i].scope]
<1>1. \A i \in Items : Class(g, i) = g[i]
  BY ClassIsScope
<1>2. g = [i \in Items |-> Class(g, i)] BY <1>1
<1>. HIDE DEF g
<1>3. Association = [i \in Items |-> Class(Association, i)] BY <1>2, AssociationIs
<1>. DEFINE bad == {i \in Items : Association[i] # items[i].scope}
<1>4. ASSUME bad # {} PROVE FALSE
  <2>1. bad \subseteq Nat BY Rows
  <2>2. PICK i \in bad : \A k \in bad : i <= k BY <1>4, <2>1, First
  <2>3. i \in Items /\ i \in Nat BY <2>1, <2>2
  <2>4. \A j \in Items : j < i => Association[j] = items[j].scope BY <2>1, <2>2, <2>3, Rows
  <2>5. Class(Association, i) = items[i].scope BY <2>3, <2>4, ClassIsScope
  <2>6. Association[i] = Class(Association, i) BY <1>3, <2>3
  <2>. QED BY <2>2, <2>5, <2>6
<1>. QED BY <1>4

(* The thread that the properties count an item to is its scope, too. *)
LEMMA Belonging == Shapes /\ Sound => \A i \in Items : Belongs[i] = items[i].scope
<1>. SUFFICES ASSUME Shapes, Sound PROVE \A i \in Items : Belongs[i] = items[i].scope
  OBVIOUS
<1>. DEFINE Up(f, i) == IF IsRoot(i) THEN i ELSE IF Meant(i) = None THEN None ELSE f[Meant(i)]
            g == [i \in Items |-> items[i].scope]
<1>1. ASSUME NEW f, NEW i \in Items, \A j \in Items : j < i => f[j] = items[j].scope
      PROVE  Up(f, i) = items[i].scope
  <2>1. RowOK(i) BY DEF Sound
  <2>2. Meant(i) # None => Meant(i) \in Items /\ Meant(i) < i BY ReplyResolved, Rows DEF None
  <2>3. Meant(i) # None => items[i].reply # None BY DEF Meant
  <2>4. Meant(i) = None => items[i].reply = None BY <2>1, Rows DEF RowOK, None
  <2>. QED BY <1>1, <2>1, <2>2, <2>3, <2>4 DEF RowOK
<1>2. \A i \in Items : Up(g, i) = g[i] BY <1>1
<1>3. g = [i \in Items |-> Up(g, i)] BY <1>2
<1>4. Belongs = CHOOSE f : f = [i \in Items |-> Up(f, i)] BY DEF Belongs
<1>. HIDE DEF g, Up
<1>5. Belongs = [i \in Items |-> Up(Belongs, i)] BY <1>3, <1>4
<1>. DEFINE bad == {i \in Items : Belongs[i] # items[i].scope}
<1>6. ASSUME bad # {} PROVE FALSE
  <2>1. bad \subseteq Nat BY Rows
  <2>2. PICK i \in bad : \A k \in bad : i <= k BY <1>6, <2>1, First
  <2>3. i \in Items /\ i \in Nat BY <2>1, <2>2
  <2>4. \A j \in Items : j < i => Belongs[j] = items[j].scope BY <2>1, <2>2, <2>3, Rows
  <2>5. Up(Belongs, i) = items[i].scope BY <1>1, <2>3, <2>4
  <2>6. Belongs[i] = Up(Belongs, i) BY <1>5, <2>3
  <2>. QED BY <2>2, <2>5, <2>6
<1>. QED BY <1>6

-----------------------------------------------------------------------------
(* Rows, wires and results are only added, and seats only counted up. *)
Grows ==
  /\ \A i \in Items : i \in Items' /\ items'[i] = items[i]
  /\ \A c \in Cids : /\ number[c] <= number'[c]
                     /\ \A w \in Knows(c) : w \in Knows(c)' /\ wires'[c][w] = wires[c][w]
  /\ results \subseteq results'

LEMMA AppendedRow ==
  ASSUME NEW S, NEW s \in Seq(S), NEW e \in S
  PROVE  /\ Append(s, e) \in Seq(S) /\ Len(s) \in Nat /\ Len(Append(s, e)) = Len(s) + 1
         /\ DOMAIN s = 1..Len(s) /\ DOMAIN Append(s, e) = 1..(Len(s) + 1)
         /\ \A i \in DOMAIN s : Append(s, e)[i] = s[i]
         /\ Append(s, e)[Len(s) + 1] = e
OBVIOUS

(* How a relay ends for one recipient. *)
Endings ==
  {e \in [copies : 0..2, status : {"none", "queued", "send_failed"}, saved : Seq(1..2)] :
     \A n \in DOMAIN e.saved : e.saved[n] <= e.copies}
LEMMA EveryEnding ==
  ASSUME NEW kind \in {"message", "file"}
  PROVE  /\ Sent(kind) \in Endings /\ Failures(kind) \subseteq Endings /\ NotReached \in Endings
         /\ \A e \in Endings : e.status = "queued" => e # NotReached
<1>1. /\ <<>> \in Seq(1..2) /\ <<1>> \in Seq(1..2) /\ <<2, 1>> \in Seq(1..2)
      /\ \A n \in DOMAIN <<>> : FALSE
      /\ \A n \in DOMAIN <<1>> : <<1>>[n] = 1
      /\ \A n \in DOMAIN <<2, 1>> : <<2, 1>>[n] \in 1..2
  <2>1. <<>> \in Seq(1..2) /\ \A n \in DOMAIN <<>> : FALSE OBVIOUS
  <2>2. <<1>> \in Seq(1..2) /\ \A n \in DOMAIN <<1>> : <<1>>[n] = 1 OBVIOUS
  <2>3. <<2, 1>> \in Seq(1..2) OBVIOUS
  <2>4. \A n \in DOMAIN <<2, 1>> : <<2, 1>>[n] \in 1..2 BY <2>3
  <2>. QED BY <2>1, <2>2, <2>3, <2>4
<1>2. \A k \in 0..2, s \in {"none", "queued", "send_failed"}, q \in {<<>>, <<1>>} :
        (q = <<1>> => k > 0) => Ends(k, s, q) \in Endings
  <2>. TAKE k \in 0..2, s \in {"none", "queued", "send_failed"}, q \in {<<>>, <<1>>}
  <2>1. HAVE q = <<1>> => k > 0
  <2>2. q \in Seq(1..2) /\ \A n \in DOMAIN q : q[n] <= k
    <3>1. CASE q = <<>> BY <1>1, <3>1
    <3>2. CASE q = <<1>> BY <1>1, <2>1, <3>2
    <3>. QED BY <3>1, <3>2
  <2>. QED BY <2>2 DEF Ends, Endings
<1>3. Ends(2, "queued", <<2, 1>>) \in Endings
  BY <1>1 DEF Ends, Endings
<1>4. Sent(kind) \in Endings BY <1>2, <1>3 DEF Sent
<1>5. NotReached \in Endings BY <1>2 DEF NotReached
<1>6. \A e \in Failures(kind) : e \in Endings
  BY <1>2, <1>5 DEF Failures
<1>7. NotReached.status = "none" BY DEF NotReached, Ends
<1>. QED BY <1>4, <1>5, <1>6, <1>7

(* A relay in terms of how many copies reach each recipient. *)
Copied(i, c) == Stands(i, number[c], SelectReply(i, c), TRUE)
Relays(i, k) ==
  /\ wires' = [c \in Cids |-> wires[c] \o [n \in 1..k[c] |-> Copied(i, c)]]
  /\ \A c \in Cids : k[c] > 0 => c \in Pending(i) /\ MayGo(i, Association[i], c)
  /\ results \subseteq results'
  /\ \A r \in results' \ results :
       /\ r \in ResultType /\ r.item = i /\ r.to \in Pending(i)
       /\ \A w \in ToSet(r.wires) : w \in (Len(wires[r.to]) + 1)..(Len(wires[r.to]) + k[r.to])
       /\ \A s \in results' \ results : s.to = r.to => s = r
  /\ failed' = failed \/ (failed' = failed \cup {i} /\ Setbacks < MaxSetbacks)
  /\ UNCHANGED <<active, number, items>>

LEMMA RelayEnds ==
  ASSUME Shapes, NEW i \in Items, NEW failing \in SUBSET Pending(i), NEW failure \in Endings,
         Relay(i, failing, failure)
  PROVE  \E k \in [Cids -> 0..2] : Relays(i, k)
<1>. DEFINE r0 == Association[i]
            end == [c \in Cids |-> IF c \in failing THEN failure ELSE Sent(items[i].kind)]
            reached == {c \in Pending(i) : end[c] # NotReached}
            sends == {c \in reached : MayGo(i, r0, c)}
            Wires(c) == [n \in DOMAIN end[c].saved |-> Len(wires[c]) + end[c].saved[n]]
            Result(c, status, saved) == [item |-> i, to |-> c, status |-> status, wires |-> saved]
            k == [c \in Cids |-> IF c \in sends THEN end[c].copies ELSE 0]
            queued == {Result(c, end[c].status, Wires(c)) : c \in {d \in sends : end[d].status # "none"}}
            skipped == {Result(c, SkippedAs(r0, c), <<>>) : c \in reached \ sends}
<1>1. i \in Nat /\ items[i] \in ItemType /\ Pending(i) \subseteq Cids
  BY Rows DEF ItemType, Pending
<1>2. \A c \in Cids : end[c] \in Endings BY <1>1, EveryEnding DEF ItemType
<1>3. /\ wires' = [c \in Cids |-> wires[c] \o [n \in 1..k[c] |-> Copied(i, c)]]
      /\ results' = results \cup queued \cup skipped
      /\ failed' = failed \/ (failed' = failed \cup {i} /\ Setbacks < MaxSetbacks)
      /\ UNCHANGED <<active, number, items>>
  BY DEF Relay, Copied
<1>4. k \in [Cids -> 0..2] BY <1>2 DEF Endings
<1>5. \A c \in Cids : k[c] > 0 => c \in Pending(i) /\ MayGo(i, Association[i], c) OBVIOUS
<1>6. \A c \in Cids : Len(wires[c]) \in Nat BY Rows
<1>. HIDE DEF end
<1>7. ASSUME NEW c \in sends, end[c].status # "none"
      PROVE  /\ Result(c, end[c].status, Wires(c)) \in ResultType
             /\ \A w \in ToSet(Wires(c)) : w \in (Len(wires[c]) + 1)..(Len(wires[c]) + k[c])
  <2>1. c \in Cids /\ end[c] \in Endings /\ Len(wires[c]) \in Nat BY <1>1, <1>2, <1>6
  <2>2. end[c].saved \in Seq(1..2) /\ \A n \in DOMAIN end[c].saved : end[c].saved[n] <= end[c].copies
    BY <2>1 DEF Endings
  <2>3. /\ DOMAIN end[c].saved = 1..Len(end[c].saved) /\ Len(end[c].saved) \in Nat
        /\ \A n \in DOMAIN end[c].saved : end[c].saved[n] \in 1..2
    BY <2>2
  <2>4. \A n \in DOMAIN end[c].saved : Wires(c)[n] = Len(wires[c]) + end[c].saved[n] /\ Wires(c)[n] \in Nat
    BY <2>1, <2>3
  <2>5. Wires(c) \in Seq(Nat) BY <2>3, <2>4
  <2>6. end[c].status \in Statuses /\ end[c].copies \in 0..2 BY <1>7, <2>1 DEF Endings, Statuses
  <2>7. k[c] = end[c].copies BY <2>1
  <2>8. \A n \in DOMAIN end[c].saved : Wires(c)[n] \in (Len(wires[c]) + 1)..(Len(wires[c]) + k[c])
    <3>. SUFFICES ASSUME NEW n \in DOMAIN end[c].saved
         PROVE  Wires(c)[n] \in (Len(wires[c]) + 1)..(Len(wires[c]) + k[c])
      OBVIOUS
    <3>1. end[c].saved[n] \in 1..2 /\ end[c].saved[n] <= end[c].copies BY <2>2, <2>3
    <3>2. Wires(c)[n] = Len(wires[c]) + end[c].saved[n] BY <2>4
    <3>. HIDE DEF Wires, k
    <3>. QED BY <2>1, <2>6, <2>7, <3>1, <3>2
  <2>9. ToSet(Wires(c)) = {Wires(c)[n] : n \in DOMAIN end[c].saved} BY DEF ToSet
  <2>. QED BY <1>1, <2>1, <2>5, <2>6, <2>8, <2>9 DEF ResultType
<1>8. ASSUME NEW c \in reached \ sends
      PROVE  Result(c, SkippedAs(r0, c), <<>>) \in ResultType /\ ToSet(<<>>) = {}
  <2>1. SkippedAs(r0, c) \in Statuses BY DEF SkippedAs, Statuses
  <2>2. <<>> \in Seq(Nat) /\ ToSet(<<>>) = {} BY DEF ToSet
  <2>. QED BY <1>1, <2>1, <2>2 DEF ResultType
<1>9. ASSUME NEW r \in results' \ results
      PROVE  /\ r \in ResultType /\ r.item = i /\ r.to \in Pending(i)
             /\ \A w \in ToSet(r.wires) : w \in (Len(wires[r.to]) + 1)..(Len(wires[r.to]) + k[r.to])
             /\ \/ r.to \in sends /\ r = Result(r.to, end[r.to].status, Wires(r.to))
                \/ r.to \notin sends /\ r = Result(r.to, SkippedAs(r0, r.to), <<>>)
  <2>1. r \in queued \/ r \in skipped BY <1>3
  <2>2. CASE r \in queued
    <3>1. PICK c \in sends : end[c].status # "none" /\ r = Result(c, end[c].status, Wires(c)) BY <2>2
    <3>2. r.item = i /\ r.to = c /\ r.wires = Wires(c) BY <3>1
    <3>. HIDE DEF Result, Wires, k
    <3>. QED BY <1>7, <3>1, <3>2
  <2>3. CASE r \in skipped
    <3>1. PICK c \in reached \ sends : r = Result(c, SkippedAs(r0, c), <<>>) BY <2>3
    <3>2. r.item = i /\ r.to = c /\ r.wires = <<>> BY <3>1
    <3>. HIDE DEF Result, k
    <3>. QED BY <1>8, <3>1, <3>2
  <2>. QED BY <2>1, <2>2, <2>3
<1>10. \A r, s \in results' \ results : s.to = r.to => s = r
  <2>. HIDE DEF Result, Wires, sends
  <2>. QED BY <1>9
<1>11. results \subseteq results' BY <1>3
<1>12. Relays(i, k)
  <2>. HIDE DEF k, sends, Result, Wires
  <2>. QED BY <1>3, <1>5, <1>9, <1>10, <1>11 DEF Relays
<1>. QED BY <1>4, <1>12

-----------------------------------------------------------------------------
(* What a reply is, and what it is sent on with *)

(* The wire under which a recipient knows an item is one it has, of that item. *)
LEMMA Mapped ==
  ASSUME Shapes, Faithful, NEW i \in Items, NEW c \in Cids
  PROVE  LET w == MapParent(i, c) IN w = None \/ (w \in Knows(c) /\ wires[c][w].item = i)
<1>. DEFINE copies == {r \in Queued(i, c) : r.wires # <<>>}
            own == items[i].author = c /\ items[i].source # None /\ OwnersFor(items[i].source, c) = {i}
<1>1. ASSUME own PROVE items[i].source \in Knows(c) /\ wires[c][items[i].source].item = i
  BY <1>1 DEF Faithful, SourceOK
<1>2. ASSUME NEW r \in copies PROVE Head(r.wires) \in Knows(c) /\ wires[c][Head(r.wires)].item = i
  <2>1. r \in results /\ r.item = i /\ r.to = c /\ r.status = "queued" /\ r.wires # <<>> BY DEF Queued
  <2>2. r.wires \in Seq(Nat) BY <2>1, Rows DEF ResultType
  <2>3. Head(r.wires) \in ToSet(r.wires) BY <2>1, <2>2 DEF ToSet
  <2>. QED BY <2>1, <2>3 DEF Faithful, ResultOK
<1>3. copies # {} => (CHOOSE r \in copies : TRUE) \in copies OBVIOUS
<1>. QED BY <1>1, <1>2, <1>3 DEF MapParent

LEMMA Selected ==
  ASSUME Shapes, Sound, NEW i \in Items, NEW c \in Cids
  PROVE  LET w == SelectReply(i, c) IN w = None \/ (w \in Knows(c) /\ wires[c][w].item = Meant(i))
<1>1. Resolve(items[i].reply, items[i].author, i) = Meant(i) /\ Meant(i) \in 0..(i - 1)
  BY ReplyResolved
<1>2. Meant(i) # None => Meant(i) \in Items BY <1>1, Rows DEF None
<1>. QED BY <1>1, <1>2, Mapped DEF SelectReply, Sound

(* The row that an accepted message or file is kept in. *)
Accepted(row, c, reply) ==
  /\ row \in ItemType /\ Len(items) < MaxItems /\ c \in active
  /\ items' = Append(items, row) /\ UNCHANGED <<active, number, results, failed>>
  /\ wires' = [wires EXCEPT ![c] = Append(@, Stands(Len(items) + 1, number[c], reply, FALSE))]
  /\ row.author = c /\ row.by = number[c] /\ row.members = {}
  /\ row.source = Len(wires[c]) + 1 /\ row.reply = reply
  /\ reply = None => row.scope = None /\ row.parent = None
  /\ reply # None =>
       LET p == wires[c][reply].item IN
       /\ p \in Items /\ OwnersFor(reply, c) = {p} /\ row.scope = items[p].scope
       /\ row.scope = None => row.parent = None
       /\ row.scope # None => row.kind = "message" /\ row.parent = p /\ Seat(c) \in items[row.scope].members

LEMMA IntakeAccepts ==
  ASSUME Shapes, Sound, NEW c \in Cids, NEW kind \in {"message", "file"},
         NEW reply \in Knows(c) \cup {None}, Intake(c, kind, reply)
  PROVE  \E row : Accepted(row, c, reply)
<1>. DEFINE n == Len(items) + 1
            p == Resolve(reply, c, n)
            r == Association[p]
            item == Item(kind, c, active \ {c}, Len(wires[c]) + 1, reply)
            scoped == [item EXCEPT !.to = {m \in MemberCids(r) \ {c} : ActiveThreadSeat(r, m)},
                                   !.scope = r, !.parent = p]
            Accept(row) ==
              /\ items' = Append(items, row)
              /\ wires' = [wires EXCEPT ![c] = Append(@, Stands(n, number[c], reply, FALSE))]
<1>1. /\ c \in active /\ n <= MaxItems /\ UNCHANGED <<active, number, results, failed>>
      /\ reply = None => Accept(item)
      /\ reply # None => /\ p # None /\ r # Broken
                         /\ r = Ordinary => Accept(item)
                         /\ r # Ordinary => ActiveThreadSeat(r, c) /\ kind = "message" /\ Accept(scoped)
  BY DEF Intake
<1>2. /\ Len(items) \in Nat /\ reply \in Nat /\ Len(wires[c]) \in Nat /\ MaxItems \in Nat
      /\ number[c] \in Nat /\ active \subseteq Cids
  BY Rows, ThreadConstants DEF Shapes, None
<1>3. Len(items) < MaxItems BY <1>1, <1>2
<1>4. /\ item \in ItemType /\ item.author = c /\ item.by = number[c] /\ item.members = {}
      /\ item.source = Len(wires[c]) + 1 /\ item.reply = reply /\ item.scope = None /\ item.parent = None
      /\ item.kind = kind
  BY <1>2 DEF Item, ItemType, None
<1>5. CASE reply = None
  BY <1>1, <1>3, <1>4, <1>5 DEF Accepted
<1>6. CASE reply # None
  <2>1. p # None BY <1>1, <1>6
  <2>2. p \in Items /\ wires[c][reply].item = p /\ OwnersFor(reply, c) = {p}
    BY <1>2, <2>1, Resolved DEF Sound
  <2>3. r = items[p].scope /\ p \in Nat /\ r \in Nat BY <2>2, Classified, Rows DEF ItemType
  <2>. HIDE DEF p, r
  <2>4. CASE r = Ordinary
    BY <1>1, <1>3, <1>4, <1>6, <2>2, <2>3, <2>4 DEF Accepted, Ordinary, None
  <2>5. CASE r # Ordinary
    <3>1. ActiveThreadSeat(r, c) /\ kind = "message" /\ Accept(scoped) BY <1>1, <1>6, <2>5
    <3>2. {m \in MemberCids(r) \ {c} : ActiveThreadSeat(r, m)} \subseteq Cids
      BY <1>2 DEF ActiveThreadSeat
    <3>3. /\ scoped \in ItemType /\ scoped.author = c /\ scoped.by = number[c] /\ scoped.members = {}
          /\ scoped.source = Len(wires[c]) + 1 /\ scoped.reply = reply /\ scoped.scope = r
          /\ scoped.parent = p /\ scoped.kind = kind
      BY <1>4, <2>3, <3>2 DEF ItemType
    <3>4. Seat(c) \in items[r].members BY <3>1 DEF ActiveThreadSeat
    <3>. HIDE DEF item, scoped
    <3>. QED BY <1>1, <1>3, <1>6, <2>2, <2>3, <2>5, <3>1, <3>3, <3>4 DEF Accepted, Ordinary, None
  <2>. QED BY <2>4, <2>5
<1>. QED BY <1>5, <1>6

(* The row that a thread starts with. *)
Started(row, c) ==
  /\ row \in ItemType /\ Len(items) < MaxItems
  /\ items' = Append(items, row) /\ UNCHANGED <<active, number, results, wires, failed>>
  /\ row.author = c /\ row.by = number[c] /\ row.kind = "message"
  /\ row.scope = Len(items) + 1 /\ row.parent = None /\ row.source = None /\ row.reply = None
  /\ Seat(c) \in row.members /\ \A m \in row.members : m \in Cids \X Nat /\ m[2] = number[m[1]]

LEMMA ThreadStarts ==
  ASSUME Shapes, NEW c \in Cids, NEW k \in Keys, NEW members \in SUBSET Cids, StartThread(c, k, members)
  PROVE  \E row : Started(row, c)
<1>. DEFINE item == Item("message", c, members, None, None)
            seats == {Seat(m) : m \in members}
            row == [item EXCEPT !.scope = Len(items) + 1, !.members = seats, !.key = k]
<1>1. Len(items) \in Nat /\ MaxItems \in Nat /\ number \in [Cids -> Nat \ {0}]
  BY Rows, ThreadConstants DEF Shapes
<1>2. Len(items) < MaxItems /\ items' = Append(items, row) /\ c \in members
      /\ UNCHANGED <<active, number, results, wires, failed>>
  BY DEF StartThread, SelectThreadMembers
<1>3. seats \subseteq Cids \X Nat /\ Seat(c) \in seats /\ \A m \in seats : m[2] = number[m[1]]
  BY <1>1, <1>2 DEF Seat
<1>4. item \in ItemType /\ item.author = c /\ item.by = number[c] /\ item.kind = "message"
      /\ item.parent = None /\ item.source = None /\ item.reply = None
  BY <1>1 DEF Item, ItemType, None
<1>. HIDE DEF seats, item
<1>5. /\ row \in ItemType /\ row.author = c /\ row.by = number[c] /\ row.kind = "message"
      /\ row.scope = Len(items) + 1 /\ row.parent = None /\ row.source = None /\ row.reply = None
      /\ row.members = seats
  <2>1. Len(items) + 1 \in Nat /\ seats \in SUBSET (Cids \X Nat) /\ k \in Keys \cup {None} BY <1>1, <1>3
  <2>2. row \in ItemType BY <1>4, <2>1 DEF ItemType
  <2>3. /\ row.author = item.author /\ row.by = item.by /\ row.kind = item.kind /\ row.parent = item.parent
        /\ row.source = item.source /\ row.reply = item.reply
    BY <1>4 DEF ItemType
  <2>4. row.scope = Len(items) + 1 /\ row.members = seats BY <1>4 DEF ItemType
  <2>. QED BY <1>4, <2>2, <2>3, <2>4
<1>. HIDE DEF row
<1>. QED BY <1>2, <1>3, <1>5 DEF Started

(* Every step is one of these. *)
Change ==
  \/ \E c \in Cids : \E row : Started(row, c)
  \/ \E c \in Cids : \E reply \in Knows(c) \cup {None} : \E row : Accepted(row, c, reply)
  \/ \E i \in Items : \E k \in [Cids -> 0..2] : Relays(i, k)
  \/ \E c \in Cids : RemoveMember(c) \/ Readmit(c)
  \/ UNCHANGED vars

LEMMA EveryChange == ASSUME Shapes, Sound, [Next]_vars PROVE Change
<1>1. ASSUME NEW c \in Cids, NEW k \in Keys, NEW members \in SUBSET Cids, StartThread(c, k, members)
      PROVE  Change
  BY <1>1, ThreadStarts DEF Change
<1>2. ASSUME NEW c \in Cids, NEW kind \in {"message", "file"}, NEW reply \in Knows(c) \cup {None},
             Intake(c, kind, reply)
      PROVE  Change
  BY <1>2, IntakeAccepts DEF Change
<1>3. ASSUME NEW i \in Items, NEW failing \in SUBSET Pending(i),
             NEW failure \in Failures(items[i].kind) \cup {NotReached}, Relay(i, failing, failure)
      PROVE  Change
  <2>1. items[i].kind \in {"message", "file"} BY Rows DEF ItemType
  <2>2. failure \in Endings BY <2>1, EveryEnding
  <2>. QED BY <1>3, <2>2, RelayEnds DEF Change
<1>. QED BY <1>1, <1>2, <1>3 DEF Next, Change

-----------------------------------------------------------------------------
(* Each change grows the archive *)

LEMMA Lengthened ==
  ASSUME NEW S, NEW s \in Seq(S), NEW n \in Nat, NEW e \in S
  PROVE  LET t == s \o [j \in 1..n |-> e] IN
         /\ t \in Seq(S) /\ Len(s) \in Nat /\ DOMAIN s = 1..Len(s) /\ DOMAIN t = 1..(Len(s) + n)
         /\ \A j \in DOMAIN s : t[j] = s[j]
         /\ \A j \in (Len(s) + 1)..(Len(s) + n) : t[j] = e
<1>1. [j \in 1..n |-> e] \in Seq(S) OBVIOUS
<1>2. Len([j \in 1..n |-> e]) = n OBVIOUS
<1>3. /\ Len(s \o [j \in 1..n |-> e]) = Len(s) + n /\ Len(s) \in Nat
      /\ s \o [j \in 1..n |-> e] \in Seq(S)
  BY <1>1, <1>2
<1>4. \A j \in 1..Len(s) : (s \o [k \in 1..n |-> e])[j] = s[j]
  BY <1>1, <1>2
<1>5. \A j \in (Len(s) + 1)..(Len(s) + n) : (s \o [k \in 1..n |-> e])[j] = e
  BY <1>1, <1>2
<1>. QED BY <1>3, <1>4, <1>5

LEMMA ShapesKept == ASSUME Shapes, Sound, [Next]_vars PROVE Shapes' /\ Grows
<1>. DEFINE Goal == Shapes' /\ Grows
<1>0. /\ items \in Seq(ItemType) /\ Len(items) <= MaxItems /\ Len(items) \in Nat /\ Items = 1..Len(items)
      /\ results \subseteq ResultType /\ wires \in [Cids -> Seq(WireType)]
      /\ active \subseteq Cids /\ number \in [Cids -> Nat \ {0}] /\ failed \subseteq Items
      /\ MaxItems \in Nat
  BY Rows, ThreadConstants DEF Shapes
<1>1. ASSUME NEW row \in ItemType, items' = Append(items, row)
      PROVE  /\ items' \in Seq(ItemType) /\ Len(items') = Len(items) + 1 /\ Items' = 1..(Len(items) + 1)
             /\ \A i \in Items : i \in Items' /\ items'[i] = items[i]
  BY <1>0, <1>1, AppendedRow DEF Items
<1>2. ASSUME NEW c \in Cids, NEW row, Started(row, c) PROVE Goal
  BY <1>0, <1>1, <1>2 DEF Started, Shapes, Grows, Knows
<1>3. ASSUME NEW c \in Cids, NEW reply \in Knows(c) \cup {None}, NEW row, Accepted(row, c, reply) PROVE Goal
  <2>. DEFINE s == Stands(Len(items) + 1, number[c], reply, FALSE)
  <2>1. reply \in Nat BY Rows DEF None
  <2>2. s \in WireType BY <1>0, <2>1 DEF Stands, WireType
  <2>3. wires' = [wires EXCEPT ![c] = Append(@, s)] BY <1>3 DEF Accepted
  <2>. HIDE DEF s
  <2>4. wires' \in [Cids -> Seq(WireType)] BY <1>0, <2>2, <2>3, AppendedRow
  <2>5. \A d \in Cids : \A w \in Knows(d) : w \in Knows(d)' /\ wires'[d][w] = wires[d][w]
    BY <1>0, <2>2, <2>3, AppendedRow DEF Knows
  <2>6. row \in ItemType /\ items' = Append(items, row) /\ Len(items) < MaxItems
        /\ UNCHANGED <<active, number, results, failed>>
    BY <1>3 DEF Accepted
  <2>. QED BY <1>0, <1>1, <2>4, <2>5, <2>6 DEF Shapes, Grows
<1>4. ASSUME NEW i \in Items, NEW k \in [Cids -> 0..2], Relays(i, k) PROVE Goal
  <2>1. \A c \in Cids : Copied(i, c) \in WireType
    <3>. SUFFICES ASSUME NEW c \in Cids PROVE Copied(i, c) \in WireType OBVIOUS
    <3>1. SelectReply(i, c) \in Nat BY Selected, Rows DEF None
    <3>. QED BY <1>0, <3>1 DEF Copied, Stands, WireType
  <2>2. wires' = [c \in Cids |-> wires[c] \o [n \in 1..k[c] |-> Copied(i, c)]] BY <1>4 DEF Relays
  <2>3. ASSUME NEW d \in Cids
        PROVE  /\ wires'[d] \in Seq(WireType)
               /\ \A w \in Knows(d) : w \in Knows(d)' /\ wires'[d][w] = wires[d][w]
    <3>1. wires'[d] = wires[d] \o [n \in 1..k[d] |-> Copied(i, d)] BY <2>2
    <3>2. k[d] \in Nat /\ wires[d] \in Seq(WireType) /\ Copied(i, d) \in WireType BY <1>0, <2>1
    <3>. DEFINE t == wires[d] \o [n \in 1..k[d] |-> Copied(i, d)]
    <3>3. /\ t \in Seq(WireType) /\ Len(wires[d]) \in Nat /\ DOMAIN wires[d] = 1..Len(wires[d])
          /\ DOMAIN t = 1..(Len(wires[d]) + k[d]) /\ \A j \in DOMAIN wires[d] : t[j] = wires[d][j]
      BY <3>2, Lengthened
    <3>4. \A j \in 1..Len(wires[d]) : j \in 1..(Len(wires[d]) + k[d]) BY <3>2, <3>3
    <3>. QED BY <3>1, <3>3, <3>4 DEF Knows
  <2>4. wires' \in [Cids -> Seq(WireType)] BY <2>2, <2>3
  <2>5. results \subseteq results' /\ results' \subseteq ResultType /\ failed' \subseteq failed \cup {i}
        /\ UNCHANGED <<active, number, items>>
    BY <1>0, <1>4 DEF Relays
  <2>6. \A c \in Cids : number[c] <= number[c] BY <1>0
  <2>. QED BY <1>0, <2>3, <2>4, <2>5, <2>6 DEF Shapes, Grows, Items
<1>5. ASSUME NEW c \in Cids, RemoveMember(c) \/ Readmit(c) PROVE Goal
  <2>1. UNCHANGED <<items, results, wires, failed>> /\ active' \subseteq Cids
    <3>1. CASE RemoveMember(c) BY <1>0, <3>1 DEF RemoveMember
    <3>2. CASE Readmit(c) BY <1>0, <3>2 DEF Readmit
    <3>. QED BY <1>5, <3>1, <3>2
  <2>2. number' \in [Cids -> Nat \ {0}] /\ \A d \in Cids : number[d] <= number'[d]
    <3>1. number' = number \/ number' = [number EXCEPT ![c] = @ + 1]
      BY <1>5 DEF RemoveMember, Readmit
    <3>2. \A d \in Cids : number[d] \in Nat /\ number[d] > 0 BY <1>0
    <3>3. CASE number' = number BY <1>0, <3>2, <3>3
    <3>4. CASE number' = [number EXCEPT ![c] = @ + 1]
      <4>1. \A d \in Cids : number'[d] = IF d = c THEN number[c] + 1 ELSE number[d] BY <1>0, <3>4
      <4>2. \A d \in Cids : number'[d] \in Nat \ {0} /\ number[d] <= number'[d] BY <3>2, <4>1
      <4>3. number' = [d \in Cids |-> number'[d]] BY <1>0, <3>4
      <4>. QED BY <4>2, <4>3
    <3>. QED BY <3>1, <3>3, <3>4
  <2>. QED BY <1>0, <2>1, <2>2 DEF Shapes, Grows, Knows, Items
<1>6. CASE UNCHANGED vars
  BY <1>0, <1>6 DEF vars, Shapes, Grows, Knows, Items
<1>7. Change BY EveryChange
<1>. QED BY <1>2, <1>3, <1>4, <1>5, <1>6, <1>7 DEF Change

-----------------------------------------------------------------------------
(* Wires stay faithful *)

LEMMA SourcesStay ==
  ASSUME Shapes, Faithful, Grows PROVE \A i \in Items : SourceOK(i)'
<1>. SUFFICES ASSUME NEW i \in Items PROVE SourceOK(i)' OBVIOUS
<1>1. SourceOK(i) /\ items'[i] = items[i] /\ items[i].author \in Cids
  BY Rows DEF Faithful, Grows, ItemType
<1>. QED BY <1>1 DEF SourceOK, Grows, Knows, None

(* A result that is not new stays right if it stays the only one. *)
LEMMA ResultsStay ==
  ASSUME Shapes, Faithful, Grows, NEW r \in results,
         \A s \in results' : s.item = r.item /\ s.to = r.to => s = r
  PROVE  ResultOK(r)'
<1>1. ResultOK(r) /\ r.to \in Cids BY Rows DEF Faithful, ResultType
<1>2. r.item \in Items' /\ items'[r.item] = items[r.item] BY <1>1 DEF ResultOK, Grows
<1>3. \A w \in ToSet(r.wires) : w \in Knows(r.to)' /\ wires'[r.to][w] = wires[r.to][w]
  BY <1>1 DEF ResultOK, Grows
<1>. QED BY <1>1, <1>2, <1>3 DEF ResultOK

LEMMA FaithfulKept == ASSUME Shapes, Sound, [Next]_vars PROVE Faithful'
<1>0. Shapes' /\ Grows /\ Faithful BY ShapesKept DEF Sound
<1>1. ASSUME NEW i \in Items PROVE SourceOK(i)' BY <1>0, SourcesStay
<1>2. ASSUME results' = results, NEW r \in results PROVE ResultOK(r)'
  BY <1>0, <1>2, ResultsStay DEF Faithful, ResultOK
<1>3. /\ Len(items) \in Nat /\ Items = 1..Len(items) /\ items \in Seq(ItemType)
      /\ \A c \in Cids : wires[c] \in Seq(WireType) /\ Len(wires[c]) \in Nat /\ Knows(c) = 1..Len(wires[c])
      /\ wires \in [Cids -> Seq(WireType)]
  BY Rows DEF Shapes
<1>n. PICK n : n = Len(items) + 1 OBVIOUS
<1>4. ASSUME NEW row \in ItemType, items' = Append(items, row)
      PROVE  Items' = Items \cup {n} /\ items'[n] = row
  BY <1>3, <1>4, <1>n, AppendedRow DEF Items
<1>5. ASSUME NEW c \in Cids, NEW row, Started(row, c) PROVE Faithful'
  <2>1. row \in ItemType /\ items' = Append(items, row) /\ results' = results /\ row.source = None
    BY <1>5 DEF Started
  <2>2. SourceOK(n)' BY <1>4, <2>1 DEF SourceOK, None
  <2>. QED BY <1>1, <1>2, <1>4, <2>1, <2>2 DEF Faithful
<1>6. ASSUME NEW c \in Cids, NEW reply \in Knows(c) \cup {None}, NEW row, Accepted(row, c, reply)
      PROVE  Faithful'
  <2>. DEFINE s == Stands(Len(items) + 1, number[c], reply, FALSE)
  <2>1. /\ row \in ItemType /\ items' = Append(items, row) /\ results' = results
        /\ row.source = Len(wires[c]) + 1 /\ row.author = c /\ wires' = [wires EXCEPT ![c] = Append(@, s)]
    BY <1>6 DEF Accepted
  <2>2. wires'[c] = Append(wires[c], s) BY <1>3, <2>1
  <2>3. s.item = Len(items) + 1 BY DEF Stands
  <2>4. Len(wires[c]) + 1 \in Knows(c)' /\ wires'[c][Len(wires[c]) + 1] = s
    <3>. HIDE DEF s
    <3>. QED BY <1>3, <2>2, AppendedRow DEF Knows
  <2>5. SourceOK(n)' BY <1>4, <1>n, <2>1, <2>3, <2>4 DEF SourceOK
  <2>. QED BY <1>1, <1>2, <1>4, <2>1, <2>5 DEF Faithful
<1>7. ASSUME NEW i \in Items, NEW k \in [Cids -> 0..2], Relays(i, k) PROVE Faithful'
  <2>1. Items' = Items /\ items' = items /\ Pending(i) \subseteq items[i].to /\ items[i].to \subseteq Cids
    BY <1>7, Rows DEF Relays, Items, Pending, ItemType
  <2>2. /\ results \subseteq results'
        /\ \A r \in results' \ results :
             /\ r \in ResultType /\ r.item = i /\ r.to \in Pending(i)
             /\ \A w \in ToSet(r.wires) : w \in (Len(wires[r.to]) + 1)..(Len(wires[r.to]) + k[r.to])
             /\ \A s \in results' \ results : s.to = r.to => s = r
    BY <1>7 DEF Relays
  <2>3. \A r \in results' \ results, s \in results : ~(s.item = r.item /\ s.to = r.to)
    BY <2>2 DEF Pending
  <2>4. ASSUME NEW r \in results PROVE ResultOK(r)'
    <3>1. ResultOK(r) BY <1>0 DEF Faithful
    <3>2. \A s \in results' : s.item = r.item /\ s.to = r.to => s = r BY <2>3, <3>1 DEF ResultOK
    <3>. QED BY <1>0, <3>2, ResultsStay
  <2>5. ASSUME NEW r \in results' \ results PROVE ResultOK(r)'
    <3>1. r.item = i /\ r.to \in Pending(i) /\ r.to \in Cids BY <2>1, <2>2
    <3>2. \A s \in results' : s.item = r.item /\ s.to = r.to => s = r BY <2>2, <2>3
    <3>. DEFINE c == r.to
    <3>3. wires'[c] = wires[c] \o [j \in 1..k[c] |-> Copied(i, c)] BY <1>7, <3>1 DEF Relays
    <3>4. Copied(i, c) \in WireType /\ Copied(i, c).item = i
      <4>1. SelectReply(i, c) \in Nat BY <3>1, Selected, Rows DEF None
      <4>2. number[c] \in Nat BY <3>1 DEF Shapes
      <4>. QED BY <4>1, <4>2, <1>3 DEF Copied, Stands, WireType
    <3>5. k[c] \in 0..2 /\ wires[c] \in Seq(WireType) BY <1>3, <3>1
    <3>6. \A w \in (Len(wires[c]) + 1)..(Len(wires[c]) + k[c]) : w \in Knows(c)' /\ wires'[c][w].item = i
      <4>. DEFINE t == wires[c] \o [j \in 1..k[c] |-> Copied(i, c)]
      <4>1. /\ DOMAIN t = 1..(Len(wires[c]) + k[c]) /\ Len(wires[c]) \in Nat
            /\ \A j \in (Len(wires[c]) + 1)..(Len(wires[c]) + k[c]) : t[j] = Copied(i, c)
        BY <3>4, <3>5, Lengthened
      <4>. HIDE DEF t
      <4>2. \A j \in (Len(wires[c]) + 1)..(Len(wires[c]) + k[c]) : j \in DOMAIN t BY <3>5, <4>1
      <4>3. wires'[c] = t BY <3>3 DEF t
      <4>. QED BY <3>4, <4>1, <4>2, <4>3 DEF Knows
    <3>7. \A w \in ToSet(r.wires) : w \in (Len(wires[c]) + 1)..(Len(wires[c]) + k[c]) BY <2>2
    <3>. QED BY <2>1, <3>1, <3>2, <3>6, <3>7 DEF ResultOK
  <2>. QED BY <1>1, <2>1, <2>4, <2>5 DEF Faithful
<1>8. CASE UNCHANGED <<items, results, wires>>
  <2>1. Items' = Items BY <1>8 DEF Items
  <2>. QED BY <1>1, <1>2, <1>8, <2>1 DEF Faithful
<1>9. (\E c \in Cids : RemoveMember(c) \/ Readmit(c)) \/ UNCHANGED vars => UNCHANGED <<items, results, wires>>
  BY DEF RemoveMember, Readmit, vars
<1>10. Change BY EveryChange
<1>. QED BY <1>5, <1>6, <1>7, <1>8, <1>9, <1>10 DEF Change

-----------------------------------------------------------------------------
(* Rows and wires stay sound *)

LEMMA Scopes ==
  ASSUME Shapes, Sound, NEW i \in Items
  PROVE  LET r == items[i].scope IN
         /\ i \in Nat /\ r \in 0..i /\ items[i].parent \in 0..i
         /\ r # None => r \in Items /\ IsRoot(r) /\ items[r].scope = r
<1>1. RowOK(i) /\ i \in 1..Len(items) /\ Len(items) \in Nat /\ Items = 1..Len(items) /\ items[i] \in ItemType
  BY Rows DEF Sound
<1>2. items[i].scope \in 0..i /\ items[i].parent \in 0..i
  <2>1. CASE IsRoot(i) BY <1>1, <2>1 DEF RowOK, None
  <2>2. CASE ~IsRoot(i) /\ items[i].reply = None BY <1>1, <2>2 DEF RowOK, None
  <2>3. CASE items[i].reply # None BY <1>1, <2>3 DEF RowOK, None
  <2>. QED BY <2>1, <2>2, <2>3
<1>3. ASSUME items[i].scope # None PROVE IsRoot(items[i].scope) /\ items[i].scope \in Items
  BY <1>1, <1>2, <1>3 DEF RowOK, None
<1>4. ASSUME NEW r \in Items, IsRoot(r) PROVE items[r].scope = r
  BY <1>4 DEF Sound, RowOK
<1>. QED BY <1>1, <1>2, <1>3, <1>4

LEMMA OldOwners ==
  ASSUME Shapes, Grows, Shapes', Faithful', NEW c \in Cids, NEW w \in Knows(c), NEW p \in OwnersFor(w, c)
  PROVE  OwnersFor(w, c)' = {p}
<1>1. NamedBy(p, w, c) BY Naming
<1>2. items'[p] = items[p] /\ p \in Items' /\ results \subseteq results' BY <1>1 DEF NamedBy, Grows
<1>3. NamedBy(p, w, c)' BY <1>1, <1>2 DEF NamedBy
<1>4. p \in OwnersFor(w, c)' BY <1>3, Naming
<1>5. WiresName' BY Named, PTL
<1>6. w \in Nat \ {0} BY Rows DEF Knows
<1>7. \A q \in OwnersFor(w, c)' : wires'[c][w].item = q BY <1>5, <1>6 DEF WiresName
<1>. QED BY <1>4, <1>7

LEMMA OldRows ==
  ASSUME Shapes, Sound, Grows, Shapes', Faithful', NEW i \in Items
  PROVE  RowOK(i)' /\ Meant(i)' = Meant(i)
<1>. DEFINE t == items[i]
<1>1. RowOK(i) /\ items'[i] = t /\ t \in ItemType /\ t.author \in Cids
  BY Rows DEF Sound, Grows, ItemType
<1>2. Meant(i)' = Meant(i) BY <1>1 DEF Meant, RowOK, Grows
<1>3. IsRoot(i)' <=> IsRoot(i) BY <1>1 DEF IsRoot
<1>4. /\ t.by \in 1..number'[t.author] /\ \A m \in t.members : m[2] \in 1..number'[m[1]]
  <2>1. \A c \in Cids : number[c] \in Nat /\ number'[c] \in Nat /\ number[c] <= number'[c]
    BY DEF Shapes, Grows
  <2>2. \A m \in t.members : m[1] \in Cids BY <1>1 DEF ItemType
  <2>3. t.by \in 1..number[t.author] /\ \A m \in t.members : m[2] \in 1..number[m[1]] BY <1>1 DEF RowOK
  <2>. QED BY <1>1, <2>1, <2>2, <2>3
<1>5. ASSUME t.reply # None
      PROVE  /\ t.reply \in Knows(t.author)' /\ Meant(i) \in 1..(i - 1)
             /\ OwnersFor(t.reply, t.author)' = {Meant(i)} /\ t.scope = items'[Meant(i)].scope
             /\ t.scope # None => /\ IsRoot(t.scope)' /\ t.scope \in 1..(i - 1)
                                  /\ <<t.author, t.by>> \in items'[t.scope].members
  <2>1. /\ t.reply \in Knows(t.author) /\ Meant(i) \in 1..(i - 1)
        /\ OwnersFor(t.reply, t.author) = {Meant(i)} /\ t.scope = items[Meant(i)].scope
        /\ t.scope # None => /\ IsRoot(t.scope) /\ t.scope \in 1..(i - 1)
                             /\ <<t.author, t.by>> \in items[t.scope].members
    BY <1>1, <1>5 DEF RowOK
  <2>2. \A j \in 1..(i - 1) : j \in Items BY Rows
  <2>3. t.reply \in Knows(t.author)' BY <1>1, <2>1 DEF Grows
  <2>4. items'[Meant(i)] = items[Meant(i)] BY <2>1, <2>2 DEF Grows
  <2>5. t.scope # None => items'[t.scope] = items[t.scope] BY <2>1, <2>2 DEF Grows
  <2>6. OwnersFor(t.reply, t.author)' = {Meant(i)} BY <1>1, <2>1, OldOwners
  <2>7. t.scope # None => (IsRoot(t.scope)' <=> IsRoot(t.scope)) BY <1>1, <2>5 DEF IsRoot
  <2>. QED BY <2>1, <2>3, <2>4, <2>5, <2>6, <2>7
<1>6. RowOK(i)' BY <1>1, <1>2, <1>3, <1>4, <1>5 DEF RowOK
<1>. QED BY <1>2, <1>6

LEMMA OldWires ==
  ASSUME Shapes, Sound, Grows, Shapes', Faithful', NEW c \in Cids, NEW w \in Knows(c)
  PROVE  WireOK(c, w)'
<1>. DEFINE s == wires[c][w]
            thread == items[s.item].scope
<1>1. WireOK(c, w) /\ wires'[c][w] = s BY DEF Sound, Grows
<1>2. s.item \in Items BY <1>1 DEF WireOK
<1>3. s.item \in Items' /\ items'[s.item] = items[s.item] /\ Meant(s.item)' = Meant(s.item)
  BY <1>2, OldRows DEF Grows
<1>4. thread # None => items'[thread] = items[thread] BY <1>2, Scopes DEF Grows
<1>5. s.copy /\ s.link # None => s.link \in Knows(c)' /\ wires'[c][s.link].item = Meant(s.item)
  BY <1>1 DEF WireOK, Grows
<1>. QED BY <1>1, <1>3, <1>4, <1>5 DEF WireOK

LEMMA SoundKept == ASSUME Shapes, Sound, [Next]_vars PROVE Sound'
<1>0. Shapes' /\ Grows /\ Faithful' BY ShapesKept, FaithfulKept
<1>1. \A i \in Items : RowOK(i)' BY <1>0, OldRows
<1>2. \A c \in Cids : \A w \in Knows(c) : WireOK(c, w)' BY <1>0, OldWires
<1>3. /\ Len(items) \in Nat /\ Items = 1..Len(items) /\ items \in Seq(ItemType)
      /\ \A c \in Cids : /\ wires[c] \in Seq(WireType) /\ Len(wires[c]) \in Nat
                         /\ Knows(c) = 1..Len(wires[c])
      /\ wires \in [Cids -> Seq(WireType)] /\ number \in [Cids -> Nat \ {0}]
  BY Rows DEF Shapes
<1>n. PICK n : n = Len(items) + 1 OBVIOUS
<1>4. ASSUME NEW row \in ItemType, items' = Append(items, row)
      PROVE  /\ Items' = Items \cup {n} /\ n \in Items' /\ items'[n] = row /\ n \in Nat /\ n \notin Items
             /\ \A i \in Items : items'[i] = items[i] /\ i \in 1..(n - 1)
  BY <1>3, <1>4, <1>n, AppendedRow DEF Items
<1>5. ASSUME NEW c \in Cids, NEW row, Started(row, c) PROVE Sound'
  <2>1. /\ row \in ItemType /\ items' = Append(items, row) /\ UNCHANGED <<active, number, results, wires, failed>>
        /\ row.author = c /\ row.by = number[c] /\ row.kind = "message"
        /\ row.scope = n /\ row.parent = None /\ row.source = None /\ row.reply = None
        /\ Seat(c) \in row.members /\ \A m \in row.members : m \in Cids \X Nat /\ m[2] = number[m[1]]
    BY <1>5, <1>n DEF Started
  <2>2. row.by \in 1..number[c] /\ \A m \in row.members : m[2] \in 1..number[m[1]]
    BY <1>3, <2>1
  <2>3. RowOK(n)' BY <1>4, <2>1, <2>2 DEF RowOK, IsRoot, Seat
  <2>4. \A d \in Cids : Knows(d)' = Knows(d) BY <2>1 DEF Knows
  <2>. QED BY <1>0, <1>1, <1>2, <1>4, <2>1, <2>3, <2>4 DEF Sound
<1>6. ASSUME NEW c \in Cids, NEW reply \in Knows(c) \cup {None}, NEW row, Accepted(row, c, reply)
      PROVE  Sound'
  <2>. DEFINE s == Stands(n, number[c], reply, FALSE)
              p == wires[c][reply].item
  <2>1. /\ row \in ItemType /\ items' = Append(items, row) /\ UNCHANGED <<active, number, results, failed>>
        /\ wires' = [wires EXCEPT ![c] = Append(@, s)]
        /\ row.author = c /\ row.by = number[c] /\ row.members = {} /\ row.reply = reply
        /\ reply = None => row.scope = None /\ row.parent = None
        /\ reply # None =>
             /\ p \in Items /\ OwnersFor(reply, c) = {p} /\ row.scope = items[p].scope
             /\ row.scope = None => row.parent = None
             /\ row.scope # None => row.kind = "message" /\ row.parent = p /\ Seat(c) \in items[row.scope].members
    BY <1>6, <1>n DEF Accepted
  <2>2. wires'[c] = Append(wires[c], s) /\ \A d \in Cids \ {c} : wires'[d] = wires[d] BY <1>3, <2>1
  <2>3. reply # None => /\ reply \in Knows(c) /\ reply \in Knows(c)' /\ wires'[c][reply] = wires[c][reply]
    BY <1>0 DEF Grows
  <2>4. Knows(c)' = Knows(c) \cup {Len(wires[c]) + 1} /\ wires'[c][Len(wires[c]) + 1] = s
        /\ \A d \in Cids \ {c} : Knows(d)' = Knows(d)
    <3>1. reply \in Nat BY <1>3, <2>3 DEF None
    <3>2. s \in WireType BY <1>3, <1>n, <3>1 DEF Stands, WireType
    <3>. HIDE DEF s
    <3>. QED BY <1>3, <2>2, <3>2, AppendedRow DEF Knows
  <2>5. row.scope # None => /\ reply # None /\ row.scope \in Items /\ row.scope \in 1..(n - 1)
                            /\ IsRoot(row.scope) /\ items'[row.scope] = items[row.scope]
                            /\ Seat(c) \in items[row.scope].members
    BY <1>4, <2>1, Scopes
  <2>6. reply # None => OwnersFor(reply, c)' = {p} /\ p \in 1..(n - 1) /\ row.scope = items'[p].scope
    <3>1. ASSUME reply # None PROVE OwnersFor(reply, c)' = {p}
      <4>1. p \in OwnersFor(reply, c) BY <2>1, <3>1
      <4>. HIDE DEF p
      <4>. QED BY <1>0, <2>3, <3>1, <4>1, OldOwners
    <3>2. reply # None => p \in 1..(n - 1) /\ items'[p] = items[p] BY <1>4, <2>1
    <3>. QED BY <2>1, <3>1, <3>2
  <2>7. Meant(n)' = IF reply = None THEN None ELSE p
    <3>1. items'[n] = row /\ row.reply = reply /\ row.author = c BY <1>4, <2>1
    <3>. QED BY <2>3, <3>1 DEF Meant
  <2>8. RowOK(n)'
    <3>1. row.by \in 1..number'[c] BY <1>3, <2>1
    <3>2. ~IsRoot(n)' BY <1>4, <2>1 DEF IsRoot
    <3>3. row.scope # None => IsRoot(row.scope)' BY <2>5 DEF IsRoot
    <3>4. row.scope # None => <<c, row.by>> \in items'[row.scope].members BY <2>1, <2>5 DEF Seat
    <3>. HIDE DEF p
    <3>. QED BY <1>4, <2>1, <2>3, <2>5, <2>6, <2>7, <3>1, <3>2, <3>3, <3>4 DEF RowOK
  <2>9. ASSUME NEW w, w = Len(wires[c]) + 1 PROVE WireOK(c, w)'
    <3>1. wires'[c][w] = s /\ s.item = n /\ s.seat = number[c] /\ ~s.copy BY <2>4, <2>9 DEF Stands
    <3>. HIDE DEF s
    <3>2. row.scope # None => <<c, number[c]>> \in items'[row.scope].members BY <2>5 DEF Seat
    <3>. QED BY <1>4, <2>1, <3>1, <3>2 DEF WireOK
  <2>10. \A d \in Cids : \A w \in Knows(d)' : WireOK(d, w)' BY <1>2, <2>4, <2>9
  <2>. QED BY <1>0, <1>1, <1>4, <2>1, <2>8, <2>10 DEF Sound
<1>7. ASSUME NEW i \in Items, NEW k \in [Cids -> 0..2], Relays(i, k) PROVE Sound'
  <2>1. Items' = Items /\ items' = items /\ number' = number /\ \A c \in Cids :
          /\ wires'[c] = wires[c] \o [j \in 1..k[c] |-> Copied(i, c)]
          /\ k[c] > 0 => MayGo(i, Association[i], c)
    BY <1>7 DEF Relays, Items
  <2>2. Association[i] = items[i].scope /\ Meant(i)' = Meant(i) BY <1>0, Classified, OldRows
  <2>3. ASSUME NEW c \in Cids, NEW w \in Knows(c)', w \notin Knows(c) PROVE WireOK(c, w)'
    <3>. DEFINE link == SelectReply(i, c)
                thread == items[i].scope
    <3>1. link = None \/ (link \in Knows(c) /\ wires[c][link].item = Meant(i)) BY Selected
    <3>2. Copied(i, c) \in WireType /\ Copied(i, c) = Stands(i, number[c], link, TRUE)
      <4>1. link \in Nat /\ number[c] \in Nat /\ i \in Nat BY <1>3, <3>1, Rows DEF None
      <4>. QED BY <4>1 DEF Copied, Stands, WireType
    <3>3. k[c] > 0 /\ wires'[c][w] = Copied(i, c)
      <4>. DEFINE t == wires[c] \o [j \in 1..k[c] |-> Copied(i, c)]
      <4>1. k[c] \in 0..2 /\ wires[c] \in Seq(WireType) BY <1>3
      <4>0. Copied(i, c) \in WireType BY <3>2
      <4>2. /\ DOMAIN t = 1..(Len(wires[c]) + k[c]) /\ Len(wires[c]) \in Nat
            /\ \A j \in (Len(wires[c]) + 1)..(Len(wires[c]) + k[c]) : t[j] = Copied(i, c)
        BY <4>0, <4>1, Lengthened
      <4>. HIDE DEF t
      <4>3. wires'[c] = t BY <2>1 DEF t
      <4>4. w \in 1..(Len(wires[c]) + k[c]) /\ w \notin 1..Len(wires[c])
        BY <1>3, <2>3, <4>2, <4>3 DEF Knows
      <4>. QED BY <4>1, <4>2, <4>3, <4>4
    <3>4. MayGo(i, thread, c) BY <2>1, <2>2, <3>3
    <3>5. thread # None => Seat(c) \in items[thread].members /\ (i = thread \/ link # None)
      BY <3>4 DEF MayGo, ActiveThreadSeat, Ordinary, None
    <3>6. link # None => link \in Knows(c)' /\ wires'[c][link].item = Meant(i) BY <1>0, <3>1 DEF Grows
    <3>7. LET s == wires'[c][w] IN s.item = i /\ s.seat = number[c] /\ s.link = link BY <3>2, <3>3 DEF Stands
    <3>. HIDE DEF link, thread
    <3>8. items'[i].scope = thread BY <2>1 DEF thread
    <3>. QED BY <2>1, <2>2, <3>5, <3>6, <3>7, <3>8 DEF WireOK, Seat
  <2>. QED BY <1>0, <1>1, <1>2, <2>1, <2>3 DEF Sound
<1>8. CASE UNCHANGED <<items, wires>>
  <2>1. Items' = Items /\ \A d \in Cids : Knows(d)' = Knows(d) BY <1>8 DEF Items, Knows
  <2>. QED BY <1>0, <1>1, <1>2, <2>1 DEF Sound
<1>9. (\E c \in Cids : RemoveMember(c) \/ Readmit(c)) \/ UNCHANGED vars => UNCHANGED <<items, wires>>
  BY DEF RemoveMember, Readmit, vars
<1>10. Change BY EveryChange
<1>. QED BY <1>5, <1>6, <1>7, <1>8, <1>9, <1>10 DEF Change

-----------------------------------------------------------------------------
(* The bound on setbacks bounds the seats of an identity, since every seat before the *)
(* latest was removed.                                                                 *)
Bounded ==
  /\ \A c \in Cids : number[c] <= MaxSetbacks + 1
  /\ IsFiniteSet(Removed) /\ IsFiniteSet(failed) /\ Setbacks <= MaxSetbacks

LEMMA SeatsBounded ==
  ASSUME Shapes, Bounded, NEW c \in Cids, c \notin active
  PROVE  number[c] <= MaxSetbacks
<1>. DEFINE m == number[c]
            f == [x \in 1..m |-> <<c, x>>]
<1>1. m \in Nat /\ m <= MaxSetbacks + 1 /\ MaxSetbacks \in Nat
  BY ThreadConstants DEF Shapes, Bounded
<1>2. \A x \in 1..m : <<c, x>> \in Removed BY <1>1 DEF Removed
<1>. HIDE DEF m
<1>3. f \in Injection(1..m, Removed) BY <1>2 DEF Injection, IsInjective
<1>4. m \in Int /\ 1 \in Int BY <1>1
<1>. HIDE DEF f
<1>5. Cardinality(1..m) <= Cardinality(Removed) BY <1>3, FS_Injection DEF Bounded
<1>6. Cardinality(1..m) = IF 1 > m THEN 0 ELSE m - 1 + 1 BY <1>4, FS_Interval
<1>7. Cardinality(Removed) \in Nat /\ Cardinality(failed) \in Nat
      /\ Cardinality(failed) + Cardinality(Removed) <= MaxSetbacks
  BY FS_CardinalityType DEF Bounded, Setbacks
<1>8. m <= MaxSetbacks BY <1>1, <1>5, <1>6, <1>7
<1>. QED BY <1>8 DEF m

LEMMA BoundedKept == ASSUME Shapes, Sound, Bounded, [Next]_vars PROVE Bounded'
<1>0. /\ number \in [Cids -> Nat \ {0}] /\ \A c \in Cids : number[c] \in Nat /\ number[c] <= MaxSetbacks + 1
      /\ IsFiniteSet(Removed) /\ IsFiniteSet(failed) /\ Cardinality(Removed) \in Nat
      /\ Cardinality(failed) \in Nat /\ Cardinality(failed) + Cardinality(Removed) <= MaxSetbacks
      /\ MaxSetbacks \in Nat
  BY FS_CardinalityType, ThreadConstants DEF Shapes, Bounded, Setbacks
<1>1. CASE UNCHANGED <<active, number, failed>>
  BY <1>1 DEF Bounded, Setbacks, Removed
<1>2. ASSUME NEW i \in Items, NEW k \in [Cids -> 0..2], Relays(i, k) PROVE Bounded'
  <2>1. UNCHANGED <<active, number>> /\ Removed' = Removed BY <1>2 DEF Relays, Removed
  <2>2. CASE failed' = failed BY <1>1, <2>1, <2>2
  <2>3. CASE failed' = failed \cup {i} /\ Setbacks < MaxSetbacks
    <3>1. IsFiniteSet(failed') /\ Cardinality(failed') <= Cardinality(failed) + 1 /\ Cardinality(failed') \in Nat
      <4>1. IsFiniteSet(failed \cup {i}) BY <1>0, FS_AddElement
      <4>2. Cardinality(failed \cup {i}) = Cardinality(failed)
            \/ Cardinality(failed \cup {i}) = Cardinality(failed) + 1
        BY <1>0, FS_AddElement
      <4>. QED BY <1>0, <2>3, <4>1, <4>2
    <3>2. Cardinality(failed) + Cardinality(Removed) < MaxSetbacks BY <2>3 DEF Setbacks
    <3>3. Cardinality(failed') + Cardinality(Removed') <= MaxSetbacks BY <1>0, <2>1, <3>1, <3>2
    <3>. QED BY <1>0, <2>1, <3>1, <3>3 DEF Bounded, Setbacks
  <2>. QED BY <1>2, <2>2, <2>3 DEF Relays
<1>3. ASSUME NEW c \in Cids, RemoveMember(c) PROVE Bounded'
  <2>1. /\ c \in active /\ Setbacks < MaxSetbacks /\ active' = active \ {c}
        /\ number' = number /\ failed' = failed
    BY <1>3 DEF RemoveMember
  <2>2. Removed' = Removed \cup {<<c, number[c]>>}
    <3>1. <<c, number[c]>> \in Cids \X (1..(MaxSetbacks + 1)) BY <1>0
    <3>. QED BY <2>1, <3>1 DEF Removed
  <2>3. IsFiniteSet(Removed') /\ Cardinality(Removed') <= Cardinality(Removed) + 1 /\ Cardinality(Removed') \in Nat
    <3>. DEFINE seat == <<c, number[c]>>
    <3>. HIDE DEF seat
    <3>1. IsFiniteSet(Removed \cup {seat}) BY <1>0, FS_AddElement
    <3>2. Cardinality(Removed \cup {seat}) = Cardinality(Removed)
          \/ Cardinality(Removed \cup {seat}) = Cardinality(Removed) + 1
      BY <1>0, FS_AddElement
    <3>. QED BY <1>0, <2>2, <3>1, <3>2 DEF seat
  <2>4. Cardinality(failed) + Cardinality(Removed) < MaxSetbacks BY <2>1 DEF Setbacks
  <2>5. Cardinality(failed') + Cardinality(Removed') <= MaxSetbacks BY <1>0, <2>1, <2>3, <2>4
  <2>. QED BY <1>0, <2>1, <2>3, <2>5 DEF Bounded, Setbacks
<1>4. ASSUME NEW c \in Cids, Readmit(c) PROVE Bounded'
  <2>1. /\ c \notin active /\ active' = active \cup {c} /\ failed' = failed
        /\ number' = [number EXCEPT ![c] = @ + 1]
    BY <1>4 DEF Readmit
  <2>2. number[c] <= MaxSetbacks BY <2>1, SeatsBounded
  <2>3. \A d \in Cids : number'[d] = IF d = c THEN number[c] + 1 ELSE number[d] BY <1>0, <2>1
  <2>4. \A d \in Cids : number'[d] <= MaxSetbacks + 1 BY <1>0, <2>2, <2>3
  <2>5. \A x \in Cids \X (1..(MaxSetbacks + 1)) :
          (x[2] < number'[x[1]] \/ (x[2] = number'[x[1]] /\ x[1] \notin active'))
            <=> (x[2] < number[x[1]] \/ (x[2] = number[x[1]] /\ x[1] \notin active))
    <3>. SUFFICES ASSUME NEW d \in Cids, NEW x \in 1..(MaxSetbacks + 1)
         PROVE (x < number'[d] \/ (x = number'[d] /\ d \notin active'))
                 <=> (x < number[d] \/ (x = number[d] /\ d \notin active))
      OBVIOUS
    <3>. QED BY <1>0, <2>1, <2>3
  <2>6. Removed' = Removed BY <2>5 DEF Removed
  <2>. QED BY <1>0, <2>1, <2>4, <2>6 DEF Bounded, Setbacks
<1>5. ASSUME NEW c \in Cids, NEW row, Started(row, c) PROVE Bounded'
  BY <1>1, <1>5 DEF Started
<1>6. ASSUME NEW c \in Cids, NEW reply \in Knows(c) \cup {None}, NEW row, Accepted(row, c, reply) PROVE Bounded'
  BY <1>1, <1>6 DEF Accepted
<1>7. CASE UNCHANGED vars BY <1>1, <1>7 DEF vars
<1>8. Change BY EveryChange
<1>. QED BY <1>2, <1>3, <1>4, <1>5, <1>6, <1>7, <1>8 DEF Change

-----------------------------------------------------------------------------
(* The inductive invariant *)

IInv == Shapes /\ Sound /\ Bounded

LEMMA InitIInv == Init => IInv
<1>. SUFFICES ASSUME Init PROVE IInv
  OBVIOUS
<1>1. /\ active = Cids /\ number = [c \in Cids |-> 1] /\ items = <<>> /\ results = {} /\ failed = {}
      /\ wires = [c \in Cids |-> <<>>] /\ MaxItems \in Nat /\ MaxSetbacks \in Nat
  BY ThreadConstants DEF Init
<1>2. Items = {} /\ Len(items) = 0 /\ \A c \in Cids : Knows(c) = {} BY <1>1 DEF Items, Knows
<1>3. Shapes
  <2>1. items \in Seq(ItemType) /\ wires \in [Cids -> Seq(WireType)] BY <1>1
  <2>2. number \in [Cids -> Nat \ {0}] BY <1>1
  <2>. QED BY <1>1, <1>2, <2>1, <2>2 DEF Shapes
<1>4. Sound BY <1>1, <1>2 DEF Sound, Faithful
<1>5. Removed = {} BY <1>1 DEF Removed
<1>6. Bounded
  <2>1. IsFiniteSet({}) /\ Cardinality({}) = 0 BY FS_EmptySet
  <2>2. Setbacks = 0 BY <1>1, <1>5, <2>1 DEF Setbacks
  <2>3. \A c \in Cids : number[c] <= MaxSetbacks + 1 BY <1>1
  <2>. QED BY <1>1, <1>5, <2>1, <2>2, <2>3 DEF Bounded
<1>. QED BY <1>3, <1>4, <1>6 DEF IInv

LEMMA NextIInv == IInv /\ [Next]_vars => IInv'
BY ShapesKept, SoundKept, BoundedKept DEF IInv

LEMMA Invariance == Spec => []IInv
BY InitIInv, NextIInv, PTL DEF Spec

-----------------------------------------------------------------------------
(* The theorems *)

LEMMA Typed == IInv => TypeOK
<1>. SUFFICES ASSUME IInv PROVE TypeOK
  OBVIOUS
<1>0. Shapes /\ Sound /\ Faithful /\ Bounded BY DEF IInv, Sound
<1>1. /\ Len(items) \in Nat /\ Items = 1..Len(items) /\ MaxSetbacks \in Nat
      /\ \A c \in Cids : Len(wires[c]) \in Nat /\ Knows(c) = 1..Len(wires[c])
      /\ active \subseteq Cids /\ failed \subseteq Items
  BY <1>0, Rows, ThreadConstants DEF Shapes
<1>2. number \in [Cids -> 1..(MaxSetbacks + 1)]
  <2>1. number \in [Cids -> Nat \ {0}] /\ \A c \in Cids : number[c] <= MaxSetbacks + 1
    BY <1>0 DEF Shapes, Bounded
  <2>2. \A c \in Cids : number[c] \in 1..(MaxSetbacks + 1) BY <1>1, <2>1
  <2>. QED BY <2>1, <2>2
<1>3. ASSUME NEW i \in Items
      PROVE  /\ items[i].kind \in {"message", "file"} /\ items[i].author \in Cids
             /\ items[i].by \in 1..number[items[i].author] /\ items[i].to \subseteq Cids
             /\ {items[i].scope, items[i].parent} \subseteq 0..i
             /\ {items[i].source, items[i].reply} \subseteq 0..Len(wires[items[i].author])
             /\ items[i].members \subseteq Cids \X (1..(MaxSetbacks + 1)) /\ items[i].key \in Keys \cup {None}
  <2>. DEFINE t == items[i]
  <2>1. t \in ItemType BY <1>0, <1>3, Rows
  <2>2. RowOK(i) /\ SourceOK(i) BY <1>0, <1>3 DEF Sound, Faithful
  <2>3. t.scope \in 0..i /\ t.parent \in 0..i BY <1>0, <1>3, Scopes
  <2>4. t.source \in 0..Len(wires[t.author])
    BY <1>1, <2>1, <2>2 DEF SourceOK, ItemType, None
  <2>5. t.reply \in 0..Len(wires[t.author])
    BY <1>1, <2>1, <2>2 DEF RowOK, ItemType, None
  <2>6. \A m \in t.members : m \in Cids \X (1..(MaxSetbacks + 1))
    <3>1. SUFFICES ASSUME NEW m \in t.members PROVE m \in Cids \X (1..(MaxSetbacks + 1))
      OBVIOUS
    <3>2. m \in Cids \X Nat BY <2>1 DEF ItemType
    <3>3. m[1] \in Cids /\ m = <<m[1], m[2]>> BY <3>2
    <3>4. m[2] \in 1..number[m[1]] BY <2>2 DEF RowOK
    <3>5. number[m[1]] \in 1..(MaxSetbacks + 1) BY <1>2, <3>3
    <3>6. m[2] \in 1..(MaxSetbacks + 1) BY <1>1, <3>4, <3>5
    <3>. QED BY <3>3, <3>6
  <2>7. t.by \in 1..number[t.author] BY <2>2 DEF RowOK
  <2>. QED BY <2>1, <2>3, <2>4, <2>5, <2>6, <2>7 DEF ItemType
<1>4. ASSUME NEW r \in results
      PROVE  /\ r.item \in Items /\ r.to \in Cids /\ ToSet(r.wires) \subseteq Knows(r.to)
             /\ r.status \in {"queued", "send_failed", "skipped_removed", "skipped_reply_unavailable"}
             /\ \A s \in results : s.item = r.item /\ s.to = r.to => s = r
  <2>1. r \in ResultType BY <1>0, Rows
  <2>2. ResultOK(r) BY <1>0 DEF Faithful
  <2>. QED BY <2>1, <2>2 DEF ResultType, ResultOK, Statuses
<1>5. \A c \in Cids : \A w \in Knows(c) : wires[c][w].item \in Items BY <1>0 DEF Sound, WireOK
<1>. QED BY <1>1, <1>2, <1>3, <1>4, <1>5 DEF TypeOK

(* Every row, result and wire has the shape the code saves it in, references only what *)
(* is there, and an intent is concluded once, in every reachable state.                *)
THEOREM TypeCorrect == Spec => []TypeOK
BY Invariance, Typed, PTL

LEMMA Private == IInv => ThreadsStayPrivate
<1>. SUFFICES ASSUME IInv PROVE ThreadsStayPrivate
  OBVIOUS
<1>. DEFINE PrivateTo(i, seat) == Belongs[i] # None => seat \in items[Belongs[i]].members
<1>0. Shapes /\ Sound BY DEF IInv
<1>1. \A i \in Items : Association[i] = items[i].scope /\ Belongs[i] = items[i].scope
  BY <1>0, Classified, Belonging
<1>2. ASSUME NEW c \in Cids, NEW w \in Knows(c) PROVE PrivateTo(wires[c][w].item, <<c, wires[c][w].seat>>)
  <2>1. WireOK(c, w) BY <1>0 DEF Sound
  <2>. QED BY <1>1, <2>1 DEF WireOK
<1>3. ASSUME NEW c \in Cids, NEW i \in Reads(c) PROVE PrivateTo(i, Seat(c))
  <2>1. i \in Items /\ (Association[i] = Ordinary \/ ActiveThreadSeat(Association[i], c)) BY DEF Reads
  <2>. QED BY <1>1, <2>1 DEF ActiveThreadSeat, Ordinary, None
<1>. QED BY <1>2, <1>3 DEF ThreadsStayPrivate

(* Whatever is lost, removed or readmitted, everything said in a thread is sent, taken *)
(* and shown only by and to the very seats it was started for (threads.ts:84, :211).   *)
THEOREM ThreadsStayPrivateAlways == Spec => []ThreadsStayPrivate
BY Invariance, Private, PTL

LEMMA Parented == IInv => RepliesKeepTheirParent
<1>. SUFFICES ASSUME IInv PROVE RepliesKeepTheirParent
  OBVIOUS
<1>0. Shapes /\ Sound /\ Faithful BY DEF IInv, Sound
<1>1. ASSUME NEW c \in Cids, NEW w \in Knows(c), wires[c][w].copy
      PROVE  LET copy == wires[c][w] IN
             /\ copy.link # None => copy.link \in Knows(c) /\ wires[c][copy.link].item = Meant(copy.item)
             /\ Belongs[copy.item] \notin {None, copy.item} => copy.link # None
  <2>1. WireOK(c, w) BY <1>0 DEF Sound
  <2>2. Belongs[wires[c][w].item] = items[wires[c][w].item].scope BY <1>0, <2>1, Belonging DEF WireOK
  <2>. QED BY <1>1, <2>1, <2>2 DEF WireOK
<1>2. ASSUME NEW r \in results, r.status = "queued", NEW w \in ToSet(r.wires)
      PROVE  Resolve(w, r.to, Len(items) + 1) = wires[r.to][w].item
  <2>1. ResultOK(r) /\ r \in ResultType BY <1>0, Rows DEF Faithful
  <2>2. r.item \in Items /\ r.to \in items[r.item].to /\ w \in Knows(r.to) /\ wires[r.to][w].item = r.item
        /\ r.to \in Cids
    BY <1>2, <2>1 DEF ResultOK, ResultType
  <2>3. w \in Nat \ {0} /\ Len(items) + 1 \in Nat /\ r.item < Len(items) + 1 BY <1>0, <2>2, Rows
  <2>4. r.item \in OwnersFor(w, r.to) BY <1>2, <2>2, Naming DEF NamedBy
  <2>5. \A i \in OwnersFor(w, r.to) : i = r.item BY <1>0, <2>2, <2>3, Named DEF WiresName
  <2>6. OwnersFor(w, r.to) = {r.item} BY <2>4, <2>5
  <2>. QED BY <1>0, <2>2, <2>3, <2>6, Resolved DEF None
<1>. QED BY <1>1, <1>2 DEF RepliesKeepTheirParent

(* Every copy links to its own recipient's copy of what the author replied to, and a     *)
(* recorded wire names what was sent under it, however the archive has grown since       *)
(* (reply-threading.ts:68, :87).                                                         *)
THEOREM RepliesKeepTheirParentAlways == Spec => []RepliesKeepTheirParent
BY Invariance, Parented, PTL

(* Both parts of HistoryIsStable under the invariant. *)
SeenIsRead ==
  \A c \in active : {i \in Items : Message(i) /\ \E w \in Knows(c) :
                      wires[c][w].item = i /\ wires[c][w].seat = number[c]} \subseteq Reads(c)
LEMMA Seen == IInv => SeenIsRead
<1>. SUFFICES ASSUME IInv, NEW c \in active, NEW i \in Items, Message(i),
                     NEW w \in Knows(c), wires[c][w].item = i, wires[c][w].seat = number[c]
     PROVE  i \in Reads(c)
  BY DEF SeenIsRead
<1>1. Shapes /\ Sound /\ c \in Cids /\ MaxItems \in Nat BY ThreadConstants DEF IInv, Shapes
<1>2. WireOK(c, w) /\ Association[i] = items[i].scope BY <1>1, Classified DEF Sound
<1>3. items[i].scope \in 0..i /\ i \in 1..Len(items) /\ Len(items) \in Nat /\ Len(items) <= MaxItems
  BY <1>1, Scopes, Rows DEF Shapes
<1>4. items[i].scope # Broken BY <1>1, <1>3 DEF Broken
<1>. QED BY <1>2, <1>4 DEF Reads, WireOK, ActiveThreadSeat, Seat, Ordinary, None

ScopeIs == \A i \in Items : Association[i] = items[i].scope
LEMMA Reclassified == IInv /\ [Next]_vars => [\A i \in Items : Association[i]' = Association[i]]_vars
<1>1. IInv => ScopeIs BY Classified DEF IInv, ScopeIs
<1>2. IInv' => ScopeIs' BY <1>1, PTL
<1>3. ASSUME IInv, [Next]_vars PROVE \A i \in Items : Association[i]' = Association[i]
  <2>1. IInv' /\ Grows BY <1>3, NextIInv, ShapesKept DEF IInv
  <2>2. ScopeIs /\ ScopeIs' BY <1>1, <1>2, <1>3, <2>1
  <2>. QED BY <2>1, <2>2 DEF ScopeIs, Grows
<1>. QED BY <1>3

(* What a participant pages through never changes under it: every item is classified  *)
(* anew from the rows of the day and always as at first, and a seat reads every message *)
(* that it sent or was sent (thread-history.ts:102).                                  *)
THEOREM HistoryStaysStable == Spec => HistoryIsStable
<1>1. Spec => []IInv /\ [][Next]_vars BY Invariance, PTL DEF Spec
<1>2. IInv /\ [Next]_vars => [\A i \in Items : Association[i]' = Association[i]]_vars BY Reclassified
<1>3. IInv => SeenIsRead BY Seen
<1>4. Spec => [][\A i \in Items : Association[i]' = Association[i]]_vars BY <1>1, <1>2, PTL
<1>5. Spec => []SeenIsRead BY <1>1, <1>3, PTL
<1>. QED BY <1>4, <1>5, PTL DEF HistoryIsStable, SeenIsRead
=============================================================================

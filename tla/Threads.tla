------------------------------- MODULE Threads -------------------------------
(***************************************************************************)
(* Replies, scoped threads and participant history (src/threads.ts,        *)
(* src/reply-threading.ts, src/thread-history.ts) over the archive of one  *)
(* room.  Transport gives every message a wire ID in the namespace of the  *)
(* participant who sent or received it, so one item has another wire for   *)
(* every reader.  All a reply says is a wire of its sender; the room finds *)
(* the item behind it, the thread that item belongs to and, for every      *)
(* recipient, the wire of that recipient's own copy.  Nothing but archived *)
(* rows tells it: a copy whose wire was lost before its result was saved   *)
(* is unknown forever.                                                     *)
(*                                                                         *)
(* Wires are numbered by participant from 1, so that a wire used in the    *)
(* wrong namespace usually names another item.  Intents are the recipients *)
(* of an item without a result: module RoomRelay shows that the archive    *)
(* has exactly one for each.                                               *)
(***************************************************************************)
EXTENDS Naturals, SequencesExt, FiniteSets

CONSTANTS
  Cids,      \* identities of the participants
  Keys,      \* idempotency keys of start_thread
  Anonymous, \* whether participants are shown under the alias of their seat
  MaxItems,  \* bound on archived messages and files
  MaxSetbacks  \* bound on seats removed and items whose relay fails

ASSUME ThreadConstants ==
  /\ Cids # {} /\ 0 \notin Cids /\ Keys # {} /\ 0 \notin Keys /\ Anonymous \in BOOLEAN
  /\ MaxItems \in Nat /\ MaxSetbacks \in Nat

VARIABLES
  active,   \* identities with an active seat
  number,   \* identity -> number of its latest seat
  items,    \* the message and file rows, in archive order
  results,  \* the relay_result rows
  wires,    \* identity -> what each wire of its namespace stands for
  failed    \* items whose relay has failed

vars == <<active, number, items, results, wires, failed>>

None == 0
Items == DOMAIN items
Seat(c) == <<c, number[c]>>   \* a participant ID, paired with its CID
Message(i) == items[i].kind = "message"
IsRoot(i) == items[i].members # {}
(* The seats that were removed: every earlier one, and the latest of who is out. *)
Removed ==
  {s \in Cids \X (1..(MaxSetbacks + 1)) :
     s[2] < number[s[1]] \/ (s[2] = number[s[1]] /\ s[1] \notin active)}
Setbacks == Cardinality(failed) + Cardinality(Removed)

(* An item is kept with the number of the seat that wrote it (by), the     *)
(* reference its sender gave (reply) and the wire it arrived under         *)
(* (source).  A thread root has members, every scoped item the root it     *)
(* belongs to and, unless it is the root, its parent.                      *)
Item(kind, author, to, source, reply) ==
  [kind |-> kind, author |-> author, by |-> number[author], to |-> to, source |-> source, reply |-> reply,
   scope |-> None, parent |-> None, members |-> {}, key |-> None]

-----------------------------------------------------------------------------
(* Resolving a wire and mapping a parent *)

Queued(i, c) ==
  {r \in results : r.item = i /\ r.to = c /\ r.status = "queued" /\ c \in items[i].to}
Aliases(i, c) == UNION {ToSet(r.wires) : r \in Queued(i, c)}
(* Fault: the namespace of the wire is not looked at. *)
OwnersAnywhere(w, c) ==
  {i \in Items : items[i].source = w \/ \E d \in Cids : w \in Aliases(i, d)}
OwnersFor(w, c) ==
  {i \in Items : \/ items[i].author = c /\ items[i].source = w
                 \/ w \in Aliases(i, c)}
(* The one item before row n that wire w of c names, if there is one. *)
Resolve(w, c, n) ==
  LET owners == IF w = None THEN {} ELSE OwnersFor(w, c)
  IN  IF Cardinality(owners) = 1 /\ \A i \in owners : i < n
      THEN CHOOSE i \in owners : TRUE ELSE None

(* Fault: the author's own wire is passed on. *)
TheAuthorsWire(i, c) ==
  IF items[i].source # None THEN items[i].source
  ELSE LET copies == {r \in Queued(i, c) : r.wires # <<>>}
       IN  IF copies = {} THEN None ELSE Head((CHOOSE r \in copies : TRUE).wires)
(* The wire under which c knows the item: its own source if c wrote it,    *)
(* else the first recorded wire of a copy, provided it names nothing else. *)
MapParent(i, c) ==
  LET own == items[i].author = c /\ items[i].source # None /\ OwnersFor(items[i].source, c) = {i}
      copies == {r \in Queued(i, c) : r.wires # <<>>}
      wire == CASE own -> items[i].source
                [] ~own /\ copies # {} -> Head((CHOOSE r \in copies : TRUE).wires)
                [] OTHER -> None
  IN  IF wire # None /\ OwnersFor(wire, c) = {i} THEN wire ELSE None

SelectReply(i, c) ==
  LET p == Resolve(items[i].reply, items[i].author, i)
  IN  IF p = None THEN None ELSE MapParent(p, c)

-----------------------------------------------------------------------------
(* The thread an item belongs to, from saved rows only *)

Ordinary == 0
Broken == MaxItems + 1
Declared(i) == items[i].scope # None
MemberCids(r) == {m[1] : m \in items[r].members}
(* In an anonymous room an author is shown by the alias saved with the item *)
(* and never by its identity: the alias must be a selected seat's.          *)
PublicThreadAuthor(i, r) ==
  items[i].author \in MemberCids(r) /\ (Anonymous => <<items[i].author, items[i].by>> \in items[r].members)
PublicThreadMetadata(r) == Anonymous => <<items[r].author, items[r].by>> \in items[r].members
RootIsSound(r) ==
  /\ IsRoot(r) /\ items[r].scope = r /\ items[r].parent = None
  /\ items[r].source = None /\ items[r].reply = None
(* Ancestry is walked in each author's namespace and checked from the      *)
(* oldest ancestor on: nothing under a scoped item is ordinary.            *)
Association[i \in Items] ==
  LET p == Resolve(items[i].reply, items[i].author, i)
      above == IF p = None THEN Ordinary ELSE Association[p]
      r == items[i].scope
  IN  CASE above = Broken -> Broken
        [] above = Ordinary /\ ~Declared(i) -> Ordinary
        [] OTHER ->
             IF /\ Message(i) /\ Declared(i) /\ RootIsSound(r)
                /\ PublicThreadMetadata(r) /\ PublicThreadAuthor(i, r)
                /\ i # r => r < i /\ p # None /\ items[i].parent = p /\ above = r
             THEN r ELSE Broken

(* A member is a seat: the same identity under a later seat is none. *)
(* Fault: the participant ID is not compared. *)
AnySeatOfMember(r, c) == c \in active /\ c \in MemberCids(r)
ActiveThreadSeat(r, c) == c \in active /\ Seat(c) \in items[r].members

-----------------------------------------------------------------------------
(* Intake and start_thread *)

Init ==
  /\ active = Cids /\ number = [c \in Cids |-> 1]
  /\ items = <<>> /\ results = {} /\ failed = {}
  /\ wires = [c \in Cids |-> <<>>]

Knows(c) == DOMAIN wires[c]
Stands(i, seat, link, copy) == [item |-> i, seat |-> seat, link |-> link, copy |-> copy]

SelectThreadMembers(c, members) == members \subseteq active /\ c \in members
(* A repeated request finds its root and changes nothing. *)
StartThread(c, k, members) ==
  /\ c \in active /\ Len(items) < MaxItems
  /\ ~\E i \in Items : IsRoot(i) /\ items[i].author = c /\ items[i].key = k
  /\ SelectThreadMembers(c, members)
  /\ LET root == [Item("message", c, members, None, None) EXCEPT
                    !.scope = Len(items) + 1, !.members = {Seat(m) : m \in members}, !.key = k]
     IN  items' = Append(items, root)
  /\ UNCHANGED <<active, number, results, wires, failed>>

(* What is refused is recorded without its content and reaches nobody.     *)
(* The reference is to any wire its sender was given, whoever held the     *)
(* seat then.                                                              *)
Intake(c, kind, reply) ==
  LET i == Len(items) + 1
      p == Resolve(reply, c, i)
      r == Association[p]
      item == Item(kind, c, active \ {c}, Len(wires[c]) + 1, reply)
      scoped == [item EXCEPT !.to = {m \in MemberCids(r) \ {c} : ActiveThreadSeat(r, m)},
                             !.scope = r, !.parent = p]
      Accept(row) ==
        /\ items' = Append(items, row)
        /\ wires' = [wires EXCEPT ![c] = Append(@, Stands(i, number[c], reply, FALSE))]
  IN  /\ c \in active /\ i <= MaxItems
      /\ IF reply = None THEN Accept(item)
         ELSE /\ p # None /\ r # Broken
              /\ IF r = Ordinary THEN Accept(item)
                 ELSE ActiveThreadSeat(r, c) /\ kind = "message" /\ Accept(scoped)
      /\ UNCHANGED <<active, number, results, failed>>

-----------------------------------------------------------------------------
(* The relay *)

(* Fault: a refused send is attempted again. *)
RefusedIsPending(i) ==
  {c \in items[i].to : ~\E r \in results : r.item = i /\ r.to = c /\ r.status # "send_failed"}
Pending(i) == {c \in items[i].to : ~\E r \in results : r.item = i /\ r.to = c}

(* Whether the item, of thread r if it is scoped, may go to c.  An         *)
(* ordinary reply goes without a link where c has no known copy of the     *)
(* parent; a scoped one does not go.                                       *)
MayGo(i, r, c) ==
  IF r = Ordinary THEN c \in active
  ELSE r # Broken /\ c \in MemberCids(r) /\ ActiveThreadSeat(r, c) /\ (i = r \/ SelectReply(i, c) # None)
SkippedAs(r, c) ==
  IF r = Ordinary \/ (r # Broken /\ c \in MemberCids(r) /\ ~ActiveThreadSeat(r, c))
  THEN "skipped_removed" ELSE "skipped_reply_unavailable"

(* How a send ends: the copies that reach the recipient, the status saved  *)
(* and which copies' wires are saved with it.  A message is one copy, a    *)
(* file its notice (1) and the binary (2).                                 *)
Ends(copies, status, saved) == [copies |-> copies, status |-> status, saved |-> saved]
NotReached == Ends(0, "none", <<>>)   \* the pass died first
Sent(kind) == IF kind = "message" THEN Ends(1, "queued", <<1>>) ELSE Ends(2, "queued", <<2, 1>>)
Failures(kind) ==
  {NotReached, Ends(0, "send_failed", <<>>),
   Ends(1, "none", <<>>)}             \* thrown after it was accepted
  \cup (IF kind = "message" THEN {Ends(1, "queued", <<>>)}
        ELSE {Ends(1, "send_failed", <<1>>), Ends(2, "none", <<>>), Ends(2, "queued", <<1>>)})

(* The pass holds the room for all recipients of an item, and no result of *)
(* one bears on another: they are one step.  The failing ones fail alike.  *)
(* A pass goes up the archive, past what failed.                           *)
Relay(i, failing, failure) ==
  LET r == Association[i]
      end == [c \in Cids |-> IF c \in failing THEN failure ELSE Sent(items[i].kind)]
      reached == {c \in Pending(i) : end[c] # NotReached}
      sends == {c \in reached : MayGo(i, r, c)}
      Copy(c) == Stands(i, number[c], SelectReply(i, c), TRUE)
      Wires(c) == [n \in DOMAIN end[c].saved |-> Len(wires[c]) + end[c].saved[n]]
      Result(c, status, saved) == [item |-> i, to |-> c, status |-> status, wires |-> saved]
  IN  /\ reached # {}
      /\ \A j \in Items : j < i => j \in failed \/ Pending(j) = {}
      /\ failing # {} => i \notin failed /\ Setbacks < MaxSetbacks
      /\ failed' = (IF failing = {} THEN failed ELSE failed \cup {i})
      /\ wires' = [c \in Cids |->
                     wires[c] \o [n \in 1..(IF c \in sends THEN end[c].copies ELSE 0) |-> Copy(c)]]
      /\ results' = results
           \cup {Result(c, end[c].status, Wires(c)) : c \in {d \in sends : end[d].status # "none"}}
           \cup {Result(c, SkippedAs(r, c), <<>>) : c \in reached \ sends}
      /\ UNCHANGED <<active, number, items>>

-----------------------------------------------------------------------------
(* Membership and history *)

RemoveMember(c) ==
  /\ c \in active /\ Setbacks < MaxSetbacks
  /\ active' = active \ {c}
  /\ UNCHANGED <<number, items, results, wires, failed>>
(* A new invite admits the identity to a new seat. *)
Readmit(c) ==
  /\ c \notin active
  /\ active' = active \cup {c} /\ number' = [number EXCEPT ![c] = @ + 1]
  /\ UNCHANGED <<items, results, wires, failed>>

(* What an active participant reads, each message under its position among *)
(* those visible to it.                                                    *)
Reads(c) ==
  {i \in Items : Message(i) /\ LET r == Association[i]
                              IN  r = Ordinary \/ (r # Broken /\ ActiveThreadSeat(r, c))}

Next ==
  \/ \E c \in Cids, k \in Keys, members \in SUBSET Cids : StartThread(c, k, members)
  \/ \E c \in Cids, kind \in {"message", "file"} : \E reply \in Knows(c) \cup {None} : Intake(c, kind, reply)
  \/ \E i \in Items : \/ Relay(i, {}, NotReached)
                      \/ \E failing \in SUBSET Pending(i) \ {{}}, failure \in Failures(items[i].kind) :
                           Relay(i, failing, failure)
  \/ \E c \in Cids : RemoveMember(c) \/ Readmit(c)

Spec == Init /\ [][Next]_vars

-----------------------------------------------------------------------------
(* Properties *)

(* Every variable has the shape of the rows the code saves; an intent is   *)
(* concluded once.                                                         *)
TypeOK ==
  /\ active \subseteq Cids /\ number \in [Cids -> 1..(MaxSetbacks + 1)] /\ failed \subseteq Items
  /\ \A i \in Items :
       /\ items[i].kind \in {"message", "file"} /\ items[i].author \in Cids
       /\ items[i].by \in 1..number[items[i].author] /\ items[i].to \subseteq Cids
       /\ {items[i].scope, items[i].parent} \subseteq 0..i
       /\ {items[i].source, items[i].reply} \subseteq 0..Len(wires[items[i].author])
       /\ items[i].members \subseteq Cids \X (1..(MaxSetbacks + 1)) /\ items[i].key \in Keys \cup {None}
  /\ \A r \in results :
       /\ r.item \in Items /\ r.to \in Cids /\ ToSet(r.wires) \subseteq Knows(r.to)
       /\ r.status \in {"queued", "send_failed", "skipped_removed", "skipped_reply_unavailable"}
       /\ \A s \in results : s.item = r.item /\ s.to = r.to => s = r
  /\ \A c \in Cids : \A w \in Knows(c) : wires[c][w].item \in Items

(* What its author replied to, and the thread that makes it part of. *)
Meant(i) == IF items[i].reply = None THEN None ELSE wires[items[i].author][items[i].reply].item
Belongs[i \in Items] == IF IsRoot(i) THEN i ELSE IF Meant(i) = None THEN None ELSE Belongs[Meant(i)]

(* What is said in a thread stays in it, whoever is removed or readmitted  *)
(* and whichever wires were lost: every copy and every accepted reply is   *)
(* of a seat selected when the thread started (threads.ts:84, :211;        *)
(* intake.ts:644), never of a later seat of the same identity, and no      *)
(* history shows it to another.                                            *)
ThreadsStayPrivate ==
  LET PrivateTo(i, seat) == Belongs[i] # None => seat \in items[Belongs[i]].members
  IN  \A c \in Cids :
        /\ \A w \in Knows(c) : PrivateTo(wires[c][w].item, <<c, wires[c][w].seat>>)
        /\ c \in active => \A i \in Reads(c) : PrivateTo(i, Seat(c))

(* A reply keeps its parent: every copy links, in its recipient's          *)
(* namespace, to that recipient's copy of what the author replied to       *)
(* (reply-threading.ts:87), a scoped one always links, and a wire the room *)
(* recorded names what its holder was sent under it, however the archive   *)
(* grows (reply-threading.ts:68).                                          *)
RepliesKeepTheirParent ==
  /\ \A c \in Cids : \A w \in Knows(c) :
       LET copy == wires[c][w] IN
       copy.copy =>
         /\ copy.link # None => copy.link \in Knows(c) /\ wires[c][copy.link].item = Meant(copy.item)
         /\ Belongs[copy.item] \notin {None, copy.item} => copy.link # None
  /\ \A r \in results : r.status = "queued" =>
       \A w \in ToSet(r.wires) : Resolve(w, r.to, Len(items) + 1) = wires[r.to][w].item

(* A participant pages through its history by how many messages it has     *)
(* seen (thread-history.ts:102).  What it reads only grows at the end while *)
(* it keeps its seat: an item is classified anew for every page from all   *)
(* rows there are by then, and always as at first.  It reads every message *)
(* that seat was sent or sent.                                             *)
HistoryIsStable ==
  /\ [][\A i \in Items : Association[i]' = Association[i]]_vars
  /\ [](\A c \in active : {i \in Items : Message(i) /\ \E w \in Knows(c) :
                            wires[c][w].item = i /\ wires[c][w].seat = number[c]} \subseteq Reads(c))
==============================================================================

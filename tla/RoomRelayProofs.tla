--------------------------- MODULE RoomRelayProofs ---------------------------
(* Theorems about RoomRelay, for every choice of its constants: its types, *)
(* the archive that the intake, its replays and the relay add up to, what  *)
(* a room reads and what leaves it, and that it implements RoomDelivery.   *)
EXTENDS RoomRelay, TLAPS, WellFoundedInduction

Smaller == {p \in Nat \X Nat : p[1] < p[2]}

(* The least element of a nonempty set of naturals is one of them: every   *)
(* "oldest row" and "first pending intent" of the model exists.            *)
LEMMA LeastIn ==
  ASSUME NEW S \in SUBSET Nat, S # {}
  PROVE  Least(S) \in S /\ \A m \in S : Least(S) <= m
<1>1. IsWellFoundedOn(Smaller, Nat)
  BY NatLessThanWellFounded DEF OpToRel, Smaller
<1>2. PICK x \in S : \A y \in S : <<y, x>> \notin Smaller
  BY <1>1, WFMin
<1>3. ASSUME NEW y \in S PROVE x <= y
  <2>1. x \in Nat /\ y \in Nat /\ <<y, x>> \notin Smaller
    BY <1>2
  <2>2. y < x => <<y, x>> \in Smaller
    BY <2>1 DEF Smaller
  <2>. QED
    BY <2>1, <2>2
<1>. QED
  BY <1>3 DEF Least

-----------------------------------------------------------------------------
(* The inductive invariant beside TypeOK.                                  *)

(* The item under persistence is a message or a file of the inbox, and the *)
(* intent being sent has no result yet.                                    *)
Pumping ==
  /\ \A i \in pump.msgs : Kind[i] = "message"
  /\ \A i \in pump.files : Kind[i] = "file"
  /\ pump.pc \in {"persist", "fan", "notice", "bounce", "ackfile"} =>
       pump.item \in Items /\ Kind[pump.item] \in {"message", "file"}
  /\ pump.pc \in {"sendnotice", "send", "result"} => pump.at \in Unresolved
  /\ pump.pc = "result" => pump.status # "none"

(* What the pump is still to journal is in the work table.                 *)
Fanning ==
  pump.pc = "fan" => \E k \in Archived(pump.item) : \A c \in pump.todo : <<k, c>> \in work

(* The room mutex has one holder, and what a post is still to journal is   *)
(* in the work table.                                                      *)
Posting ==
  poster # NoPost =>
    /\ pump.pc \notin LockedSteps /\ poster.seq \in DOMAIN archive /\ IsContent(poster.seq)
    /\ \A c \in poster.todo : <<poster.seq, c>> \in work

(* Only content has recipients to journal.                                 *)
WorkOfContent == \A w \in work : IsContent(w[1])

Control == Pumping /\ Fanning /\ Posting /\ WorkOfContent

(* What one step of the whole system can do to the archive and the work    *)
(* table: the five appends of storage.ts, each with what its caller knows. *)
ArchiveStep ==
  \/ UNCHANGED <<archive, work>>
  \/ \E kind \in {"message", "file"}, s \in Sources, to \in SUBSET ActiveCids :
       SeqsOf(s) = {} /\ AppendContent(kind, s, to)
  \/ \E k \in DOMAIN archive, c \in Cids :
       <<k, c>> \in work /\ IsContent(k) /\ AppendIntent(archive[k].src, c)
  \/ \E n \in Unresolved, status \in {"queued", "send_failed", "skipped_removed"} :
       AppendOther(Result(n, status))
  \/ \E s \in Sources : SeqsOf(s) = {} /\ AppendOther(Rejection(s))

(* The rows of the inbox are naturals, so the oldest of them exists.       *)
LEMMA OldestRow ==
  ASSUME NEW kinds, Unread(kinds) # {}
  PROVE  Least(Unread(kinds)) \in Items /\ Kind[Least(Unread(kinds))] \in kinds
<1>1. Unread(kinds) \in SUBSET Nat
  BY RelayConstants DEF Unread
<1>. QED
  BY <1>1, LeastIn DEF Unread

(* The shape of the state after a record is appended.                      *)
LEMMA AppendShape ==
  ASSUME NEW S, NEW s \in Seq(S), NEW r \in S
  PROVE  /\ Append(s, r) \in Seq(S)
         /\ DOMAIN s = 1..Len(s) /\ Len(s) \in Nat
         /\ DOMAIN Append(s, r) = 1..(Len(s) + 1)
         /\ \A n \in DOMAIN s : n \in DOMAIN Append(s, r) /\ Append(s, r)[n] = s[n]
         /\ Append(s, r)[Len(s) + 1] = r
  OBVIOUS

LEMMA ListedSeq ==
  ASSUME NEW T, NEW n \in Nat, NEW f \in [1..n -> T]
  PROVE  f \in Seq(T)
  OBVIOUS

LEMMA UpdatedSeq ==
  ASSUME NEW T, NEW s \in Seq(T), NEW k, NEW r, k \in DOMAIN s => r \in T
  PROVE  [s EXCEPT ![k] = r] \in Seq(T)
<1>1. Len(s) \in Nat /\ DOMAIN s = 1..Len(s) /\ s \in [1..Len(s) -> T]
  OBVIOUS
<1>2. [s EXCEPT ![k] = r] \in [1..Len(s) -> T]
  BY <1>1
<1>. QED
  BY <1>1, <1>2, ListedSeq

LEMMA SeatTyped ==
  ASSUME TypeOK, NEW k \in DOMAIN room.seats
  PROVE  room.seats[k] \in SeatType
<1>1. room.seats \in Seq(SeatType)
  BY DEF TypeOK, RoomType
<1>. QED
  BY <1>1

LEMMA Roles ==
  ASSUME TypeOK
  PROVE  ActiveCids \subseteq Cids /\ RemovedCids \subseteq Cids
<1>1. \A k \in DOMAIN room.seats : room.seats[k].cid \in Cids
  BY SeatTyped DEF SeatType
<1>. QED
  BY <1>1 DEF ActiveCids, RemovedCids

(* A step of the archive appends at most one well-formed record, keeps     *)
(* every earlier one and leaves only content in the work table.            *)
LEMMA ArchiveGrows ==
  ASSUME TypeOK, WorkOfContent, ArchiveStep
  PROVE  /\ archive' \in Seq(ArchiveRecord)
         /\ work' \subseteq (DOMAIN archive') \X Cids
         /\ \A n \in DOMAIN archive : n \in DOMAIN archive' /\ archive'[n] = archive[n]
         /\ WorkOfContent'
<1>. DEFINE Grown(r) == archive' = Append(archive, r)
<1>0. archive \in Seq(ArchiveRecord) /\ work \subseteq (DOMAIN archive) \X Cids
  BY DEF TypeOK
<1>1. ASSUME NEW r \in ArchiveRecord, Grown(r)
      PROVE  /\ archive' \in Seq(ArchiveRecord)
             /\ DOMAIN archive = 1..Len(archive) /\ Len(archive) \in Nat
             /\ DOMAIN archive' = 1..(Len(archive) + 1)
             /\ \A n \in DOMAIN archive : n \in DOMAIN archive' /\ archive'[n] = archive[n]
             /\ archive'[Len(archive) + 1] = r
  BY <1>0, <1>1, AppendShape
<1>2. CASE UNCHANGED <<archive, work>>
  BY <1>0, <1>2 DEF WorkOfContent, IsContent
<1>3. ASSUME NEW kind \in {"message", "file"}, NEW s \in Sources, NEW to \in SUBSET Cids,
             AppendContent(kind, s, to)
      PROVE  /\ archive' \in Seq(ArchiveRecord)
             /\ work' \subseteq (DOMAIN archive') \X Cids
             /\ \A n \in DOMAIN archive : n \in DOMAIN archive' /\ archive'[n] = archive[n]
             /\ WorkOfContent'
  <2>1. Content(kind, s, to) \in ArchiveRecord /\ Content(kind, s, to).kind = kind
    BY DEF Content, Record, ArchiveRecord
  <2>2. Grown(Content(kind, s, to)) /\ work' = work \cup ({Len(archive) + 1} \X to)
    BY <1>3 DEF AppendContent
  <2>. QED
    BY <1>0, <1>1, <2>1, <2>2 DEF WorkOfContent, IsContent
<1>4. ASSUME NEW k \in DOMAIN archive, NEW c \in Cids, AppendIntent(archive[k].src, c)
      PROVE  /\ archive' \in Seq(ArchiveRecord)
             /\ work' \subseteq (DOMAIN archive') \X Cids
             /\ \A n \in DOMAIN archive : n \in DOMAIN archive' /\ archive'[n] = archive[n]
             /\ WorkOfContent'
  <2>1. archive[k] \in ArchiveRecord
    BY <1>0
  <2>2. Intent(archive[k].src, c) \in ArchiveRecord
    BY <2>1 DEF Intent, Record, ArchiveRecord
  <2>3. Grown(Intent(archive[k].src, c)) /\ work' \subseteq work
    BY <1>4 DEF AppendIntent
  <2>. QED
    BY <1>0, <1>1, <2>2, <2>3 DEF WorkOfContent, IsContent
<1>5. ASSUME NEW r \in ArchiveRecord, AppendOther(r)
      PROVE  /\ archive' \in Seq(ArchiveRecord)
             /\ work' \subseteq (DOMAIN archive') \X Cids
             /\ \A n \in DOMAIN archive : n \in DOMAIN archive' /\ archive'[n] = archive[n]
             /\ WorkOfContent'
  <2>1. Grown(r) /\ work' = work
    BY <1>5 DEF AppendOther
  <2>. QED
    BY <1>0, <1>1, <2>1 DEF WorkOfContent, IsContent
<1>6. \A n \in Unresolved, status \in {"queued", "send_failed", "skipped_removed"} :
        Result(n, status) \in ArchiveRecord
  <2>. SUFFICES ASSUME NEW n \in Unresolved,
                       NEW status \in {"queued", "send_failed", "skipped_removed"}
                PROVE  Result(n, status) \in ArchiveRecord
    OBVIOUS
  <2>1. n \in DOMAIN archive /\ n \in Nat /\ archive[n] \in ArchiveRecord
    BY <1>0 DEF Unresolved
  <2>. QED
    BY <2>1 DEF Result, Record, ArchiveRecord
<1>7. \A s \in Sources : Rejection(s) \in ArchiveRecord
  BY DEF Rejection, Record, ArchiveRecord
<1>. QED
  BY <1>2, <1>3, <1>4, <1>5, <1>6, <1>7, Roles DEF ArchiveStep

-----------------------------------------------------------------------------
(* Every step is an archive step: no handler appends a source twice, an    *)
(* intent that is not in the work table or a result for a resolved intent. *)

LEMMA NaturalSeqs ==
  ASSUME TypeOK
  PROVE  /\ DOMAIN archive = 1..Len(archive) /\ Len(archive) \in Nat
         /\ \A n \in DOMAIN archive : n \in Nat /\ archive[n] \in ArchiveRecord
         /\ Unresolved \subseteq DOMAIN archive
         /\ \A s : SeqsOf(s) \subseteq DOMAIN archive /\ Archived(s) \subseteq SeqsOf(s)
<1>1. archive \in Seq(ArchiveRecord)
  BY DEF TypeOK
<1>. QED
  BY <1>1 DEF Unresolved, SeqsOf, Archived

LEMMA WorkRow ==
  ASSUME TypeOK, NEW w \in work
  PROVE  w[1] \in DOMAIN archive /\ w[2] \in Cids /\ w = <<w[1], w[2]>>
  BY DEF TypeOK

LEMMA WorkPair ==
  ASSUME TypeOK, NEW k, NEW c, <<k, c>> \in work
  PROVE  k \in DOMAIN archive /\ c \in Cids
  BY DEF TypeOK

LEMMA EveryStepIsAnArchiveStep ==
  ASSUME TypeOK, Control, [Next]_vars
  PROVE  ArchiveStep
<1>0. /\ pump.pc \in {"persist", "fan"} => pump.item \in Sources /\ Kind[pump.item] \in {"message", "file"}
      /\ pump.pc \in {"sendnotice", "send", "result"} => pump.at \in Unresolved
      /\ pump.status \in {"none", "queued", "send_failed"}
  <2>1. pump.status \in {"none", "queued", "send_failed"}
    BY DEF TypeOK, PumpType
  <2>. QED
    BY <2>1 DEF Control, Pumping, Sources
<1>1. CASE PersistRejection
  BY <1>0, <1>1 DEF PersistRejection, Persist, ArchiveStep
<1>2. CASE PersistContent
  <2>1. Audience(pump.item) \in SUBSET ActiveCids
    BY DEF Audience
  <2>. QED
    BY <1>0, <1>2, <2>1 DEF PersistContent, Persist, ArchiveStep
<1>3. CASE FanOut
  <2>1. CASE pump.todo = {}
    BY <1>3, <2>1 DEF FanOut, ArchiveStep
  <2>2. ASSUME NEW c \in pump.todo, AppendIntent(pump.item, c), pump.pc = "fan" PROVE ArchiveStep
    <3>1. PICK k \in Archived(pump.item) : <<k, c>> \in work
      BY <2>2 DEF Control, Fanning
    <3>2. k \in DOMAIN archive /\ c \in Cids /\ IsContent(k) /\ archive[k].src = pump.item
      BY <3>1, WorkPair DEF Archived, SeqsOf
    <3>. QED
      BY <2>2, <3>1, <3>2 DEF ArchiveStep
  <2>. QED
    BY <1>3, <2>1, <2>2 DEF FanOut
<1>4. CASE CompleteIntents
  <2>1. CASE work = {}
    BY <1>4, <2>1 DEF CompleteIntents, ArchiveStep
  <2>2. CASE work # {}
    <3>. DEFINE k == Least({w[1] : w \in work})
    <3>1. {w[1] : w \in work} \subseteq DOMAIN archive /\ {w[1] : w \in work} # {}
      BY <2>2, WorkRow
    <3>2. k \in {w[1] : w \in work}
      BY <3>1, NaturalSeqs, LeastIn
    <3>3. PICK c \in NeedIntent(k) : AppendIntent(archive[k].src, c)
      BY <1>4, <2>2 DEF CompleteIntents
    <3>4. c \in Cids /\ <<k, c>> \in work
      BY <3>3, WorkRow DEF NeedIntent
    <3>5. k \in DOMAIN archive /\ IsContent(k)
      BY <3>1, <3>2, <3>4 DEF Control, WorkOfContent
    <3>. HIDE DEF k
    <3>. QED
      BY <3>3, <3>4, <3>5 DEF ArchiveStep
  <2>. QED
    BY <2>1, <2>2
<1>5. CASE RelaySkip
  <2>1. Pending # {} /\ Pending \subseteq Unresolved
    BY <1>5 DEF RelaySkip, Pending
  <2>2. Least(Pending) \in Unresolved
    BY <2>1, NaturalSeqs, LeastIn
  <2>. QED
    BY <1>5, <2>2 DEF RelaySkip, ArchiveStep
<1>6. CASE RecordResult
  <2>1. pump.status # "none"
    BY <1>6 DEF RecordResult, Control, Pumping
  <2>. QED
    BY <1>0, <1>6, <2>1 DEF RecordResult, ArchiveStep
<1>7. CASE \E p \in Posts : PostMessage(p)
  <2>1. PICK p \in Posts : PostMessage(p)
    BY <1>7
  <2>. QED
    BY <2>1 DEF PostMessage, ArchiveStep, Sources
<1>8. CASE PostIntent
  <2>1. PICK c \in poster.todo : AppendIntent(archive[poster.seq].src, c)
    BY <1>8 DEF PostIntent
  <2>2. poster.seq \in DOMAIN archive /\ IsContent(poster.seq) /\ <<poster.seq, c>> \in work
    BY <1>8 DEF PostIntent, Control, Posting
  <2>3. c \in Cids
    BY <2>2, WorkPair
  <2>. QED
    BY <2>1, <2>2, <2>3 DEF ArchiveStep
<1>9. ASSUME ~ PersistRejection, ~ PersistContent, ~ FanOut, ~ CompleteIntents, ~ RelaySkip,
             ~ RecordResult, ~ \E p \in Posts : PostMessage(p), ~ PostIntent
      PROVE  UNCHANGED <<archive, work>>
  <2>. USE DEF history, budget, world
  <2>1. Intake => UNCHANGED <<archive, work>>
    BY <1>9 DEF Intake, DrainLook, DrainPull, ListInbox, NextItem, PausePump, PersistRejectedReplay,
               PersistArchived, PersistIgnored, NoticeRefusal, NoticeBounce, AckFile, AckPull
  <2>2. Relay => UNCHANGED <<archive, work>>
    BY <1>9 DEF Relay, StartRelay, RelayPick, SendAnswered, RelayDone
  <2>3. Post => UNCHANGED <<archive, work>>
    BY <1>9 DEF Post, PostDone
  <2>4. Membership => UNCHANGED <<archive, work>>
    BY DEF Membership, Admit, Remove, Activate, BeginClose, FinishClose
  <2>5. Faults => UNCHANGED <<archive, work>>
    BY DEF Faults, SendThrows, PumpFails, PostFails, LifecycleFails, Crash
  <2>6. (\E i \in Items : Arrive(i)) \/ StartPump \/ UNCHANGED vars => UNCHANGED <<archive, work>>
    BY DEF Arrive, StartPump, vars
  <2>. QED
    BY <2>1, <2>2, <2>3, <2>4, <2>5, <2>6 DEF Next
<1>. QED
  BY <1>1, <1>2, <1>3, <1>4, <1>5, <1>6, <1>7, <1>8, <1>9 DEF ArchiveStep

-----------------------------------------------------------------------------
(* TypeOK and Control are inductive.                                       *)

LEMMA TypeInit == Init => TypeOK /\ Control
<1>. SUFFICES ASSUME Init PROVE TypeOK /\ Control
  OBVIOUS
<1>1. room.seats \in Seq(SeatType)
  <2>1. FirstSeats \in Seq(Cids)
    BY RelayConstants
  <2>2. Len(FirstSeats) \in Nat /\ FirstSeats \in [1..Len(FirstSeats) -> Cids]
    BY <2>1
  <2>3. room.seats \in [1..Len(FirstSeats) -> SeatType]
    BY <2>2 DEF Init, Seat, SeatType
  <2>. QED
    BY <2>2, <2>3, ListedSeq
<1>2. room.state \in {"provisioning", "active", "closing", "closed"} /\ room.lifecycle \in BOOLEAN
      /\ room = [state |-> room.state, lifecycle |-> room.lifecycle, seats |-> room.seats]
  BY RelayConstants DEF Init
<1>3. room \in RoomType
  BY <1>1, <1>2 DEF RoomType
<1>4. Control
  BY DEF Init, IdlePump, NoPost, Control, Pumping, Fanning, Posting, WorkOfContent
<1>5. archive \in Seq(ArchiveRecord) /\ work \subseteq (DOMAIN archive) \X Cids
  BY DEF Init
<1>6. pump = IdlePump /\ poster = NoPost /\ wire = [p \in Sources \X Cids |-> 0]
  BY DEF Init
<1>. QED
  BY <1>3, <1>4, <1>5, <1>6 DEF Init, TypeOK, PumpType, IdlePump, NoPost

(* room.json keeps its shape under every update.                           *)
LEMMA RoomTyped ==
  ASSUME TypeOK, [Next]_vars
  PROVE  room' \in RoomType
<1>. USE DEF RoomType, history, budget, world
<1>0. room \in RoomType
  BY DEF TypeOK
<1>1. ASSUME NEW i, HandleCommand(i) PROVE room' \in RoomType
  <2>. DEFINE asked == room.lifecycle \/ (room.state = "active" /\ Sender[i] \in ActiveCids)
  <2>1. asked \in BOOLEAN
    BY <1>0
  <2>2. room' = [room EXCEPT !.lifecycle = asked]
    BY <1>1 DEF HandleCommand
  <2>. HIDE DEF asked
  <2>. QED
    BY <1>0, <2>1, <2>2
<1>2. CASE DrainPull
  BY <1>0, <1>1, <1>2 DEF DrainPull
<1>3. CASE AckPull
  BY <1>0, <1>1, <1>3 DEF AckPull
<1>4. CASE PersistIgnored
  <2>1. CASE UNCHANGED room
    BY <1>0, <2>1
  <2>2. ASSUME NEW k, room' = [room EXCEPT !.seats[k].bounced = TRUE] PROVE room' \in RoomType
    <3>1. [room.seats EXCEPT ![k] = [room.seats[k] EXCEPT !.bounced = TRUE]] \in Seq(SeatType)
      <4>1. k \in DOMAIN room.seats => [room.seats[k] EXCEPT !.bounced = TRUE] \in SeatType
        BY SeatTyped DEF SeatType
      <4>. QED
        BY <1>0, <4>1, UpdatedSeq
    <3>. QED
      BY <1>0, <2>2, <3>1
  <2>. QED
    BY <1>4, <2>1, <2>2 DEF PersistIgnored
<1>5. ASSUME NEW c \in Movers, Admit(c) PROVE room' \in RoomType
  <2>1. Seat(c) \in SeatType
    BY RelayConstants DEF Seat, SeatType
  <2>2. Append(room.seats, Seat(c)) \in Seq(SeatType)
    BY <1>0, <2>1
  <2>. QED
    BY <1>0, <1>5, <2>2 DEF Admit
<1>6. ASSUME NEW k \in DOMAIN room.seats, Remove(k) PROVE room' \in RoomType
  <2>1. [room.seats EXCEPT ![k] = [room.seats[k] EXCEPT !.active = FALSE]] \in Seq(SeatType)
    <3>1. k \in DOMAIN room.seats => [room.seats[k] EXCEPT !.active = FALSE] \in SeatType
      BY SeatTyped DEF SeatType
    <3>. QED
      BY <1>0, <3>1, UpdatedSeq
  <2>. QED
    BY <1>0, <1>6, <2>1 DEF Remove
<1>7. CASE Activate \/ BeginClose \/ FinishClose \/ LifecycleFails
  BY <1>0, <1>7 DEF Activate, BeginClose, FinishClose, LifecycleFails
<1>8. ASSUME ~ DrainPull, ~ AckPull, ~ PersistIgnored, ~ Activate, ~ BeginClose, ~ FinishClose,
             ~ LifecycleFails, ~ \E c \in Movers : Admit(c), ~ \E k \in DOMAIN room.seats : Remove(k)
      PROVE  UNCHANGED room
  <2>1. Intake => UNCHANGED room
    BY <1>8 DEF Intake, DrainLook, ListInbox, NextItem, PausePump, PersistRejectedReplay, PersistArchived,
               PersistRejection, PersistContent, FanOut, NoticeRefusal, NoticeBounce, AckFile
  <2>2. Relay => UNCHANGED room
    BY DEF Relay, StartRelay, CompleteIntents, RelaySkip, RelayPick, SendAnswered, RecordResult, RelayDone
  <2>3. Post => UNCHANGED room
    BY DEF Post, PostMessage, PostIntent, PostDone
  <2>4. Membership => UNCHANGED room
    BY <1>8 DEF Membership
  <2>5. Faults => UNCHANGED room
    BY <1>8 DEF Faults, SendThrows, PumpFails, PostFails, Crash
  <2>6. (\E i \in Items : Arrive(i)) \/ StartPump \/ UNCHANGED vars => UNCHANGED room
    BY DEF Arrive, StartPump, vars
  <2>. QED
    BY <2>1, <2>2, <2>3, <2>4, <2>5, <2>6 DEF Next
<1>. QED
  BY <1>0, <1>2, <1>3, <1>4, <1>5, <1>6, <1>7, <1>8

LEMMA OldestListed ==
  ASSUME TypeOK
  PROVE  /\ pump.msgs # {} => Least(pump.msgs) \in pump.msgs
         /\ pump.files # {} => Least(pump.files) \in pump.files
         /\ pump.msgs \subseteq Items /\ pump.files \subseteq Items
<1>1. pump.msgs \in SUBSET Items /\ pump.files \in SUBSET Items
  BY DEF TypeOK, PumpType
<1>2. pump.msgs \in SUBSET Nat /\ pump.files \in SUBSET Nat
  BY <1>1, RelayConstants
<1>. QED
  BY <1>1, <1>2, LeastIn

LEMMA FirstPending ==
  ASSUME TypeOK, Pending # {}
  PROVE  Least(Pending) \in Unresolved /\ Least(Pending) \in Nat
<1>1. Pending \in SUBSET Nat /\ Pending \subseteq Unresolved
  BY NaturalSeqs DEF Pending
<1>. QED
  BY <1>1, LeastIn

(* The journalling batch of a record is a set of contacts.                 *)
LEMMA BatchTyped ==
  ASSUME NEW S \in SUBSET Cids, NEW B \in BatchesOf(S)
  PROVE  B \in SUBSET Cids /\ B \subseteq S
  BY DEF BatchesOf

LEMMA PumpTyped ==
  ASSUME TypeOK, Control, [Next]_vars
  PROVE  pump' \in PumpType
<1>. USE RelayConstants DEF PumpType, history, budget, world
<1>0. pump \in PumpType
  BY DEF TypeOK
<1>1. ASSUME NEW pc \in {"idle", "drain", "pull", "list", "next", "persist", "ack", "settle"} \cup LockedSteps,
             Goto(pc)
      PROVE  pump' \in PumpType
  BY <1>0, <1>1 DEF Goto
<1>2. pump' = IdlePump => pump' \in PumpType
  BY DEF IdlePump
<1>3. pump.back \in {"idle", "drain", "pull", "list", "next", "persist", "ack", "settle"} \cup LockedSteps
  BY <1>0 DEF LockedSteps
<1>4. CASE StartPump
  BY <1>4 DEF StartPump, IdlePump
<1>5. CASE DrainLook
  BY <1>1, <1>5 DEF DrainLook
<1>6. CASE DrainPull
  <2>1. Least(Rows) \in Items
    BY <1>6, OldestRow DEF DrainPull, Rows
  <2>2. CASE Goto("drain")
    BY <1>1, <2>2
  <2>3. CASE pump' = [pump EXCEPT !.pc = "persist", !.item = Least(Rows), !.back = "drain"]
    BY <1>0, <2>1, <2>3
  <2>. QED
    BY <1>6, <2>2, <2>3 DEF DrainPull
<1>7. CASE ListInbox
  <2>1. Snapshot(Listed) \in SUBSET Items /\ Snapshot(Unread({"file"})) \in SUBSET Items
    BY DEF Snapshot, Listed, Unread
  <2>. QED
    BY <1>0, <1>7, <2>1 DEF ListInbox
<1>8. CASE NextItem
  <2>1. CASE pump.msgs # {}
    <3>. DEFINE i == Least(pump.msgs)
    <3>1. i \in Items /\ i \in Nat
      BY <2>1, OldestListed
    <3>2. pump' = [pump EXCEPT !.pc = "persist", !.cur = i, !.item = i, !.back = "ack", !.msgs = @ \ {i}]
      BY <1>8, <2>1 DEF NextItem
    <3>. HIDE DEF i
    <3>. QED
      BY <1>0, <3>1, <3>2
  <2>2. CASE pump.msgs = {} /\ pump.files # {}
    <3>. DEFINE i == Least(pump.files)
    <3>1. i \in Items /\ i \in Nat
      BY <2>2, OldestListed
    <3>2. pump' = [pump EXCEPT !.pc = "persist", !.item = i, !.back = "ackfile", !.files = @ \ {i}]
      BY <1>8, <2>2 DEF NextItem
    <3>. HIDE DEF i
    <3>. QED
      BY <1>0, <3>1, <3>2
  <2>3. CASE pump.msgs = {} /\ pump.files = {}
    BY <1>0, <1>8, <2>3 DEF NextItem
  <2>. QED
    BY <2>1, <2>2, <2>3
<1>9. CASE PausePump
  BY <1>2, <1>9 DEF PausePump
<1>10. CASE PersistRejectedReplay \/ PersistRejection \/ NoticeRefusal \/ NoticeBounce
  BY <1>1, <1>3, <1>10 DEF PersistRejectedReplay, PersistRejection, NoticeRefusal, NoticeBounce, LockedSteps
<1>11. ASSUME NEW S \in SUBSET Cids, NEW B \in BatchesOf(S), pump' = [pump EXCEPT !.pc = "fan", !.todo = B]
       PROVE  pump' \in PumpType
  <2>1. B \in SUBSET Cids
    BY BatchTyped
  <2>. QED
    BY <1>0, <1>11, <2>1 DEF LockedSteps
<1>12. CASE PersistArchived
  <2>1. NeedIntent(Least(Archived(pump.item))) \in SUBSET Cids
    BY WorkRow DEF NeedIntent
  <2>. QED
    BY <1>11, <1>12, <2>1 DEF PersistArchived
<1>13. CASE PersistContent
  <2>1. Audience(pump.item) \in SUBSET Cids
    BY Roles DEF Audience
  <2>. QED
    BY <1>11, <1>13, <2>1 DEF PersistContent
<1>14. CASE PersistIgnored
  <2>1. CASE BounceSeat(pump.item) = {}
    BY <1>1, <1>3, <1>14, <2>1 DEF PersistIgnored
  <2>2. CASE BounceSeat(pump.item) # {}
    <3>. DEFINE k == Least(BounceSeat(pump.item))
    <3>1. BounceSeat(pump.item) \in SUBSET Nat
      <4>1. DOMAIN room.seats \subseteq Nat
        BY DEF TypeOK, RoomType
      <4>2. {j \in SeatsOf(Sender[pump.item]) : ~room.seats[j].active} \in SUBSET Nat
        BY <4>1 DEF SeatsOf
      <4>. QED
        BY <2>2, <4>2, LeastIn DEF BounceSeat
    <3>2. k \in Nat
      BY <2>2, <3>1, LeastIn
    <3>3. pump' = [pump EXCEPT !.pc = "bounce", !.at = k]
      BY <1>14, <2>2 DEF PersistIgnored
    <3>. HIDE DEF k
    <3>. QED
      BY <1>0, <3>2, <3>3 DEF LockedSteps
  <2>. QED
    BY <2>1, <2>2
<1>15. CASE FanOut
  <2>1. CASE pump.todo = {}
    BY <1>1, <1>3, <1>15, <2>1 DEF FanOut
  <2>2. ASSUME NEW c, pump' = [pump EXCEPT !.todo = @ \ {c}] PROVE pump' \in PumpType
    BY <1>0, <2>2
  <2>. QED
    BY <1>15, <2>1, <2>2 DEF FanOut
<1>16. CASE AckFile
  BY <1>1, <1>16 DEF AckFile
<1>17. CASE AckPull
  <2>1. Least(Rows) \in Items
    BY <1>17, OldestRow DEF AckPull, Rows
  <2>2. CASE Goto("next")
    BY <1>1, <2>2
  <2>3. CASE pump' = [pump EXCEPT !.pc = "persist", !.item = Least(Rows)]
    BY <1>0, <2>1, <2>3
  <2>. QED
    BY <1>17, <2>2, <2>3 DEF AckPull
<1>18. CASE StartRelay
  BY <1>1, <1>18 DEF StartRelay, LockedSteps
<1>19. CASE CompleteIntents
  <2>1. CASE UNCHANGED pump
    BY <1>0, <2>1
  <2>2. CASE pump' = [pump EXCEPT !.pc = "relay", !.at = 0]
    BY <1>0, <2>2 DEF LockedSteps
  <2>. QED
    BY <1>19, <2>1, <2>2 DEF CompleteIntents
<1>20. CASE RelaySkip \/ RelayPick
  <2>. DEFINE n == Least(Pending)
  <2>1. n \in Nat
    BY <1>20, FirstPending DEF RelaySkip, RelayPick
  <2>2. CASE pump' = [pump EXCEPT !.at = n]
    BY <1>0, <2>1, <2>2
  <2>3. ASSUME NEW pc \in {"sendnotice", "send"}, pump' = [pump EXCEPT !.at = n, !.pc = pc]
        PROVE  pump' \in PumpType
    BY <1>0, <2>1, <2>3 DEF LockedSteps
  <2>. QED
    BY <1>20, <2>2, <2>3 DEF RelaySkip, RelayPick
<1>21. CASE SendAnswered
  <2>1. CASE Goto("send")
    BY <1>1, <2>1 DEF LockedSteps
  <2>2. ASSUME NEW status \in {"queued", "send_failed"},
               pump' = [pump EXCEPT !.pc = "result", !.status = status]
        PROVE  pump' \in PumpType
    BY <1>0, <2>2 DEF LockedSteps
  <2>. QED
    BY <1>21, <2>1, <2>2 DEF SendAnswered
<1>22. CASE SendThrows
  BY <1>0, <1>22 DEF SendThrows, LockedSteps
<1>23. CASE RecordResult
  BY <1>0, <1>23 DEF RecordResult, LockedSteps
<1>24. CASE RelayDone \/ PumpFails \/ Crash
  BY <1>0, <1>2, <1>24 DEF RelayDone, PumpFails, Crash, Stop
<1>25. CASE UNCHANGED pump
  BY <1>0, <1>25
<1>26. Post \/ Membership \/ PostFails \/ LifecycleFails \/ (\E i \in Items : Arrive(i)) \/ UNCHANGED vars
       => UNCHANGED pump
  BY DEF Post, PostMessage, PostIntent, PostDone, Membership, Admit, Remove, Activate, BeginClose, FinishClose,
         PostFails, LifecycleFails, Arrive, vars
<1>. QED
  BY <1>4, <1>5, <1>6, <1>7, <1>8, <1>9, <1>10, <1>12, <1>13, <1>14, <1>15, <1>16, <1>17, <1>18, <1>19,
     <1>20, <1>21, <1>22, <1>23, <1>24, <1>25, <1>26
     DEF Next, Intake, Relay, Faults

LEMMA Counted ==
  ASSUME NEW D, NEW f \in [D -> Nat], NEW x, NEW n \in {0, 1}
  PROVE  [f EXCEPT ![x] = @ + n] \in [D -> Nat]
<1>1. n \in Nat /\ \A y \in D : f[y] + n \in Nat
  <2>1. n \in Nat
    OBVIOUS
  <2>. QED
    BY <2>1
<1>. QED
  BY <1>1

(* The SDK rows and the history keep their shape.                          *)
LEMMA RestTyped ==
  ASSUME TypeOK, Control, [Next]_vars
  PROVE  /\ inbox' \in [Items -> {"absent", "unread", "read"}]
         /\ poster' \in [seq : Nat, todo : SUBSET Cids]
         /\ hosted' \in BOOLEAN /\ wake' \in {"none", "post", "watch"}
         /\ dropped' \subseteq Items /\ promoted' \subseteq Items
         /\ told' \in [Items -> Nat] /\ bounces' \in [1..MaxSeats -> Nat]
         /\ wire' \in [Sources \X Cids -> Nat]
         /\ crashes' \in Nat /\ errors' \in Nat
<1>. USE DEF history, budget, world
<1>. DEFINE Rest == <<inbox, poster, hosted, wake, dropped, promoted, told, bounces, wire, crashes, errors>>
            Good == /\ inbox' \in [Items -> {"absent", "unread", "read"}]
                    /\ poster' \in [seq : Nat, todo : SUBSET Cids]
                    /\ hosted' \in BOOLEAN /\ wake' \in {"none", "post", "watch"}
                    /\ dropped' \subseteq Items /\ promoted' \subseteq Items
                    /\ told' \in [Items -> Nat] /\ bounces' \in [1..MaxSeats -> Nat]
                    /\ wire' \in [Sources \X Cids -> Nat]
                    /\ crashes' \in Nat /\ errors' \in Nat
<1>0. /\ inbox \in [Items -> {"absent", "unread", "read"}]
      /\ poster \in [seq : Nat, todo : SUBSET Cids]
      /\ hosted \in BOOLEAN /\ wake \in {"none", "post", "watch"}
      /\ dropped \subseteq Items /\ promoted \subseteq Items
      /\ told \in [Items -> Nat] /\ bounces \in [1..MaxSeats -> Nat]
      /\ wire \in [Sources \X Cids -> Nat]
      /\ crashes \in Nat /\ errors \in Nat
  BY DEF TypeOK
<1>1. UNCHANGED Rest => Good
  BY <1>0
<1>2. CASE (\E i \in Items : Arrive(i)) \/ StartPump
  BY <1>0, <1>2 DEF Arrive, StartPump
<1>3. CASE DrainPull \/ AckPull
  <2>1. Least(Rows) \in Items
    BY <1>3, OldestRow DEF DrainPull, AckPull, Rows
  <2>2. promoted' = promoted \/ promoted' = promoted \cup {Least(Rows)}
    BY <1>3 DEF DrainPull, AckPull
  <2>3. Read(Least(Rows)) /\ UNCHANGED <<world, dropped, told, bounces, wire, budget>>
    BY <1>3 DEF DrainPull, AckPull, HandleCommand
  <2>4. inbox' \in [Items -> {"absent", "unread", "read"}]
    BY <1>0, <2>3 DEF Read
  <2>. QED
    BY <1>0, <2>1, <2>2, <2>3, <2>4
<1>4. CASE PersistIgnored
  <2>1. pump.item \in Items
    BY <1>4 DEF PersistIgnored, Persist, Control, Pumping
  <2>. QED
    BY <1>0, <1>4, <2>1 DEF PersistIgnored
<1>5. CASE NoticeRefusal
  <2>1. PICK n \in {0, 1} : told' = [told EXCEPT ![pump.item] = @ + n]
    BY <1>5 DEF NoticeRefusal
  <2>2. told' \in [Items -> Nat]
    BY <1>0, <2>1, Counted
  <2>. QED
    BY <1>0, <1>5, <2>2 DEF NoticeRefusal
<1>6. CASE NoticeBounce
  <2>1. PICK n \in {0, 1} : bounces' = [bounces EXCEPT ![pump.at] = @ + n]
    BY <1>6 DEF NoticeBounce
  <2>2. bounces' \in [1..MaxSeats -> Nat]
    BY <1>0, <2>1, Counted
  <2>. QED
    BY <1>0, <1>6, <2>2 DEF NoticeBounce
<1>7. CASE AckFile
  BY <1>0, <1>7 DEF AckFile, Read
<1>8. CASE SendAnswered \/ SendThrows
  <2>1. wire' = wire \/ wire' = [wire EXCEPT ![Pair] = @ + 1]
    BY <1>8 DEF SendAnswered, SendThrows
  <2>2. wire' \in [Sources \X Cids -> Nat]
    BY <1>0, <2>1
  <2>3. UNCHANGED <<inbox, world, dropped, promoted, told, bounces, crashes>> /\ (errors' = errors \/ errors' = errors + 1)
    BY <1>8 DEF SendAnswered, SendThrows
  <2>. QED
    BY <1>0, <2>2, <2>3
<1>9. CASE RelayDone \/ PumpFails
  BY <1>0, <1>9 DEF RelayDone, PumpFails, Stop
<1>10. CASE \E p \in Posts : PostMessage(p)
  <2>1. Len(archive) + 1 \in Nat
    BY NaturalSeqs
  <2>. QED
    BY <1>0, <1>10, <2>1, Roles DEF PostMessage
<1>11. CASE PostIntent \/ PostDone \/ PostFails
  BY <1>0, <1>11 DEF PostIntent, PostDone, PostFails, NoPost
<1>12. CASE Activate \/ FinishClose \/ LifecycleFails
  <2>1. CASE Activate
    BY <1>0, <2>1 DEF Activate
  <2>2. CASE FinishClose
    BY <1>0, <2>2 DEF FinishClose
  <2>3. CASE LifecycleFails
    BY <1>0, <2>3 DEF LifecycleFails
  <2>. QED
    BY <1>12, <2>1, <2>2, <2>3
<1>13. CASE Crash
  BY <1>0, <1>13 DEF Crash, NoPost
<1>14. ASSUME ~ DrainPull, ~ AckPull, ~ PersistIgnored, ~ NoticeRefusal, ~ NoticeBounce, ~ AckFile, Intake
       PROVE  UNCHANGED Rest
  BY <1>14 DEF Intake, DrainLook, ListInbox, NextItem, PausePump, PersistRejectedReplay, PersistArchived,
               PersistRejection, PersistContent, FanOut
<1>15. ASSUME ~ SendAnswered, ~ RelayDone, Relay PROVE UNCHANGED Rest
  BY <1>15 DEF Relay, StartRelay, CompleteIntents, RelaySkip, RelayPick, RecordResult
<1>16. ASSUME ~ Activate, ~ FinishClose, Membership PROVE UNCHANGED Rest
  BY <1>16 DEF Membership, Admit, Remove, BeginClose
<1>17. UNCHANGED vars => UNCHANGED Rest
  BY DEF vars
<1>. QED
  BY <1>1, <1>2, <1>3, <1>4, <1>5, <1>6, <1>7, <1>8, <1>9, <1>10, <1>11, <1>12, <1>13, <1>14, <1>15, <1>16, <1>17
     DEF Next, Post, Faults

LEMMA TypeStep ==
  ASSUME TypeOK, Control, [Next]_vars
  PROVE  TypeOK' /\ WorkOfContent'
<1>1. ArchiveStep
  BY EveryStepIsAnArchiveStep
<1>2. archive' \in Seq(ArchiveRecord) /\ work' \subseteq (DOMAIN archive') \X Cids /\ WorkOfContent'
  BY <1>1, ArchiveGrows DEF Control
<1>. QED
  BY <1>2, RoomTyped, PumpTyped, RestTyped DEF TypeOK

LEMMA SameArchive ==
  ASSUME archive' = archive
  PROVE  /\ Unresolved' = Unresolved
         /\ \A s : Archived(s)' = Archived(s)
         /\ \A n : IsContent(n)' <=> IsContent(n)
  BY DEF Unresolved, Resolved, Archived, SeqsOf, IsIntent, IsResult, IsContent

LEMMA PumpingStep ==
  ASSUME TypeOK, Control, [Next]_vars
  PROVE  Pumping'
<1>. USE DEF history, budget, world
<1>0. pump \in PumpType /\ Pumping
  BY DEF TypeOK, Control
<1>1. CASE UNCHANGED <<pump, archive>>
  BY <1>0, <1>1, SameArchive DEF Pumping
<1>2. CASE pump' = IdlePump
  BY <1>2 DEF IdlePump, Pumping
<1>3. ASSUME Goto(pump.back), pump.pc \in {"persist", "fan", "notice", "bounce"} PROVE Pumping'
  BY <1>0, <1>3 DEF Goto, Pumping, PumpType
<1>4. ASSUME NEW pc \in {"drain", "pull", "list", "next", "ack", "settle", "complete", "relay"}, Goto(pc)
      PROVE  Pumping'
  BY <1>0, <1>4 DEF Goto, Pumping, PumpType
<1>5. CASE StartPump
  BY <1>5 DEF StartPump, IdlePump, Pumping
<1>6. CASE DrainLook
  BY <1>4, <1>6 DEF DrainLook
<1>7. CASE DrainPull \/ AckPull
  <2>1. Least(Rows) \in Items /\ Kind[Least(Rows)] \in {"message", "command"}
    BY <1>7, OldestRow DEF DrainPull, AckPull, Rows
  <2>2. CASE Goto("drain") \/ Goto("next")
    BY <1>4, <2>2
  <2>3. ASSUME Kind[Least(Rows)] # "command",
               \/ pump' = [pump EXCEPT !.pc = "persist", !.item = Least(Rows), !.back = "drain"]
               \/ pump' = [pump EXCEPT !.pc = "persist", !.item = Least(Rows)]
        PROVE  Pumping'
    BY <1>0, <2>1, <2>3 DEF Pumping, PumpType
  <2>. QED
    BY <1>7, <2>2, <2>3 DEF DrainPull, AckPull
<1>8. CASE ListInbox
  <2>1. /\ \A i \in Snapshot(Listed) : Kind[i] = "message"
        /\ \A i \in Snapshot(Unread({"file"})) : Kind[i] = "file"
    BY DEF Snapshot, Listed, Unread
  <2>2. CASE pump' = [pump EXCEPT !.pc = "settle"]
    BY <1>4, <2>2 DEF Goto
  <2>3. CASE pump' = [pump EXCEPT !.pc = "next", !.msgs = Snapshot(Listed), !.files = Snapshot(Unread({"file"}))]
    BY <1>0, <2>1, <2>3 DEF Pumping, PumpType
  <2>. QED
    BY <1>8, <2>2, <2>3 DEF ListInbox
<1>9. CASE NextItem
  <2>1. CASE pump.msgs # {}
    <3>. DEFINE i == Least(pump.msgs)
    <3>1. i \in Items /\ Kind[i] = "message"
      BY <1>0, <2>1, OldestListed DEF Pumping
    <3>2. pump' = [pump EXCEPT !.pc = "persist", !.cur = i, !.item = i, !.back = "ack", !.msgs = @ \ {i}]
      BY <1>9, <2>1 DEF NextItem
    <3>. HIDE DEF i
    <3>. QED
      BY <1>0, <3>1, <3>2 DEF Pumping, PumpType
  <2>2. CASE pump.msgs = {} /\ pump.files # {}
    <3>. DEFINE i == Least(pump.files)
    <3>1. i \in Items /\ Kind[i] = "file"
      BY <1>0, <2>2, OldestListed DEF Pumping
    <3>2. pump' = [pump EXCEPT !.pc = "persist", !.item = i, !.back = "ackfile", !.files = @ \ {i}]
      BY <1>9, <2>2 DEF NextItem
    <3>. HIDE DEF i
    <3>. QED
      BY <1>0, <3>1, <3>2 DEF Pumping, PumpType
  <2>3. CASE pump.msgs = {} /\ pump.files = {}
    BY <1>4, <1>9, <2>3 DEF NextItem, Goto
  <2>. QED
    BY <2>1, <2>2, <2>3
<1>10. CASE PausePump
  BY <1>2, <1>10 DEF PausePump
<1>11. CASE PersistRejectedReplay \/ NoticeRefusal \/ NoticeBounce
  BY <1>3, <1>11 DEF PersistRejectedReplay, Persist, NoticeRefusal, NoticeBounce
<1>12. ASSUME NEW B, pump.pc = "persist",
              pump' = [pump EXCEPT !.pc = "fan", !.todo = B] \/ Goto("notice")
       PROVE  Pumping'
  BY <1>0, <1>12 DEF Goto, Pumping, PumpType
<1>13. CASE PersistArchived \/ PersistContent \/ PersistRejection
  BY <1>12, <1>13 DEF PersistArchived, PersistContent, PersistRejection, Persist
<1>14. CASE PersistIgnored
  <2>1. pump.pc = "persist"
    BY <1>14 DEF PersistIgnored, Persist
  <2>2. ASSUME NEW k, pump' = [pump EXCEPT !.pc = "bounce", !.at = k] PROVE Pumping'
    BY <1>0, <2>1, <2>2 DEF Pumping, PumpType
  <2>. QED
    BY <1>3, <1>14, <2>1, <2>2 DEF PersistIgnored
<1>15. CASE FanOut
  <2>1. ASSUME NEW c, pump' = [pump EXCEPT !.todo = @ \ {c}], pump.pc = "fan" PROVE Pumping'
    BY <1>0, <2>1 DEF Pumping, PumpType
  <2>. QED
    BY <1>3, <1>15, <2>1 DEF FanOut
<1>16. CASE AckFile \/ StartRelay
  BY <1>4, <1>16 DEF AckFile, StartRelay
<1>17. CASE CompleteIntents
  <2>1. pump.pc = "complete"
    BY <1>17 DEF CompleteIntents
  <2>2. CASE UNCHANGED pump
    BY <1>0, <2>1, <2>2 DEF Pumping
  <2>3. CASE pump' = [pump EXCEPT !.pc = "relay", !.at = 0]
    BY <1>0, <2>3 DEF Pumping, PumpType
  <2>. QED
    BY <1>17, <2>2, <2>3 DEF CompleteIntents
<1>18. CASE RelaySkip
  BY <1>0, <1>18 DEF RelaySkip, Pumping, PumpType
<1>19. CASE RelayPick
  <2>. DEFINE n == Least(Pending)
              pc == IF SourceOf(n).kind = "file" THEN "sendnotice" ELSE "send"
  <2>1. n \in Unresolved
    BY <1>19, FirstPending DEF RelayPick
  <2>2. n \in Unresolved'
    BY <1>19, <2>1, SameArchive DEF RelayPick
  <2>3. pump' = [pump EXCEPT !.at = n, !.pc = pc] /\ pc \in {"sendnotice", "send"}
    BY <1>19 DEF RelayPick
  <2>. HIDE DEF n, pc
  <2>. QED
    BY <1>0, <2>2, <2>3 DEF Pumping, PumpType
<1>20. CASE SendAnswered
  <2>1. pump.at \in Unresolved'
    BY <1>0, <1>20, SameArchive DEF SendAnswered, Pumping
  <2>2. CASE Goto("send")
    BY <1>0, <2>1, <2>2 DEF Goto, Pumping, PumpType
  <2>3. ASSUME NEW status \in {"queued", "send_failed"},
               pump' = [pump EXCEPT !.pc = "result", !.status = status]
        PROVE  Pumping'
    BY <1>0, <2>1, <2>3 DEF Pumping, PumpType
  <2>. QED
    BY <1>20, <2>2, <2>3 DEF SendAnswered
<1>21. CASE SendThrows
  BY <1>0, <1>21 DEF SendThrows, Pumping, PumpType
<1>22. CASE RecordResult
  BY <1>0, <1>22 DEF RecordResult, Pumping, PumpType
<1>23. CASE RelayDone \/ PumpFails \/ Crash
  BY <1>1, <1>2, <1>23 DEF RelayDone, PumpFails, Crash, Stop
<1>24. CASE (\E p \in Posts : PostMessage(p)) \/ PostIntent
  <2>1. UNCHANGED pump /\ pump.pc \notin LockedSteps
    BY <1>24 DEF PostMessage, PostIntent, Free, Control, Posting
  <2>. QED
    BY <1>0, <2>1 DEF Pumping, LockedSteps
<1>25. (\E i \in Items : Arrive(i)) \/ PostDone \/ Membership \/ PostFails \/ LifecycleFails \/ UNCHANGED vars
       => UNCHANGED <<pump, archive>>
  BY DEF Arrive, PostDone, Membership, Admit, Remove, Activate, BeginClose, FinishClose,
         PostFails, LifecycleFails, vars
<1>. QED
  BY <1>1, <1>5, <1>6, <1>7, <1>8, <1>9, <1>10, <1>11, <1>13, <1>14, <1>15, <1>16, <1>17, <1>18, <1>19,
     <1>20, <1>21, <1>22, <1>23, <1>24, <1>25
     DEF Next, Intake, Relay, Post, Faults

(* Journalling one recipient leaves the other rows of the work table.      *)
LEMMA WorkLeft ==
  ASSUME NEW s, NEW c, AppendIntent(s, c)
  PROVE  \A k, d : d # c /\ <<k, d>> \in work => <<k, d>> \in work'
  BY DEF AppendIntent

LEMMA FanningStep ==
  ASSUME TypeOK, Control, [Next]_vars
  PROVE  Fanning'
<1>. USE DEF history, budget, world
<1>0. pump \in PumpType /\ archive \in Seq(ArchiveRecord) /\ Fanning
  BY DEF TypeOK, Control
<1>1. CASE UNCHANGED <<pump, archive, work>>
  BY <1>0, <1>1, SameArchive DEF Fanning
<1>2. CASE pump'.pc # "fan"
  BY <1>2 DEF Fanning
<1>3. CASE PersistArchived
  <2>. DEFINE k == Least(Archived(pump.item))
  <2>1. k \in Archived(pump.item)
    <3>1. Archived(pump.item) \in SUBSET Nat /\ Archived(pump.item) # {}
      BY <1>3, NaturalSeqs DEF PersistArchived
    <3>. QED
      BY <3>1, LeastIn
  <2>2. PICK B \in BatchesOf(NeedIntent(k)) : pump' = [pump EXCEPT !.pc = "fan", !.todo = B]
    BY <1>3 DEF PersistArchived
  <2>3. \A c \in B : <<k, c>> \in work
    <3>1. B \subseteq NeedIntent(k)
      BY DEF BatchesOf
    <3>. QED
      BY <3>1, WorkRow DEF NeedIntent
  <2>4. pump'.item = pump.item /\ pump'.todo = B
    BY <1>0, <2>2 DEF PumpType
  <2>5. UNCHANGED <<archive, work>>
    BY <1>3 DEF PersistArchived
  <2>. HIDE DEF k
  <2>. QED
    BY <2>1, <2>3, <2>4, <2>5, SameArchive DEF Fanning
<1>4. CASE PersistContent
  <2>. DEFINE r == Content(Kind[pump.item], pump.item, Audience(pump.item))
              n == Len(archive) + 1
  <2>1. PICK B \in BatchesOf(Audience(pump.item)) : pump' = [pump EXCEPT !.pc = "fan", !.todo = B]
    BY <1>4 DEF PersistContent
  <2>2. pump'.item = pump.item /\ pump'.todo = B /\ B \subseteq Audience(pump.item)
    BY <1>0, <2>1 DEF PumpType, BatchesOf
  <2>3. Kind[pump.item] \in {"message", "file"}
    BY <1>4 DEF PersistContent, Persist, Control, Pumping
  <2>4. archive' = Append(archive, r) /\ work' = work \cup ({n} \X Audience(pump.item))
    BY <1>4 DEF PersistContent, AppendContent
  <2>5. r.src = pump.item /\ r.kind \in {"message", "file"}
    BY <2>3 DEF Content, Record
  <2>6. n \in DOMAIN archive' /\ archive'[n] = r
    BY <1>0, <2>4
  <2>7. n \in Archived(pump.item)'
    BY <2>2, <2>5, <2>6 DEF Archived, SeqsOf, IsContent
  <2>8. \A c \in B : <<n, c>> \in work'
    BY <2>2, <2>4
  <2>. HIDE DEF r, n
  <2>. QED
    BY <2>2, <2>7, <2>8 DEF Fanning
<1>5. CASE FanOut
  <2>1. CASE pump.todo = {}
    BY <1>0, <1>5, <2>1 DEF FanOut, Goto, PumpType, Fanning
  <2>2. ASSUME NEW c \in pump.todo, AppendIntent(pump.item, c),
               pump' = [pump EXCEPT !.todo = @ \ {c}], pump.pc = "fan"
        PROVE  Fanning'
    <3>1. PICK k \in Archived(pump.item) : \A d \in pump.todo : <<k, d>> \in work
      BY <1>0, <2>2 DEF Fanning
    <3>2. pump'.item = pump.item /\ pump'.todo = pump.todo \ {c}
      BY <1>0, <2>2 DEF PumpType
    <3>3. \A d \in pump'.todo : <<k, d>> \in work'
      BY <2>2, <3>1, <3>2, WorkLeft
    <3>4. archive' = Append(archive, Intent(pump.item, c))
      BY <2>2 DEF AppendIntent
    <3>5. k \in DOMAIN archive' /\ archive'[k] = archive[k]
      BY <1>0, <3>1, <3>4 DEF Archived, SeqsOf
    <3>6. k \in Archived(pump.item)'
      BY <3>1, <3>2, <3>5 DEF Archived, SeqsOf, IsContent
    <3>. QED
      BY <3>2, <3>3, <3>6 DEF Fanning
  <2>. QED
    BY <1>5, <2>1, <2>2 DEF FanOut
<1>6. CASE (\E p \in Posts : PostMessage(p)) \/ PostIntent
  <2>1. UNCHANGED pump /\ pump.pc \notin LockedSteps
    BY <1>6 DEF PostMessage, PostIntent, Free, Control, Posting
  <2>. QED
    BY <1>2, <2>1 DEF LockedSteps
<1>7. CASE (\E i \in Items : Arrive(i)) \/ PostDone \/ Membership \/ PostFails \/ LifecycleFails
           \/ UNCHANGED vars
  <2>1. UNCHANGED <<pump, archive, work>>
    BY <1>7 DEF Arrive, PostDone, Membership, Admit, Remove, Activate, BeginClose, FinishClose,
               PostFails, LifecycleFails, vars
  <2>. QED
    BY <1>1, <2>1
<1>8. CASE StartPump \/ PausePump \/ RelayDone \/ PumpFails \/ Crash
  <2>1. CASE StartPump
    BY <1>2, <2>1 DEF StartPump, IdlePump
  <2>2. pump' = IdlePump => pump'.pc # "fan"
    BY DEF IdlePump
  <2>. QED
    BY <1>2, <1>8, <2>1, <2>2 DEF PausePump, RelayDone, PumpFails, Crash, Stop
<1>9. ASSUME NEW pc, pc # "fan", Goto(pc) PROVE Fanning'
  BY <1>0, <1>2, <1>9 DEF Goto, PumpType
<1>10. CASE Goto(pump.back)
  BY <1>0, <1>9, <1>10 DEF PumpType
<1>11. CASE DrainLook \/ AckFile \/ PersistRejection \/ StartRelay
  BY <1>9, <1>11 DEF DrainLook, AckFile, PersistRejection, StartRelay
<1>12. CASE PersistRejectedReplay \/ NoticeRefusal \/ NoticeBounce
  BY <1>10, <1>12 DEF PersistRejectedReplay, NoticeRefusal, NoticeBounce
<1>13. CASE DrainPull \/ AckPull
  <2>1. CASE Goto("drain") \/ Goto("next")
    BY <1>9, <2>1
  <2>2. CASE \/ pump' = [pump EXCEPT !.pc = "persist", !.item = Least(Rows), !.back = "drain"]
             \/ pump' = [pump EXCEPT !.pc = "persist", !.item = Least(Rows)]
    BY <1>0, <1>2, <2>2 DEF PumpType
  <2>. QED
    BY <1>13, <2>1, <2>2 DEF DrainPull, AckPull
<1>14. CASE ListInbox
  BY <1>0, <1>2, <1>14 DEF ListInbox, PumpType
<1>15. CASE NextItem
  BY <1>0, <1>2, <1>15 DEF NextItem, PumpType
<1>16. CASE PersistIgnored
  <2>1. ASSUME NEW k, pump' = [pump EXCEPT !.pc = "bounce", !.at = k] PROVE Fanning'
    BY <1>0, <1>2, <2>1 DEF PumpType
  <2>. QED
    BY <1>10, <1>16, <2>1 DEF PersistIgnored
<1>17. CASE CompleteIntents \/ RelaySkip
  BY <1>0, <1>2, <1>17 DEF CompleteIntents, RelaySkip, PumpType
<1>18. CASE RelayPick
  <2>1. ASSUME NEW n, NEW pc \in {"sendnotice", "send"}, pump' = [pump EXCEPT !.at = n, !.pc = pc] PROVE Fanning'
    BY <1>0, <1>2, <2>1 DEF PumpType
  <2>. QED
    BY <1>18, <2>1 DEF RelayPick
<1>19. CASE SendAnswered \/ SendThrows \/ RecordResult
  BY <1>0, <1>2, <1>19 DEF SendAnswered, SendThrows, RecordResult, Goto, PumpType
<1>. QED
  BY <1>3, <1>4, <1>5, <1>6, <1>7, <1>8, <1>11, <1>12, <1>13, <1>14, <1>15, <1>16, <1>17, <1>18, <1>19
     DEF Next, Intake, Relay, Post, Faults

LEMMA PostingStep ==
  ASSUME TypeOK, Control, [Next]_vars
  PROVE  Posting'
<1>. USE DEF history, budget, world
<1>0. pump \in PumpType /\ archive \in Seq(ArchiveRecord) /\ Posting
      /\ poster \in [seq : Nat, todo : SUBSET Cids]
  BY DEF TypeOK, Control
<1>1. CASE UNCHANGED <<poster, archive, work>> /\ pump'.pc \notin LockedSteps
  BY <1>0, <1>1, SameArchive DEF Posting
<1>2. CASE UNCHANGED poster /\ (poster = NoPost \/ pump.pc \in LockedSteps)
  BY <1>0, <1>2 DEF Posting, NoPost
<1>3. CASE poster' = NoPost
  BY <1>3 DEF Posting, NoPost
<1>4. CASE UNCHANGED <<poster, pump, archive, work>>
  BY <1>0, <1>4, SameArchive DEF Posting, NoPost
<1>5. ASSUME NEW p \in Posts, PostMessage(p) PROVE Posting'
  <2>. DEFINE r == Content("message", p, ActiveCids)
              n == Len(archive) + 1
  <2>1. pump' = pump /\ pump.pc \notin LockedSteps /\ poster' = [seq |-> n, todo |-> ActiveCids]
    BY <1>5 DEF PostMessage, Free
  <2>2. archive' = Append(archive, r) /\ work' = work \cup ({n} \X ActiveCids)
    BY <1>5 DEF PostMessage, AppendContent
  <2>3. r.kind = "message"
    BY DEF Content, Record
  <2>4. n \in DOMAIN archive' /\ archive'[n] = r
    BY <1>0, <2>2
  <2>. HIDE DEF r, n
  <2>. QED
    BY <2>1, <2>2, <2>3, <2>4 DEF Posting, IsContent
<1>6. CASE PostIntent
  <2>1. PICK c \in poster.todo : /\ AppendIntent(archive[poster.seq].src, c)
                                 /\ poster' = [poster EXCEPT !.todo = @ \ {c}]
    BY <1>6 DEF PostIntent
  <2>2. pump' = pump /\ poster'.seq = poster.seq /\ poster'.todo = poster.todo \ {c}
    BY <1>0, <1>6, <2>1 DEF PostIntent
  <2>3. /\ pump.pc \notin LockedSteps /\ poster.seq \in DOMAIN archive /\ IsContent(poster.seq)
        /\ \A d \in poster.todo : <<poster.seq, d>> \in work
    BY <1>0, <1>6 DEF Posting, PostIntent
  <2>4. \A d \in poster'.todo : <<poster'.seq, d>> \in work'
    BY <2>1, <2>2, <2>3, WorkLeft
  <2>5. archive' = Append(archive, Intent(archive[poster.seq].src, c))
    BY <2>1 DEF AppendIntent
  <2>6. poster.seq \in DOMAIN archive' /\ archive'[poster.seq] = archive[poster.seq]
    BY <1>0, <2>3, <2>5
  <2>. QED
    BY <2>2, <2>3, <2>4, <2>6 DEF Posting, IsContent
<1>7. CASE PostDone \/ PostFails \/ Crash
  BY <1>3, <1>7 DEF PostDone, PostFails, Crash
<1>8. CASE (\E i \in Items : Arrive(i)) \/ Membership \/ LifecycleFails \/ UNCHANGED vars
  <2>1. UNCHANGED <<poster, pump, archive, work>>
    BY <1>8 DEF Arrive, Membership, Admit, Remove, Activate, BeginClose, FinishClose, LifecycleFails, vars
  <2>. QED
    BY <1>4, <2>1
<1>9. CASE StartPump \/ PausePump
  <2>1. pump'.pc \in {"idle", "drain"}
    <3>1. CASE StartPump
      BY <3>1 DEF StartPump, IdlePump
    <3>2. CASE PausePump
      BY <3>2 DEF PausePump, IdlePump
    <3>. QED
      BY <1>9, <3>1, <3>2
  <2>2. UNCHANGED <<poster, archive, work>>
    BY <1>9 DEF StartPump, PausePump
  <2>. QED
    BY <1>1, <2>1, <2>2 DEF LockedSteps
<1>10. ASSUME NEW pc, pc \notin LockedSteps, Goto(pc) PROVE pump'.pc \notin LockedSteps
  BY <1>0, <1>10 DEF Goto, PumpType
<1>11. CASE DrainLook \/ DrainPull \/ AckPull
  <2>1. UNCHANGED <<poster, archive, work>>
    BY <1>11 DEF DrainLook, DrainPull, AckPull, HandleCommand
  <2>2. \/ Goto("pull") \/ Goto("list") \/ Goto("drain") \/ Goto("next")
        \/ pump' = [pump EXCEPT !.pc = "persist", !.item = Least(Rows), !.back = "drain"]
        \/ pump' = [pump EXCEPT !.pc = "persist", !.item = Least(Rows)]
    BY <1>11 DEF DrainLook, DrainPull, AckPull
  <2>3. pump'.pc \in {"pull", "list", "drain", "next", "persist"}
    BY <1>0, <2>2 DEF Goto, PumpType
  <2>4. pump'.pc \notin LockedSteps BY <2>3 DEF LockedSteps
  <2>. QED
    BY <1>1, <2>1, <2>4
<1>12. CASE ListInbox \/ NextItem
  <2>1. UNCHANGED <<poster, archive, work>> BY <1>12 DEF ListInbox, NextItem
  <2>2. pump'.pc \in {"settle", "next", "persist", "drain"}
    <3>1. CASE ListInbox
      <4>. DEFINE msgs == Snapshot(Listed)
                  files == Snapshot(Unread({"file"}))
      <4>1. pump' = IF msgs = {} /\ files = {} THEN [pump EXCEPT !.pc = "settle"]
                    ELSE [pump EXCEPT !.pc = "next", !.msgs = msgs, !.files = files]
        BY <3>1 DEF ListInbox
      <4>. HIDE DEF msgs, files
      <4>. QED BY <1>0, <4>1 DEF PumpType
    <3>2. CASE NextItem
      <4>. DEFINE i == Least(pump.msgs)
                  j == Least(pump.files)
      <4>1. pump' = IF pump.msgs # {}
                    THEN [pump EXCEPT !.pc = "persist", !.cur = i, !.item = i, !.back = "ack",
                                      !.msgs = @ \ {i}]
                    ELSE IF pump.files # {}
                    THEN [pump EXCEPT !.pc = "persist", !.item = j, !.back = "ackfile", !.files = @ \ {j}]
                    ELSE [pump EXCEPT !.pc = "drain"]
        BY <3>2 DEF NextItem
      <4>. HIDE DEF i, j
      <4>. QED BY <1>0, <4>1 DEF PumpType
    <3>. QED BY <1>12, <3>1, <3>2
  <2>. QED BY <1>1, <2>1, <2>2 DEF LockedSteps
<1>13. CASE PersistRejectedReplay \/ PersistArchived \/ PersistIgnored \/ PersistRejection \/ PersistContent
            \/ StartRelay
  BY <1>2, <1>13 DEF PersistRejectedReplay, PersistArchived, PersistIgnored, PersistRejection, PersistContent,
                    Persist, StartRelay
<1>14. CASE FanOut \/ NoticeRefusal \/ NoticeBounce \/ AckFile
  BY <1>2, <1>14 DEF FanOut, NoticeRefusal, NoticeBounce, AckFile, LockedSteps
<1>15. CASE CompleteIntents \/ RelaySkip \/ RelayPick \/ SendAnswered \/ SendThrows \/ RecordResult
  BY <1>2, <1>15 DEF CompleteIntents, RelaySkip, RelayPick, SendAnswered, SendThrows, RecordResult, LockedSteps
<1>16. CASE RelayDone
  BY <1>2, <1>16 DEF RelayDone, LockedSteps
<1>17. CASE PumpFails
  BY <1>1, <1>17 DEF PumpFails, Stop, IdlePump, LockedSteps
<1>. QED
  BY <1>5, <1>6, <1>7, <1>8, <1>9, <1>11, <1>12, <1>13, <1>14, <1>15, <1>16, <1>17
     DEF Next, Intake, Relay, Post, Faults

(* Every variable keeps the shape the code gives it, and the pump and the  *)
(* posts hold the mutex by turns, whatever the constants are.              *)
THEOREM TypeCorrect == Spec => []TypeOK
<1>1. TypeOK /\ Control /\ [Next]_vars => TypeOK' /\ Control'
  BY TypeStep, PumpingStep, FanningStep, PostingStep DEF Control
<1>. QED
  BY <1>1, TypeInit, PTL DEF Spec

-----------------------------------------------------------------------------
(* What the archive records.                                               *)

(* An intent is journalled for a contact and a source that is archived.    *)
IntentsHaveSource ==
  \A n \in DOMAIN archive : IsIntent(n) => Archived(archive[n].src) # {} /\ archive[n].cid \in Cids

(* A result is that of an earlier intent, for the same recipient.          *)
ResultsMatchIntents ==
  \A n \in DOMAIN archive : IsResult(n) =>
    /\ archive[n].of \in 1..(n - 1) /\ IsIntent(archive[n].of)
    /\ archive[n].src = archive[archive[n].of].src /\ archive[n].cid = archive[archive[n].of].cid

OneResultPerRecipient == \A s \in Sources, c \in Cids : \A m, n \in ResultFor(s, c) : m = n

ArchiveInv ==
  /\ OneSourcePerItem /\ IntentsHaveSource /\ WorkIsMissingIntents
  /\ OneIntentPerRecipient /\ ResultsMatchIntents /\ OneResultPerRecipient

SourceKinds == {"message", "file", "intake_rejection"}

Appended(r, e) == archive' = Append(archive, r) /\ e = Len(archive) + 1

(* How each view of the archive changes when the record r is appended.     *)
LEMMA AfterAppend ==
  ASSUME TypeOK, NEW r \in ArchiveRecord, NEW e, Appended(r, e)
  PROVE  /\ e \in Nat /\ e \notin DOMAIN archive /\ e \in DOMAIN archive' /\ archive'[e] = r
         /\ DOMAIN archive' = DOMAIN archive \cup {e}
         /\ DOMAIN archive = 1..(e - 1)
         /\ \A n \in DOMAIN archive : n \in Nat /\ n < e /\ archive'[n] = archive[n] /\ archive[n] \in ArchiveRecord
<1>1. archive \in Seq(ArchiveRecord)
  BY DEF TypeOK
<1>. QED
  BY <1>1, AppendShape DEF Appended

LEMMA AfterAppendSources ==
  ASSUME TypeOK, NEW r \in ArchiveRecord, NEW e, Appended(r, e), NEW s
  PROVE  /\ SeqsOf(s)' = SeqsOf(s) \cup {n \in {e} : r.src = s /\ r.kind \in SourceKinds}
         /\ Archived(s)' = Archived(s) \cup {n \in {e} : r.src = s /\ r.kind \in {"message", "file"}}
<1>1. SeqsOf(s)' = SeqsOf(s) \cup {n \in {e} : r.src = s /\ r.kind \in SourceKinds}
  BY ZenonT(30), AfterAppend DEF SeqsOf, SourceKinds
<1>2. SeqsOf(s) \subseteq DOMAIN archive
  BY DEF SeqsOf
<1>. QED
  BY <1>1, <1>2, AfterAppend DEF Archived, SourceKinds, IsContent

LEMMA AfterAppendRelay ==
  ASSUME TypeOK, NEW r \in ArchiveRecord, NEW e, Appended(r, e), NEW s, NEW c
  PROVE  /\ IntentFor(s, c)' = IntentFor(s, c) \cup
              {n \in {e} : r.src = s /\ r.cid = c /\ r.kind = "relay_intent"}
         /\ ResultFor(s, c)' = ResultFor(s, c) \cup
              {n \in {e} : r.src = s /\ r.cid = c /\ r.kind = "relay_result"}
  BY ZenonT(30), AfterAppend DEF IntentFor, ResultFor, IsIntent, IsResult

-----------------------------------------------------------------------------
LEMMA ArchiveInit == Init => ArchiveInv
<1>. SUFFICES ASSUME Init PROVE ArchiveInv
  OBVIOUS
<1>1. archive = <<>> /\ work = {} /\ DOMAIN archive = {}
  BY DEF Init
<1>. QED
  BY <1>1 DEF ArchiveInv, OneSourcePerItem, IntentsHaveSource, WorkIsMissingIntents,
     OneIntentPerRecipient, ResultsMatchIntents, OneResultPerRecipient, SeqsOf, IntentFor, ResultFor

LEMMA IntentsKeepSource ==
  ASSUME TypeOK, IntentsHaveSource, NEW r \in ArchiveRecord, NEW e, Appended(r, e),
         r.kind = "relay_intent" => Archived(r.src) # {} /\ r.cid \in Cids
  PROVE  IntentsHaveSource'
<1>1. \A n \in DOMAIN archive' : archive'[n].kind = "relay_intent" =>
        Archived(archive'[n].src) # {} /\ archive'[n].cid \in Cids
  <2>1. archive'[e] = r /\ DOMAIN archive' = DOMAIN archive \cup {e}
        /\ \A n \in DOMAIN archive : archive'[n] = archive[n]
    BY AfterAppend
  <2>2. \A n \in DOMAIN archive : archive[n].kind = "relay_intent" =>
          Archived(archive[n].src) # {} /\ archive[n].cid \in Cids
    BY DEF IntentsHaveSource, IsIntent
  <2>. QED
    BY <2>1, <2>2
<1>2. \A n \in DOMAIN archive : IsContent(n) => archive'[n].kind \in {"message", "file"}
  BY AfterAppend DEF IsContent
<1>3. \A s : \A k \in Archived(s) : k \in Archived(s)'
  BY AfterAppendSources
<1>. SUFFICES ASSUME NEW n \in DOMAIN archive', archive'[n].kind = "relay_intent"
              PROVE  (Archived(archive[n].src) # {})'
  BY <1>1 DEF IntentsHaveSource, IsIntent
<1>. PICK k : k \in Archived(archive'[n].src)
  BY <1>1
<1>. QED
  BY ZenonT(30), <1>2, AfterAppend DEF Archived, SeqsOf, IsContent

LEMMA ResultsKeepIntents ==
  ASSUME TypeOK, ResultsMatchIntents, NEW r \in ArchiveRecord, NEW e, Appended(r, e),
         r.kind = "relay_result" =>
           /\ r.of \in DOMAIN archive /\ IsIntent(r.of)
           /\ r.src = archive[r.of].src /\ r.cid = archive[r.of].cid
  PROVE  ResultsMatchIntents'
<1>. SUFFICES ASSUME NEW n \in DOMAIN archive', archive'[n].kind = "relay_result"
              PROVE  /\ archive'[n].of \in 1..(n - 1) /\ archive'[archive'[n].of].kind = "relay_intent"
                     /\ archive'[n].src = archive'[archive'[n].of].src
                     /\ archive'[n].cid = archive'[archive'[n].of].cid
  BY DEF ResultsMatchIntents, IsResult, IsIntent
<1>1. CASE n \in DOMAIN archive
  <2>1. IsResult(n) /\ archive'[n] = archive[n] /\ n \in Nat /\ n < e /\ e \in Nat /\ DOMAIN archive = 1..(e - 1)
    BY <1>1, AfterAppend DEF IsResult
  <2>2. /\ archive[n].of \in 1..(n - 1) /\ IsIntent(archive[n].of)
        /\ archive[n].src = archive[archive[n].of].src /\ archive[n].cid = archive[archive[n].of].cid
    BY <1>1, <2>1 DEF ResultsMatchIntents
  <2>3. archive[n].of \in DOMAIN archive
    BY <2>1, <2>2
  <2>4. archive'[archive[n].of] = archive[archive[n].of]
    BY <2>3, AfterAppend
  <2>. QED
    BY <2>1, <2>2, <2>4 DEF IsIntent
<1>2. CASE n = e
  <2>1. archive'[n] = r /\ r.kind = "relay_result" /\ DOMAIN archive = 1..(e - 1)
    BY <1>2, AfterAppend
  <2>2. r.of \in 1..(n - 1) /\ archive'[r.of] = archive[r.of]
    BY <1>2, <2>1, AfterAppend
  <2>. QED
    BY <2>1, <2>2 DEF IsIntent
<1>3. n \in DOMAIN archive \/ n = e
  <2>1. DOMAIN archive' = DOMAIN archive \cup {e}
    BY AfterAppend
  <2>. QED
    BY <2>1
<1>. QED
  BY <1>1, <1>2, <1>3

LEMMA SourcesStaySingle ==
  ASSUME TypeOK, OneSourcePerItem, NEW r \in ArchiveRecord, NEW e, Appended(r, e),
         r.kind \in SourceKinds => SeqsOf(r.src) = {}
  PROVE  OneSourcePerItem'
<1>. SUFFICES ASSUME NEW s \in Sources, NEW m \in SeqsOf(s)', NEW n \in SeqsOf(s)' PROVE m = n
  BY DEF OneSourcePerItem
<1>. QED
  BY AfterAppendSources DEF OneSourcePerItem

LEMMA IntentsStaySingle ==
  ASSUME TypeOK, OneIntentPerRecipient, NEW r \in ArchiveRecord, NEW e, Appended(r, e),
         r.kind = "relay_intent" => IntentFor(r.src, r.cid) = {}
  PROVE  OneIntentPerRecipient'
<1>. SUFFICES ASSUME NEW s \in Sources, NEW c \in Cids, NEW m \in IntentFor(s, c)', NEW n \in IntentFor(s, c)'
              PROVE  m = n
  BY DEF OneIntentPerRecipient
<1>. QED
  BY AfterAppendRelay DEF OneIntentPerRecipient

LEMMA ResultsStaySingle ==
  ASSUME TypeOK, OneResultPerRecipient, NEW r \in ArchiveRecord, NEW e, Appended(r, e),
         r.kind = "relay_result" => ResultFor(r.src, r.cid) = {}
  PROVE  OneResultPerRecipient'
<1>. SUFFICES ASSUME NEW s \in Sources, NEW c \in Cids, NEW m \in ResultFor(s, c)', NEW n \in ResultFor(s, c)'
              PROVE  m = n
  BY DEF OneResultPerRecipient
<1>. QED
  BY AfterAppendRelay DEF OneResultPerRecipient

-----------------------------------------------------------------------------
(* The work table against the missing intents, append by append.           *)

Owing(w) == IsContent(w[1]) /\ w[2] \in archive[w[1]].to /\ IntentFor(archive[w[1]].src, w[2]) = {}

LEMMA WorkByPairs ==
  ASSUME TypeOK
  PROVE  WorkIsMissingIntents <=> \A k \in DOMAIN archive, c \in Cids : <<k, c>> \in work <=> Owing(<<k, c>>)
<1>1. WorkIsMissingIntents <=> work = {w \in (DOMAIN archive) \X Cids : Owing(w)}
  BY DEF WorkIsMissingIntents, Owing
<1>2. work \subseteq (DOMAIN archive) \X Cids
  BY DEF TypeOK
<1>. QED
  BY <1>1, <1>2

LEMMA WorkByPairsNext ==
  ASSUME TypeOK'
  PROVE  WorkIsMissingIntents' <=>
           \A k \in DOMAIN archive', c \in Cids : <<k, c>> \in work' <=> Owing(<<k, c>>)'
<1>1. WorkIsMissingIntents' <=> work' = {w \in (DOMAIN archive') \X Cids : Owing(w)'}
  BY DEF WorkIsMissingIntents, Owing
<1>2. work' \subseteq (DOMAIN archive') \X Cids
  BY DEF TypeOK
<1>. QED
  BY <1>1, <1>2

LEMMA OwingOld ==
  ASSUME TypeOK, NEW r \in ArchiveRecord, NEW e, Appended(r, e),
         NEW k \in DOMAIN archive, NEW c
  PROVE  Owing(<<k, c>>)' <=>
           Owing(<<k, c>>) /\ ~(r.kind = "relay_intent" /\ r.src = archive[k].src /\ r.cid = c)
<1>1. archive'[k] = archive[k]
  BY AfterAppend
<1>2. (IntentFor(archive[k].src, c) = {})' <=>
        IntentFor(archive[k].src, c) = {} /\ ~(r.kind = "relay_intent" /\ r.src = archive[k].src /\ r.cid = c)
  <2>1. \A s : IntentFor(s, c)' = IntentFor(s, c) \cup
                 {n \in {e} : r.src = s /\ r.cid = c /\ r.kind = "relay_intent"}
    BY AfterAppendRelay
  <2>2. \A s : IntentFor(s, c)' = {} <=> IntentFor(s, c) = {} /\ ~(r.kind = "relay_intent" /\ r.src = s /\ r.cid = c)
    BY <2>1
  <2>3. PICK s : s = archive[k].src
    OBVIOUS
  <2>. QED
    BY <1>1, <2>2, <2>3
<1>. QED
  BY <1>1, <1>2 DEF Owing, IsContent

(* The new record owes nobody unless it is content.                        *)
LEMMA OwingNew ==
  ASSUME TypeOK, NEW r \in ArchiveRecord, NEW e, Appended(r, e), NEW c
  PROVE  Owing(<<e, c>>)' <=>
           r.kind \in {"message", "file"} /\ c \in r.to /\ IntentFor(r.src, c) = {}
<1>1. archive'[e] = r
  BY AfterAppend
<1>2. r.kind \in {"message", "file"} => \A s : IntentFor(s, c)' = IntentFor(s, c)
  BY AfterAppendRelay
<1>3. r.kind \in {"message", "file"} =>
        ((IntentFor(archive[e].src, c) = {})' <=> IntentFor(r.src, c) = {})
  BY <1>1, <1>2
<1>. QED
  BY <1>1, <1>3 DEF Owing, IsContent

LEMMA WorkFollows ==
  ASSUME TypeOK, TypeOK', WorkIsMissingIntents, NEW r \in ArchiveRecord, NEW e, Appended(r, e),
         \A k \in DOMAIN archive, c \in Cids : <<k, c>> \in work' <=>
           <<k, c>> \in work /\ ~(r.kind = "relay_intent" /\ r.src = archive[k].src /\ r.cid = c),
         \A c \in Cids : <<e, c>> \in work' <=>
           r.kind \in {"message", "file"} /\ c \in r.to /\ IntentFor(r.src, c) = {}
  PROVE  WorkIsMissingIntents'
<1>1. DOMAIN archive' = DOMAIN archive \cup {e}
  BY AfterAppend
<1>2. ASSUME NEW k \in DOMAIN archive', NEW c \in Cids PROVE <<k, c>> \in work' <=> Owing(<<k, c>>)'
  <2>1. CASE k \in DOMAIN archive
    BY <2>1, WorkByPairs, OwingOld
  <2>2. CASE k = e
    BY <2>2, OwingNew
  <2>. QED
    BY <1>1, <2>1, <2>2
<1>. QED
  BY <1>2, WorkByPairsNext

-----------------------------------------------------------------------------
(* The invariant is inductive: one case for each kind of archive step.     *)

LEMMA ContentStep ==
  ASSUME TypeOK, TypeOK', ArchiveInv, NEW kind \in {"message", "file"}, NEW s \in Sources,
         NEW to \in SUBSET Cids, SeqsOf(s) = {}, AppendContent(kind, s, to)
  PROVE  ArchiveInv'
<1>. DEFINE r == Content(kind, s, to)
            e == Len(archive) + 1
<1>1. r \in ArchiveRecord /\ r.kind = kind /\ r.src = s /\ r.to = to
  BY DEF Content, Record, ArchiveRecord
<1>2. Appended(r, e) /\ work' = work \cup ({e} \X to)
  BY DEF AppendContent, Appended
<1>3. \A c : IntentFor(s, c) = {}
  BY DEF ArchiveInv, IntentsHaveSource, IntentFor, Archived
<1>. HIDE DEF r, e
<1>4. \A k \in DOMAIN archive, c \in Cids : <<k, c>> \in work' <=> <<k, c>> \in work
  <2>1. e \notin DOMAIN archive
    BY <1>1, <1>2, AfterAppend
  <2>. QED
    BY <1>2, <2>1
<1>5. \A c \in Cids : <<e, c>> \in work' <=> c \in to
  <2>1. \A c \in Cids : <<e, c>> \notin work
    BY <1>1, <1>2, WorkPair, AfterAppend
  <2>. QED
    BY <1>2, <2>1
<1>6. WorkIsMissingIntents'
  BY <1>1, <1>2, <1>3, <1>4, <1>5, WorkFollows DEF ArchiveInv
<1>7. OneSourcePerItem'
  BY <1>1, <1>2, SourcesStaySingle DEF ArchiveInv
<1>8. IntentsHaveSource' /\ ResultsMatchIntents'
  BY <1>1, <1>2, IntentsKeepSource, ResultsKeepIntents DEF ArchiveInv
<1>9. OneIntentPerRecipient' /\ OneResultPerRecipient'
  BY <1>1, <1>2, IntentsStaySingle, ResultsStaySingle DEF ArchiveInv
<1>. QED
  BY <1>6, <1>7, <1>8, <1>9 DEF ArchiveInv

LEMMA IntentStep ==
  ASSUME TypeOK, TypeOK', ArchiveInv, NEW k \in DOMAIN archive, NEW c \in Cids,
         <<k, c>> \in work, IsContent(k), AppendIntent(archive[k].src, c)
  PROVE  ArchiveInv'
<1>. DEFINE s == archive[k].src
            r == Intent(s, c)
            e == Len(archive) + 1
<1>0. archive[k] \in ArchiveRecord /\ s \in Sources
  BY NaturalSeqs DEF ArchiveRecord
<1>1. r \in ArchiveRecord /\ r.kind = "relay_intent" /\ r.src = s /\ r.cid = c
  BY <1>0 DEF Intent, Record, ArchiveRecord
<1>2. Appended(r, e) /\ work' = {w \in work : ~(w[2] = c /\ w[1] \in Archived(s))}
  BY DEF AppendIntent, Appended
<1>3. IntentFor(s, c) = {}
  BY WorkByPairs DEF ArchiveInv, Owing
<1>4. k \in Archived(s)
  BY DEF Archived, SeqsOf, IsContent
<1>. HIDE DEF r, e, s
<1>5. \A j \in DOMAIN archive, d \in Cids : <<j, d>> \in work' <=>
        <<j, d>> \in work /\ ~(s = archive[j].src /\ c = d)
  <2>1. \A j \in DOMAIN archive, d \in Cids : <<j, d>> \in work =>
          (j \in Archived(s) <=> s = archive[j].src)
    BY WorkByPairs, WorkPair DEF ArchiveInv, Owing, IsContent, Archived, SeqsOf
  <2>. QED
    BY <1>2, <2>1
<1>6. \A d \in Cids : <<e, d>> \notin work'
  BY <1>1, <1>2, WorkPair, AfterAppend
<1>7. WorkIsMissingIntents'
  BY <1>1, <1>2, <1>5, <1>6, WorkFollows DEF ArchiveInv
<1>8. OneSourcePerItem'
  BY <1>1, <1>2, SourcesStaySingle DEF ArchiveInv, SourceKinds
<1>9. IntentsHaveSource' /\ ResultsMatchIntents'
  BY <1>1, <1>2, <1>4, IntentsKeepSource, ResultsKeepIntents DEF ArchiveInv
<1>10. OneIntentPerRecipient' /\ OneResultPerRecipient'
  BY <1>1, <1>2, <1>3, IntentsStaySingle, ResultsStaySingle DEF ArchiveInv
<1>. QED
  BY <1>7, <1>8, <1>9, <1>10 DEF ArchiveInv

(* A recipient whose intent is unresolved has no result.                   *)
LEMMA NoResultYet ==
  ASSUME TypeOK, ArchiveInv, NEW n \in Unresolved
  PROVE  ResultFor(archive[n].src, archive[n].cid) = {}
<1>. DEFINE s == archive[n].src
            c == archive[n].cid
<1>. SUFFICES ASSUME NEW m \in ResultFor(s, c) PROVE FALSE
  OBVIOUS
<1>1. m \in DOMAIN archive /\ IsResult(m) /\ archive[m].src = s /\ archive[m].cid = c
  BY DEF ResultFor
<1>. DEFINE k == archive[m].of
<1>2. k \in 1..(m - 1) /\ IsIntent(k) /\ s = archive[k].src /\ c = archive[k].cid
  BY <1>1 DEF ArchiveInv, ResultsMatchIntents
<1>3. n \in DOMAIN archive /\ IsIntent(n) /\ k \in DOMAIN archive
  BY <1>1, <1>2, NaturalSeqs DEF Unresolved
<1>4. s \in Sources /\ c \in Cids /\ n \in IntentFor(s, c) /\ k \in IntentFor(s, c)
  BY <1>2, <1>3, NaturalSeqs DEF IntentFor, ArchiveRecord, ArchiveInv, IntentsHaveSource
<1>5. n = k
  BY <1>4 DEF ArchiveInv, OneIntentPerRecipient
<1>. QED
  BY <1>1, <1>5 DEF Unresolved, Resolved

LEMMA OtherStep ==
  ASSUME TypeOK, TypeOK', ArchiveInv, NEW r \in ArchiveRecord, AppendOther(r),
         \/ r.kind = "intake_rejection" /\ SeqsOf(r.src) = {}
         \/ /\ r.kind = "relay_result" /\ r.of \in Unresolved
            /\ r.src = archive[r.of].src /\ r.cid = archive[r.of].cid
  PROVE  ArchiveInv'
<1>. DEFINE e == Len(archive) + 1
<1>1. Appended(r, e) /\ work' = work
  BY DEF AppendOther, Appended
<1>. HIDE DEF e
<1>2. r.kind = "relay_result" => r.of \in DOMAIN archive /\ IsIntent(r.of) /\ archive[r.of] \in ArchiveRecord
  BY NaturalSeqs DEF Unresolved
<1>3. r.kind = "relay_result" => ResultFor(r.src, r.cid) = {}
  BY NoResultYet
<1>4. \A c \in Cids : <<e, c>> \notin work
  BY <1>1, WorkPair, AfterAppend
<1>5. WorkIsMissingIntents'
  BY <1>1, <1>4, WorkFollows DEF ArchiveInv
<1>6. OneSourcePerItem'
  BY <1>1, SourcesStaySingle DEF ArchiveInv, SourceKinds
<1>7. IntentsHaveSource' /\ ResultsMatchIntents'
  BY <1>1, <1>2, IntentsKeepSource, ResultsKeepIntents DEF ArchiveInv
<1>8. OneIntentPerRecipient' /\ OneResultPerRecipient'
  BY <1>1, <1>3, IntentsStaySingle, ResultsStaySingle DEF ArchiveInv
<1>. QED
  BY <1>5, <1>6, <1>7, <1>8 DEF ArchiveInv

LEMMA ArchiveInvStep ==
  ASSUME TypeOK, Control, ArchiveInv, [Next]_vars
  PROVE  ArchiveInv'
<1>0. TypeOK'
  BY TypeStep
<1>1. CASE UNCHANGED <<archive, work>>
  BY <1>1 DEF ArchiveInv, OneSourcePerItem, IntentsHaveSource, WorkIsMissingIntents, OneIntentPerRecipient,
     ResultsMatchIntents, OneResultPerRecipient, SeqsOf, Archived, IntentFor, ResultFor,
     IsContent, IsIntent, IsResult
<1>2. ASSUME NEW n \in Unresolved, NEW status \in {"queued", "send_failed", "skipped_removed"},
             AppendOther(Result(n, status))
      PROVE  ArchiveInv'
  <2>1. n \in Nat /\ archive[n] \in ArchiveRecord
    BY NaturalSeqs
  <2>2. /\ Result(n, status) \in ArchiveRecord
        /\ Result(n, status).kind = "relay_result" /\ Result(n, status).of = n
        /\ Result(n, status).src = archive[n].src /\ Result(n, status).cid = archive[n].cid
    BY <2>1 DEF Result, Record, ArchiveRecord
  <2>. QED
    BY <1>0, <1>2, <2>2, OtherStep
<1>3. ASSUME NEW s \in Sources, SeqsOf(s) = {}, AppendOther(Rejection(s))
      PROVE  ArchiveInv'
  <2>1. /\ Rejection(s) \in ArchiveRecord
        /\ Rejection(s).kind = "intake_rejection" /\ Rejection(s).src = s
    BY DEF Rejection, Record, ArchiveRecord
  <2>. QED
    BY <1>0, <1>3, <2>1, OtherStep
<1>4. ArchiveStep
  BY EveryStepIsAnArchiveStep
<1>. QED
  BY <1>0, <1>1, <1>2, <1>3, <1>4, ContentStep, IntentStep, Roles DEF ArchiveStep

LEMMA ArchiveAlways == Spec => [](TypeOK /\ Control /\ ArchiveInv)
<1>1. TypeOK /\ Control /\ [Next]_vars => TypeOK' /\ Control'
  BY TypeStep, PumpingStep, FanningStep, PostingStep DEF Control
<1>2. TypeOK /\ Control /\ ArchiveInv /\ [Next]_vars => ArchiveInv'
  BY ArchiveInvStep
<1>. QED
  BY <1>1, <1>2, TypeInit, ArchiveInit, PTL DEF Spec

-----------------------------------------------------------------------------
(* An item is archived or refused once, however often it is replayed and   *)
(* wherever the process dies between its append and its acknowledgement.   *)
THEOREM ItemsAreSettledOnce == Spec => []OneSourcePerItem
<1>1. ArchiveInv => OneSourcePerItem
  BY DEF ArchiveInv
<1>. QED
  BY <1>1, ArchiveAlways, PTL

(* The work table is the set of the recipients without an intent after     *)
(* every transaction, so what a crash or a batch of completeMessageIntents *)
(* left out is what the next pass completes.                               *)
THEOREM WorkTableIsExact == Spec => []WorkIsMissingIntents
<1>1. ArchiveInv => WorkIsMissingIntents
  BY DEF ArchiveInv
<1>. QED
  BY <1>1, ArchiveAlways, PTL

(* The four paths that journal intents never journal one twice.            *)
THEOREM IntentsAreUnique == Spec => []OneIntentPerRecipient
<1>1. ArchiveInv => OneIntentPerRecipient
  BY DEF ArchiveInv
<1>. QED
  BY <1>1, ArchiveAlways, PTL

(* A recipient of a source is concluded once, on an intent recorded before *)
(* the result: no retry of a pass concludes it again.                      *)
THEOREM ResultsAreUnique == Spec => []OneResultPerIntent
<1>1. ArchiveInv => OneResultPerIntent
  BY DEF ArchiveInv, OneResultPerIntent, OneResultPerRecipient, ResultsMatchIntents
<1>. QED
  BY <1>1, ArchiveAlways, PTL

(* The four together: after every replay, batch, failure and crash the     *)
(* archive tells one story per source and recipient.                       *)
THEOREM ArchiveStaysExact == Spec => []ArchiveIsExact
<1>1. OneSourcePerItem /\ WorkIsMissingIntents /\ OneIntentPerRecipient /\ OneResultPerIntent
      => ArchiveIsExact
  BY DEF ArchiveIsExact
<1>. QED
  BY <1>1, ItemsAreSettledOnce, WorkTableIsExact, IntentsAreUnique, ResultsAreUnique, PTL


-----------------------------------------------------------------------------
(* What a room reads and what leaves it, and that it implements            *)
(* RoomDelivery.                                                           *)

(* From its last look at the room to the SDK call that reads a row, the    *)
(* pump is not paused.                                                     *)
Attending ==
  pump.pc \in {"pull", "persist", "fan", "notice", "bounce", "ack", "ackfile"} => ~Paused

(* What is about to be acknowledged is settled.                            *)
Settling ==
  /\ pump.pc \in {"fan", "notice", "bounce", "ackfile"} => Settled(pump.item)
  /\ pump.pc = "ack" => Settled(pump.cur)
  /\ pump.pc \in {"persist", "fan", "notice", "bounce"} /\ pump.back = "ack" =>
       pump.item = pump.cur \/ Settled(pump.cur)

(* Whoever content was meant for had a seat, and seats are never forgotten. *)
Addressees == \A n \in DOMAIN archive : IsContent(n) => \A c \in archive[n].to : SeatsOf(c) # {}

(* The intent being sent is for a recipient of its source who is seated.   *)
Sending ==
  pump.pc \in {"sendnotice", "send", "result"} =>
    ~Dangling(pump.at) /\ (pump.pc # "result" => archive[pump.at].cid \in ActiveCids)

SentIsArchived == \A s \in Sources, c \in Cids : wire[<<s, c>>] # 0 => Archived(s) # {}

Refusing ==
  /\ \A i \in Items : told[i] <= 1 /\ (told[i] > 0 => Rejected(i) # {})
  /\ pump.pc = "notice" => Rejected(pump.item) # {} /\ told[pump.item] = 0

Bouncing ==
  /\ \A k \in DOMAIN bounces : bounces[k] # 0 => k \in DOMAIN room.seats /\ room.seats[k].bounced
  /\ pump.pc = "bounce" =>
       /\ pump.at \in DOMAIN room.seats /\ room.seats[pump.at].bounced
       /\ room.seats[pump.at].cid \notin ActiveCids
       /\ pump.at \in DOMAIN bounces => bounces[pump.at] = 0

Duty == Attending /\ Settling /\ Addressees /\ Sending /\ SentIsArchived /\ Refusing /\ Bouncing

-----------------------------------------------------------------------------
(* What a step leaves of the room: the seats stay in their places, with    *)
(* their marks; the room mutex keeps the room still; only a command that   *)
(* the pump itself pulls asks for a close.                                 *)
LEMMA RoomKept ==
  ASSUME TypeOK, Control, [Next]_vars
  PROVE  /\ pump.pc \in LockedSteps => room' = room
         /\ ~Paused => ~Paused' \/ pump'.pc \in {"drain", "next"}
         /\ \A k \in DOMAIN room.seats :
              /\ k \in DOMAIN room'.seats /\ room'.seats[k].cid = room.seats[k].cid
              /\ room.seats[k].bounced => room'.seats[k].bounced
<1>. USE DEF history, budget, world
<1>. DEFINE Kept == /\ pump.pc \in LockedSteps => room' = room
                    /\ ~Paused => ~Paused' \/ pump'.pc \in {"drain", "next"}
                    /\ \A k \in DOMAIN room.seats :
                         /\ k \in DOMAIN room'.seats /\ room'.seats[k].cid = room.seats[k].cid
                         /\ room.seats[k].bounced => room'.seats[k].bounced
<1>0. room \in RoomType /\ room.seats \in Seq(SeatType)
  BY DEF TypeOK, RoomType
<1>1. CASE UNCHANGED room
  BY <1>1 DEF Paused
<1>2. CASE DrainPull \/ AckPull
  <2>1. CASE UNCHANGED room
    BY <1>1, <2>1
  <2>2. ASSUME NEW i, HandleCommand(i), pump.pc \in {"pull", "ack"}, Goto("drain") \/ Goto("next") PROVE Kept
    <3>1. pump'.pc \in {"drain", "next"}
      BY <2>2 DEF Goto, TypeOK, PumpType
    <3>. QED
      BY <1>0, <2>2, <3>1 DEF HandleCommand, RoomType, LockedSteps
  <2>. QED
    BY <1>2, <2>1, <2>2 DEF DrainPull, AckPull
<1>3. CASE PersistIgnored
  <2>1. CASE UNCHANGED room
    BY <1>1, <2>1
  <2>2. ASSUME NEW k, room' = [room EXCEPT !.seats[k].bounced = TRUE], pump.pc = "persist" PROVE Kept
    <3>1. /\ room'.state = room.state /\ room'.lifecycle = room.lifecycle
          /\ room'.seats = [room.seats EXCEPT ![k] = [room.seats[k] EXCEPT !.bounced = TRUE]]
      BY <1>0, <2>2 DEF RoomType
    <3>2. \A j \in DOMAIN room.seats :
            /\ j \in DOMAIN room'.seats /\ room'.seats[j].cid = room.seats[j].cid
            /\ room.seats[j].bounced => room'.seats[j].bounced
      BY <3>1, SeatTyped DEF SeatType
    <3>. QED
      BY <2>2, <3>1, <3>2 DEF Paused, LockedSteps
  <2>. QED
    BY <1>3, <2>1, <2>2 DEF PersistIgnored, Persist
<1>4. CASE \E c \in Movers : Admit(c)
  <2>1. PICK c \in Movers : Admit(c)
    BY <1>4
  <2>2. /\ room'.state = room.state /\ room'.lifecycle = room.lifecycle
        /\ room'.seats = Append(room.seats, Seat(c))
    BY <1>0, <2>1 DEF Admit, RoomType
  <2>3. Seat(c) \in SeatType
    BY RelayConstants DEF Seat, SeatType
  <2>4. \A j \in DOMAIN room.seats : j \in DOMAIN room'.seats /\ room'.seats[j] = room.seats[j]
    BY <1>0, <2>2, <2>3, AppendShape
  <2>. QED
    BY <2>1, <2>2, <2>4 DEF Admit, Free, Paused
<1>5. ASSUME NEW k \in DOMAIN room.seats, Remove(k) PROVE Kept
  <2>1. /\ room'.state = room.state /\ room'.lifecycle = room.lifecycle
        /\ room'.seats = [room.seats EXCEPT ![k] = [room.seats[k] EXCEPT !.active = FALSE]]
    BY <1>0, <1>5 DEF Remove, RoomType
  <2>2. \A j \in DOMAIN room.seats :
          /\ j \in DOMAIN room'.seats /\ room'.seats[j].cid = room.seats[j].cid
          /\ room.seats[j].bounced => room'.seats[j].bounced
    BY <2>1, SeatTyped DEF SeatType
  <2>. QED
    BY <1>5, <2>1, <2>2 DEF Remove, Free, Paused
<1>6. CASE Activate \/ BeginClose \/ FinishClose \/ LifecycleFails
  BY <1>0, <1>6 DEF Activate, BeginClose, FinishClose, LifecycleFails, Free, Paused, RoomType
<1>7. ASSUME ~ DrainPull, ~ AckPull, ~ PersistIgnored, ~ Activate, ~ BeginClose, ~ FinishClose,
             ~ LifecycleFails, ~ \E c \in Movers : Admit(c), ~ \E k \in DOMAIN room.seats : Remove(k)
      PROVE  UNCHANGED room
  <2>1. Intake => UNCHANGED room
    BY <1>7 DEF Intake, DrainLook, ListInbox, NextItem, PausePump, PersistRejectedReplay, PersistArchived,
               PersistRejection, PersistContent, FanOut, NoticeRefusal, NoticeBounce, AckFile
  <2>2. Relay => UNCHANGED room
    BY DEF Relay, StartRelay, CompleteIntents, RelaySkip, RelayPick, SendAnswered, RecordResult, RelayDone
  <2>3. Post => UNCHANGED room
    BY DEF Post, PostMessage, PostIntent, PostDone
  <2>4. Membership => UNCHANGED room
    BY <1>7 DEF Membership
  <2>5. Faults => UNCHANGED room
    BY <1>7 DEF Faults, SendThrows, PumpFails, PostFails, Crash
  <2>6. (\E i \in Items : Arrive(i)) \/ StartPump \/ UNCHANGED vars => UNCHANGED room
    BY DEF Arrive, StartPump, vars
  <2>. QED
    BY <2>1, <2>2, <2>3, <2>4, <2>5, <2>6 DEF Next
<1>. QED
  BY <1>1, <1>2, <1>3, <1>4, <1>5, <1>6, <1>7

-----------------------------------------------------------------------------
(* How a step moves the pump, with what its guards have just established.  *)

(* Places where the pump holds nothing it would act on later.              *)
AtRest == {"idle", "drain", "list", "next", "settle", "complete", "relay"}

Persisting == {"persist", "fan", "notice", "bounce"}

PumpGoes(pc, item, cur, back) ==
  pump'.pc = pc /\ pump'.item = item /\ pump'.cur = cur /\ pump'.back = back

PumpStep ==
  \/ UNCHANGED pump
  \/ pump'.pc \in AtRest
  \/ pump.pc = "drain" /\ ~Paused /\ pump'.pc = "pull"
  \/ \E i \in Items :
       \/ pump.pc = "pull" /\ UNCHANGED room /\ PumpGoes("persist", i, pump.cur, "drain")
       \/ pump.pc = "ack" /\ UNCHANGED room /\ PumpGoes("persist", i, pump.cur, pump.back)
       \/ pump.pc = "next" /\ ~Paused /\ PumpGoes("persist", i, i, "ack")
       \/ pump.pc = "next" /\ ~Paused /\ PumpGoes("persist", i, pump.cur, "ackfile")
  \/ \E i \in Items, pc \in {"fan", "notice", "bounce", pump.back} :
       /\ pump.pc = "persist" /\ pump.item = i /\ Settled(i)' /\ PumpGoes(pc, i, pump.cur, pump.back)
       /\ (pc = "notice" => PersistRejection) /\ (pc = "bounce" => PersistIgnored)
  \/ \E pc \in {"fan", pump.back} :
       pump.pc = "fan" /\ PumpGoes(pc, pump.item, pump.cur, pump.back)
  \/ pump.pc \in {"notice", "bounce"} /\ PumpGoes(pump.back, pump.item, pump.cur, pump.back)
  \/ RelayPick /\ pump'.pc \in {"sendnotice", "send"}
  \/ SendAnswered /\ pump'.pc \in {"send", "result"}

(* What is settled stays settled: the archive and the drops only grow.     *)
LEMMA SettledStays ==
  ASSUME TypeOK, Control, [Next]_vars
  PROVE  /\ \A s : \A k \in Archived(s) : k \in Archived(s)'
         /\ \A s : \A k \in Rejected(s) : k \in Rejected(s)'
         /\ \A i : Settled(i) => Settled(i)'
<1>1. \A n \in DOMAIN archive : n \in DOMAIN archive' /\ archive'[n] = archive[n]
  BY EveryStepIsAnArchiveStep, ArchiveGrows DEF Control
<1>2. \A s : \A k \in SeqsOf(s) : k \in SeqsOf(s)' /\ archive'[k] = archive[k]
  BY <1>1 DEF SeqsOf
<1>3. \A s : \A k \in Archived(s) : k \in Archived(s)'
  BY <1>2 DEF Archived, IsContent
<1>4. \A s : \A k \in Rejected(s) : k \in Rejected(s)'
  BY <1>2 DEF Rejected, Archived, IsContent
<1>5. dropped \subseteq dropped'
  <2>. USE DEF history, budget, world
  <2>1. Intake => dropped \subseteq dropped'
    BY DEF Intake, DrainLook, DrainPull, ListInbox, NextItem, PausePump, PersistRejectedReplay, PersistArchived,
           PersistIgnored, PersistRejection, PersistContent, FanOut, NoticeRefusal, NoticeBounce, AckFile, AckPull
  <2>2. Relay => dropped' = dropped
    BY DEF Relay, StartRelay, CompleteIntents, RelaySkip, RelayPick, SendAnswered, RecordResult, RelayDone
  <2>3. Post \/ Membership => dropped' = dropped
    BY DEF Post, PostMessage, PostIntent, PostDone, Membership, Admit, Remove, Activate, BeginClose, FinishClose
  <2>4. Faults => dropped' = dropped
    BY DEF Faults, SendThrows, PumpFails, PostFails, LifecycleFails, Crash
  <2>5. (\E i \in Items : Arrive(i)) \/ StartPump \/ UNCHANGED vars => dropped' = dropped
    BY DEF Arrive, StartPump, vars
  <2>. QED
    BY <2>1, <2>2, <2>3, <2>4, <2>5 DEF Next
<1>. QED
  BY <1>2, <1>3, <1>4, <1>5 DEF Settled

LEMMA EveryStepIsAPumpStep ==
  ASSUME TypeOK, Control, [Next]_vars
  PROVE  PumpStep
<1>. USE DEF history, budget, world
<1>0. pump \in PumpType
  BY DEF TypeOK
<1>1. ASSUME NEW pc, Goto(pc) PROVE PumpGoes(pc, pump.item, pump.cur, pump.back)
  BY <1>0, <1>1 DEF Goto, PumpGoes, PumpType
<1>2. ASSUME NEW pc \in AtRest, Goto(pc) PROVE PumpStep
  BY <1>1, <1>2 DEF PumpGoes, PumpStep
<1>3. CASE pump' = IdlePump
  BY <1>3 DEF IdlePump, PumpStep, AtRest
<1>4. CASE StartPump \/ DrainLook
  <2>1. CASE StartPump
    BY <2>1 DEF StartPump, IdlePump, PumpStep, AtRest
  <2>2. CASE DrainLook
    BY <1>0, <2>2 DEF DrainLook, Goto, PumpStep, AtRest, PumpType
  <2>. QED
    BY <1>4, <2>1, <2>2
<1>5. CASE DrainPull \/ AckPull
  <2>. DEFINE i == Least(Rows)
  <2>1. i \in Items
    BY <1>5, OldestRow DEF DrainPull, AckPull, Rows
  <2>2. CASE Goto("drain") \/ Goto("next")
    BY <1>2, <2>2 DEF AtRest
  <2>3. CASE UNCHANGED room /\ pump.pc = "pull"
             /\ pump' = [pump EXCEPT !.pc = "persist", !.item = i, !.back = "drain"]
    <3>. HIDE DEF i
    <3>1. PumpGoes("persist", i, pump.cur, "drain")
      BY <1>0, <2>3 DEF PumpGoes, PumpType
    <3>. QED
      BY <2>1, <2>3, <3>1 DEF PumpStep
  <2>4. CASE UNCHANGED room /\ pump.pc = "ack" /\ pump' = [pump EXCEPT !.pc = "persist", !.item = i]
    <3>. HIDE DEF i
    <3>1. PumpGoes("persist", i, pump.cur, pump.back)
      BY <1>0, <2>4 DEF PumpGoes, PumpType
    <3>. QED
      BY <2>1, <2>4, <3>1 DEF PumpStep
  <2>. QED
    BY <1>5, <2>2, <2>3, <2>4 DEF DrainPull, AckPull
<1>6. CASE ListInbox
  BY <1>0, <1>6 DEF ListInbox, PumpStep, AtRest, PumpType
<1>7. CASE NextItem
  <2>1. CASE pump.msgs # {}
    <3>. DEFINE i == Least(pump.msgs)
    <3>1. i \in Items
      BY <2>1, OldestListed
    <3>2. pump' = [pump EXCEPT !.pc = "persist", !.cur = i, !.item = i, !.back = "ack", !.msgs = @ \ {i}]
      BY <1>7, <2>1 DEF NextItem
    <3>. HIDE DEF i
    <3>3. PumpGoes("persist", i, i, "ack")
      BY <1>0, <3>2 DEF PumpGoes, PumpType
    <3>. QED
      BY <1>7, <3>1, <3>3 DEF PumpStep, NextItem
  <2>2. CASE pump.msgs = {} /\ pump.files # {}
    <3>. DEFINE i == Least(pump.files)
    <3>1. i \in Items
      BY <2>2, OldestListed
    <3>2. pump' = [pump EXCEPT !.pc = "persist", !.item = i, !.back = "ackfile", !.files = @ \ {i}]
      BY <1>7, <2>2 DEF NextItem
    <3>. HIDE DEF i
    <3>3. PumpGoes("persist", i, pump.cur, "ackfile")
      BY <1>0, <3>2 DEF PumpGoes, PumpType
    <3>. QED
      BY <1>7, <3>1, <3>3 DEF PumpStep, NextItem
  <2>3. CASE pump.msgs = {} /\ pump.files = {}
    BY <1>0, <1>7, <2>3 DEF NextItem, PumpStep, AtRest, PumpType
  <2>. QED
    BY <2>1, <2>2, <2>3
<1>8. ASSUME NEW i \in Items, pump.item = i, pump.pc = "persist", Settled(i)', NEW pc \in {"fan", "notice", "bounce", pump.back},
             \/ Goto(pc)
             \/ \E B : pump' = [pump EXCEPT !.pc = pc, !.todo = B]
             \/ \E k : pump' = [pump EXCEPT !.pc = pc, !.at = k],
             pc = "notice" => PersistRejection, pc = "bounce" => PersistIgnored
      PROVE  PumpStep
  <2>1. PumpGoes(pc, pump.item, pump.cur, pump.back)
    BY <1>0, <1>8 DEF Goto, PumpGoes, PumpType
  <2>. QED
    BY <1>8, <2>1 DEF PumpStep
<1>20. (pump.pc = "persist" => pump.item \in Items) /\ pump.back \in {"drain", "ack", "ackfile"}
  BY <1>0 DEF Control, Pumping, PumpType
<1>9. CASE PersistRejectedReplay \/ PersistArchived
  <2>1. PICK j \in Items : j = pump.item
    BY <1>9, <1>20 DEF PersistRejectedReplay, PersistArchived, Persist
  <2>2. Settled(j)
    BY <1>9, <2>1 DEF PersistRejectedReplay, PersistArchived, Settled, Rejected, Archived
  <2>. QED
    BY <1>8, <1>9, <1>20, <2>1, <2>2, SettledStays DEF PersistRejectedReplay, PersistArchived, Persist
<1>10. CASE PersistIgnored
  <2>1. PICK j \in Items : j = pump.item
    BY <1>10, <1>20 DEF PersistIgnored, Persist
  <2>2. Settled(j)'
    BY <1>10, <2>1 DEF PersistIgnored, Settled
  <2>. QED
    BY <1>8, <1>10, <1>20, <2>1, <2>2 DEF PersistIgnored, Persist
<1>11. CASE PersistRejection \/ PersistContent
  <2>1. pump.item \in Sources
    BY <1>11 DEF PersistRejection, PersistContent, Persist, Control, Pumping, Sources
  <2>0. PICK j \in Items : j = pump.item
    BY <1>11, <1>20 DEF PersistRejection, PersistContent, Persist
  <2>2. PICK r \in ArchiveRecord : archive' = Append(archive, r) /\ r.src = pump.item /\ r.kind \in SourceKinds
    <3>1. CASE PersistRejection
      <4>1. /\ Rejection(pump.item) \in ArchiveRecord
            /\ Rejection(pump.item).src = pump.item /\ Rejection(pump.item).kind \in SourceKinds
        BY <2>1 DEF Rejection, Record, ArchiveRecord, SourceKinds
      <4>. QED
        BY <3>1, <4>1 DEF PersistRejection, AppendOther
    <3>2. CASE PersistContent
      <4>. DEFINE r == Content(Kind[pump.item], pump.item, Audience(pump.item))
      <4>1. Kind[pump.item] \in {"message", "file"} /\ Audience(pump.item) \subseteq Cids
        BY <3>2, Roles DEF PersistContent, Persist, Control, Pumping, Audience
      <4>2. r \in ArchiveRecord /\ r.src = pump.item /\ r.kind \in SourceKinds
        BY <2>1, <4>1 DEF Content, Record, ArchiveRecord, SourceKinds
      <4>. QED
        BY <3>2, <4>2 DEF PersistContent, AppendContent
    <3>. QED
      BY <1>11, <3>1, <3>2
  <2>3. SeqsOf(j)' # {}
    BY <2>0, <2>2, AfterAppendSources DEF Appended
  <2>4. Settled(j)'
    BY <2>3 DEF Settled
  <2>. QED
    BY <1>8, <1>11, <2>0, <2>4 DEF PersistRejection, PersistContent, Persist
<1>12. CASE FanOut
  <2>1. CASE Goto(pump.back)
    BY <1>1, <1>12, <2>1 DEF FanOut, PumpStep
  <2>2. ASSUME NEW c, pump' = [pump EXCEPT !.todo = @ \ {c}], pump.pc = "fan" PROVE PumpStep
    <3>1. PumpGoes("fan", pump.item, pump.cur, pump.back)
      BY <1>0, <2>2 DEF PumpGoes, PumpType
    <3>. QED
      BY <2>2, <3>1 DEF PumpStep
  <2>. QED
    BY <1>12, <2>1, <2>2 DEF FanOut
<1>13. CASE NoticeRefusal \/ NoticeBounce
  BY <1>1, <1>13 DEF NoticeRefusal, NoticeBounce, PumpStep
<1>14. CASE AckFile \/ StartRelay
  BY <1>2, <1>14 DEF AckFile, StartRelay, AtRest
<1>15. CASE CompleteIntents \/ RelaySkip \/ SendThrows \/ RecordResult
  <2>1. CASE CompleteIntents
    BY <1>0, <2>1 DEF CompleteIntents, PumpStep, AtRest, PumpType
  <2>2. CASE RelaySkip
    BY <1>0, <2>2 DEF RelaySkip, PumpStep, AtRest, PumpType
  <2>3. CASE SendThrows \/ RecordResult
    BY <1>0, <2>3 DEF SendThrows, RecordResult, PumpStep, AtRest, PumpType
  <2>. QED
    BY <1>15, <2>1, <2>2, <2>3
<1>16. CASE RelayPick
  <2>. DEFINE pc == IF SourceOf(Least(Pending)).kind = "file" THEN "sendnotice" ELSE "send"
  <2>1. pump' = [pump EXCEPT !.at = Least(Pending), !.pc = pc] /\ pc \in {"sendnotice", "send"} /\ pump.pc = "relay"
    BY <1>16 DEF RelayPick
  <2>. HIDE DEF pc
  <2>. QED
    BY <1>0, <1>16, <2>1 DEF PumpStep, PumpType
<1>17. CASE SendAnswered
  BY <1>0, <1>17 DEF SendAnswered, Goto, PumpStep, PumpType
<1>18. CASE PausePump \/ RelayDone \/ PumpFails \/ Crash
  BY <1>3, <1>18 DEF PausePump, RelayDone, PumpFails, Crash, Stop
<1>19. (\E i \in Items : Arrive(i)) \/ Post \/ Membership \/ PostFails \/ LifecycleFails \/ UNCHANGED vars
       => UNCHANGED pump
  BY DEF Arrive, Post, PostMessage, PostIntent, PostDone, Membership, Admit, Remove, Activate, BeginClose,
         FinishClose, PostFails, LifecycleFails, vars
<1>. QED
  BY <1>4, <1>5, <1>6, <1>7, <1>9, <1>10, <1>11, <1>12, <1>13, <1>14, <1>15, <1>16, <1>17, <1>18, <1>19
     DEF Next, Intake, Relay, Faults, PumpStep

LEMMA AttendingStep ==
  ASSUME TypeOK, Control, Attending, [Next]_vars
  PROVE  Attending'
<1>1. /\ ~Paused => ~Paused' \/ pump'.pc \in {"drain", "next"}
      /\ pump.back \in {"drain", "ack", "ackfile"}
  BY RoomKept DEF TypeOK, PumpType
<1>. QED
  BY <1>1, EveryStepIsAPumpStep DEF PumpStep, PumpGoes, Attending, AtRest

LEMMA SettlingStep ==
  ASSUME TypeOK, Control, Settling, [Next]_vars
  PROVE  Settling'
<1>1. (\A i : Settled(i) => Settled(i)') /\ pump.back \in {"drain", "ack", "ackfile"}
  BY SettledStays DEF TypeOK, PumpType
<1>. QED
  BY <1>1, EveryStepIsAPumpStep DEF PumpStep, PumpGoes, Settling, AtRest

-----------------------------------------------------------------------------
(* The views of the archive after a step.                                  *)

LEMMA ActiveHaveSeats ==
  ASSUME NEW c \in ActiveCids
  PROVE  SeatsOf(c) # {}
  BY DEF ActiveCids, SeatsOf

LEMMA SeatsStay ==
  ASSUME TypeOK, Control, [Next]_vars, NEW c, SeatsOf(c) # {}
  PROVE  SeatsOf(c)' # {}
<1>1. PICK k \in DOMAIN room.seats : room.seats[k].cid = c
  BY DEF SeatsOf
<1>2. k \in DOMAIN room'.seats /\ room'.seats[k].cid = c
  BY <1>1, RoomKept
<1>. QED
  BY <1>2 DEF SeatsOf

LEMMA AddresseesStep ==
  ASSUME TypeOK, Control, Addressees, [Next]_vars
  PROVE  Addressees'
<1>1. ArchiveStep
  BY EveryStepIsAnArchiveStep
<1>2. \A c : SeatsOf(c) # {} => SeatsOf(c)' # {}
  BY SeatsStay
<1>3. CASE UNCHANGED <<archive, work>>
  BY <1>2, <1>3 DEF Addressees, IsContent
<1>4. ASSUME NEW r \in ArchiveRecord, archive' = Append(archive, r),
             r.kind \in {"message", "file"} => r.to \subseteq ActiveCids
      PROVE  Addressees'
  <2>. DEFINE e == Len(archive) + 1
  <2>1. /\ archive'[e] = r /\ DOMAIN archive' = DOMAIN archive \cup {e}
        /\ \A n \in DOMAIN archive : archive'[n] = archive[n]
    BY <1>4, AfterAppend DEF Appended
  <2>. HIDE DEF e
  <2>. SUFFICES ASSUME NEW n \in DOMAIN archive', archive'[n].kind \in {"message", "file"},
                       NEW c \in archive'[n].to
                PROVE  SeatsOf(c)' # {}
    BY DEF Addressees, IsContent
  <2>2. CASE n \in DOMAIN archive
    BY <1>2, <2>1, <2>2 DEF Addressees, IsContent
  <2>3. CASE n = e
    BY <1>2, <1>4, <2>1, <2>3, ActiveHaveSeats
  <2>. QED
    BY <2>1, <2>2, <2>3
<1>5. ASSUME NEW kind \in {"message", "file"}, NEW s \in Sources, NEW to \in SUBSET ActiveCids, AppendContent(kind, s, to)
      PROVE  Addressees'
  <2>1. Content(kind, s, to) \in ArchiveRecord /\ Content(kind, s, to).to = to
    BY Roles DEF Content, Record, ArchiveRecord
  <2>. QED
    BY <1>4, <1>5, <2>1 DEF AppendContent
<1>6. ASSUME NEW k \in DOMAIN archive, NEW c \in Cids, AppendIntent(archive[k].src, c)
      PROVE  Addressees'
  <2>1. archive[k].src \in Sources
    BY NaturalSeqs DEF ArchiveRecord
  <2>2. Intent(archive[k].src, c) \in ArchiveRecord /\ Intent(archive[k].src, c).kind = "relay_intent"
    BY <2>1 DEF Intent, Record, ArchiveRecord
  <2>. QED
    BY <1>4, <1>6, <2>2 DEF AppendIntent
<1>7. ASSUME NEW n \in Unresolved, NEW status \in {"queued", "send_failed", "skipped_removed"},
             AppendOther(Result(n, status))
      PROVE  Addressees'
  <2>1. n \in Nat /\ archive[n].src \in Sources /\ archive[n].cid \in Cids \cup {NoCid}
    BY NaturalSeqs DEF ArchiveRecord
  <2>2. Result(n, status) \in ArchiveRecord /\ Result(n, status).kind = "relay_result"
    BY <2>1 DEF Result, Record, ArchiveRecord
  <2>. QED
    BY <1>4, <1>7, <2>2 DEF AppendOther
<1>8. ASSUME NEW s \in Sources, AppendOther(Rejection(s))
      PROVE  Addressees'
  <2>1. Rejection(s) \in ArchiveRecord /\ Rejection(s).kind = "intake_rejection"
    BY DEF Rejection, Record, ArchiveRecord
  <2>. QED
    BY <1>4, <1>8, <2>1 DEF AppendOther
<1>. QED
  BY <1>1, <1>3, <1>5, <1>6, <1>7, <1>8 DEF ArchiveStep

(* While an intent is being sent the archive is still.                     *)
LEMMA SendingKeepsArchive ==
  ASSUME TypeOK, Control, [Next]_vars, pump.pc \in {"sendnotice", "send", "result"}, pump' = pump
  PROVE  archive' = archive
<1>. USE DEF history, budget, world
<1>1. ~Intake
  BY DEF Intake, DrainLook, DrainPull, ListInbox, NextItem, PausePump, PersistRejectedReplay, PersistArchived,
         PersistIgnored, PersistRejection, PersistContent, Persist, FanOut, NoticeRefusal, NoticeBounce, AckFile, AckPull
<1>2. ~RecordResult
  BY DEF RecordResult, TypeOK, PumpType
<1>3. Relay => archive' = archive
  BY <1>2 DEF Relay, StartRelay, CompleteIntents, RelaySkip, RelayPick, SendAnswered, RelayDone
<1>4. Post => archive' = archive
  BY DEF Post, PostMessage, PostIntent, PostDone, Free, LockedSteps, Control, Posting
<1>5. Membership \/ Faults => archive' = archive
  BY DEF Membership, Admit, Remove, Activate, BeginClose, FinishClose,
         Faults, SendThrows, PumpFails, PostFails, LifecycleFails, Crash
<1>6. (\E i \in Items : Arrive(i)) \/ StartPump \/ UNCHANGED vars => archive' = archive
  BY DEF Arrive, StartPump, vars
<1>. QED
  BY <1>1, <1>3, <1>4, <1>5, <1>6 DEF Next

(* A picked intent stays one that may be sent while the room mutex is held. *)
LEMMA SendingStep ==
  ASSUME TypeOK, Control, ArchiveInv, Addressees, Sending, [Next]_vars
  PROVE  Sending'
<1>. USE DEF history, budget, world
<1>0. pump \in PumpType
  BY DEF TypeOK
<1>. DEFINE Rightly(n) == n \in DOMAIN archive /\ IsIntent(n) /\ ~Dangling(n)
<1>1. CASE pump'.pc \notin {"sendnotice", "send", "result"}
  BY <1>1 DEF Sending
<1>2. CASE UNCHANGED <<pump, archive>> /\ pump.pc \in {"sendnotice", "send", "result"}
  <2>1. room' = room
    BY <1>2, RoomKept DEF LockedSteps
  <2>. QED
    BY <1>2, <2>1 DEF Sending, Dangling, SourceOf, Archived, SeqsOf, IsContent, ActiveCids
<1>3. CASE RelayPick
  <2>. DEFINE n == Least(Pending)
              pc == IF SourceOf(n).kind = "file" THEN "sendnotice" ELSE "send"
  <2>1. n \in Unresolved
    BY <1>3, FirstPending DEF RelayPick
  <2>2. pump' = [pump EXCEPT !.at = n, !.pc = pc] /\ pc \in {"sendnotice", "send"}
        /\ ~Dangling(n) /\ ~Removed(n) /\ UNCHANGED <<archive, room>>
    BY <1>3 DEF RelayPick
  <2>. HIDE DEF n, pc
  <2>3. /\ Archived(archive[n].src) # {} /\ archive[n].cid \in SourceOf(n).to
    BY <2>2 DEF Dangling
  <2>4. Least(Archived(archive[n].src)) \in Archived(archive[n].src)
    BY <2>3, NaturalSeqs, LeastIn
  <2>5. SeatsOf(archive[n].cid) # {}
    BY <2>3, <2>4 DEF SourceOf, Addressees, Archived, SeqsOf
  <2>6. archive[n].cid \in ActiveCids
    BY <2>2, <2>5 DEF Removed, SeatsOf, ActiveCids, RemovedCids
  <2>7. pump'.at = n /\ archive' = archive /\ room' = room
    BY <1>0, <2>2 DEF PumpType
  <2>. QED
    BY <2>2, <2>6, <2>7 DEF Sending, Dangling, SourceOf, Archived, SeqsOf, IsContent, ActiveCids
<1>4. CASE SendAnswered
  <2>1. pump'.at = pump.at /\ UNCHANGED <<archive, room>> /\ pump.pc \in {"sendnotice", "send"}
    BY <1>0, <1>4 DEF SendAnswered, Goto, PumpType
  <2>. QED
    BY <2>1 DEF Sending, Dangling, SourceOf, Archived, SeqsOf, IsContent, ActiveCids
<1>5. CASE ~RelayPick /\ ~SendAnswered /\ pump'.pc \in {"sendnotice", "send", "result"}
  <2>1. pump' = pump
    BY <1>0, <1>5, EveryStepIsAPumpStep DEF PumpStep, PumpGoes, AtRest, PumpType
  <2>2. archive' = archive
    BY <1>5, <2>1, SendingKeepsArchive
  <2>. QED
    BY <1>2, <1>5, <2>1, <2>2
<1>. QED
  BY <1>1, <1>2, <1>3, <1>4, <1>5

(* What a send rests on: the intent is of a source that is archived, has   *)
(* no result yet, and its recipient is seated.                             *)
LEMMA SendsAreDue ==
  ASSUME TypeOK, Control, ArchiveInv, Sending, pump.pc \in {"sendnotice", "send"}
  PROVE  /\ Pair[1] \in Sources /\ Pair[2] \in Cids /\ Pair = <<Pair[1], Pair[2]>>
         /\ Owed(Pair[1], Pair[2]) /\ IntentFor(Pair[1], Pair[2]) # {} /\ Pair[2] \in ActiveCids
<1>. DEFINE n == pump.at
            s == archive[n].src
            c == archive[n].cid
<1>1. n \in Unresolved /\ n \in DOMAIN archive /\ IsIntent(n)
  BY DEF Control, Pumping, Unresolved
<1>2. c \in ActiveCids /\ Archived(s) # {} /\ c \in SourceOf(n).to
  BY DEF Sending, Dangling
<1>3. s \in Sources /\ c \in Cids
  BY <1>1, NaturalSeqs DEF ArchiveInv, IntentsHaveSource, ArchiveRecord
<1>4. n \in IntentFor(s, c)
  BY <1>1 DEF IntentFor
<1>5. Least(Archived(s)) \in Archived(s)
  BY <1>2, NaturalSeqs, LeastIn
<1>6. ResultFor(s, c) = {}
  BY <1>1, NoResultYet
<1>7. Owed(s, c)
  BY <1>2, <1>5, <1>6 DEF Owed, SourceOf
<1>8. Pair = <<s, c>>
  BY DEF Pair
<1>. HIDE DEF s, c, n
<1>. QED
  BY <1>2, <1>3, <1>4, <1>7, <1>8

(* Only the two outcomes of a send change what the SDK has taken.          *)
LEMMA WireStep ==
  ASSUME TypeOK, Control, [Next]_vars
  PROVE  \/ wire' = wire
         \/ /\ pump.pc = "send" /\ wire' = [wire EXCEPT ![Pair] = @ + 1]
            /\ UNCHANGED <<archive, room, work, bounces, told>>
<1>. USE DEF history, budget, world
<1>1. Intake => wire' = wire
  BY DEF Intake, DrainLook, DrainPull, ListInbox, NextItem, PausePump, PersistRejectedReplay, PersistArchived,
         PersistIgnored, PersistRejection, PersistContent, FanOut, NoticeRefusal, NoticeBounce, AckFile, AckPull
<1>2. Relay /\ ~SendAnswered => wire' = wire
  BY DEF Relay, StartRelay, CompleteIntents, RelaySkip, RelayPick, RecordResult, RelayDone
<1>3. Post \/ Membership => wire' = wire
  BY DEF Post, PostMessage, PostIntent, PostDone, Membership, Admit, Remove, Activate, BeginClose, FinishClose
<1>4. Faults /\ ~SendThrows => wire' = wire
  BY DEF Faults, PumpFails, PostFails, LifecycleFails, Crash
<1>5. (\E i \in Items : Arrive(i)) \/ StartPump \/ UNCHANGED vars => wire' = wire
  BY DEF Arrive, StartPump, vars
<1>. QED
  BY <1>1, <1>2, <1>3, <1>4, <1>5 DEF Next, SendAnswered, SendThrows

LEMMA SentStep ==
  ASSUME TypeOK, Control, ArchiveInv, Sending, SentIsArchived, [Next]_vars
  PROVE  SentIsArchived'
<1>1. \A s : Archived(s) # {} => Archived(s)' # {}
  BY SettledStays
<1>2. CASE wire' = wire
  BY <1>1, <1>2 DEF SentIsArchived
<1>3. CASE pump.pc = "send" /\ wire' = [wire EXCEPT ![Pair] = @ + 1]
  <2>1. Archived(Pair[1]) # {} /\ Pair = <<Pair[1], Pair[2]>>
    BY <1>3, SendsAreDue DEF Owed
  <2>2. \A s \in Sources, c \in Cids : wire'[<<s, c>>] = wire[<<s, c>>] \/ s = Pair[1]
    BY <1>3, <2>1 DEF TypeOK
  <2>. QED
    BY <1>1, <2>1, <2>2 DEF SentIsArchived
<1>. QED
  BY <1>2, <1>3, WireStep

(* Only the notice of a refusal changes `told`.                            *)
LEMMA RefusingStep ==
  ASSUME TypeOK, Control, Refusing, [Next]_vars
  PROVE  Refusing'
<1>. USE DEF history, budget, world
<1>0. pump \in PumpType /\ told \in [Items -> Nat] /\ pump.back \in {"drain", "ack", "ackfile"}
  BY DEF TypeOK, PumpType
<1>1. \A s : Rejected(s) # {} => Rejected(s)' # {}
  BY SettledStays
<1>2. CASE NoticeRefusal
  <2>1. PICK i \in Items : i = pump.item
    BY <1>2 DEF NoticeRefusal, Control, Pumping
  <2>2. Rejected(i) # {} /\ told[i] = 0
    BY <1>2, <2>1 DEF NoticeRefusal, Refusing
  <2>3. \A j \in Items : told'[j] = told[j] \/ (j = i /\ told'[j] \in {0, 1})
    BY <1>0, <1>2, <2>1, <2>2 DEF NoticeRefusal
  <2>4. pump'.pc # "notice"
    BY <1>0, <1>2 DEF NoticeRefusal, Goto, PumpType
  <2>. QED
    BY <1>0, <1>1, <2>2, <2>3, <2>4 DEF Refusing
<1>3. CASE PersistRejection
  <2>1. PICK i \in Items : i = pump.item
    BY <1>3 DEF PersistRejection, Persist, Control, Pumping
  <2>2. told[i] = 0
    BY <1>0, <1>3, <2>1 DEF PersistRejection, Refusing, Rejected
  <2>3. pump'.item = i /\ told' = told
    BY <1>0, <1>3, <2>1 DEF PersistRejection, Goto, PumpType
  <2>4. i \in Sources /\ Rejection(i) \in ArchiveRecord /\ Rejection(i).src = i /\ Rejection(i).kind = "intake_rejection"
    BY DEF Sources, Rejection, Record, ArchiveRecord
  <2>5. PICK e : Appended(Rejection(i), e)
    BY <1>3, <2>1 DEF PersistRejection, AppendOther, Appended
  <2>6. e \in SeqsOf(i)' /\ Archived(i)' = Archived(i)
    <3>1. /\ SeqsOf(i)' = SeqsOf(i) \cup {n \in {e} : Rejection(i).src = i /\ Rejection(i).kind \in SourceKinds}
          /\ Archived(i)' = Archived(i) \cup
               {n \in {e} : Rejection(i).src = i /\ Rejection(i).kind \in {"message", "file"}}
      BY <2>4, <2>5, AfterAppendSources
    <3>. QED
      BY <2>4, <3>1 DEF SourceKinds
  <2>7. Archived(i) \subseteq SeqsOf(i) /\ SeqsOf(i) = {}
    BY <1>3, <2>1, NaturalSeqs DEF PersistRejection
  <2>8. Rejected(i)' # {}
    BY <2>6, <2>7 DEF Rejected
  <2>. QED
    BY <1>1, <2>2, <2>3, <2>8 DEF Refusing
<1>4. CASE ~NoticeRefusal /\ ~PersistRejection
  <2>1. told' = told
    <3>1. Intake => told' = told
      BY <1>4 DEF Intake, DrainLook, DrainPull, ListInbox, NextItem, PausePump, PersistRejectedReplay, PersistArchived,
             PersistIgnored, PersistContent, FanOut, NoticeBounce, AckFile, AckPull
    <3>2. Relay => told' = told
      BY DEF Relay, StartRelay, CompleteIntents, RelaySkip, RelayPick, SendAnswered, RecordResult, RelayDone
    <3>3. Post \/ Membership => told' = told
      BY DEF Post, PostMessage, PostIntent, PostDone, Membership, Admit, Remove, Activate, BeginClose, FinishClose
    <3>4. Faults => told' = told
      BY DEF Faults, SendThrows, PumpFails, PostFails, LifecycleFails, Crash
    <3>5. (\E i \in Items : Arrive(i)) \/ StartPump \/ UNCHANGED vars => told' = told
      BY DEF Arrive, StartPump, vars
    <3>. QED
      BY <3>1, <3>2, <3>3, <3>4, <3>5 DEF Next
  <2>2. pump'.pc = "notice" => pump' = pump
    BY <1>0, <1>4, EveryStepIsAPumpStep DEF PumpStep, PumpGoes, AtRest, PumpType
  <2>. QED
    BY <1>1, <2>1, <2>2 DEF Refusing
<1>. QED
  BY <1>2, <1>3, <1>4

(* The bounce of a seat: marked first, told at most once.                  *)
LEMMA BouncingStep ==
  ASSUME TypeOK, Control, Bouncing, [Next]_vars
  PROVE  Bouncing'
<1>. USE DEF history, budget, world
<1>0. pump \in PumpType /\ bounces \in [1..MaxSeats -> Nat] /\ pump.back \in {"drain", "ack", "ackfile"}
      /\ room \in RoomType
  BY DEF TypeOK, PumpType
<1>1. \A k \in DOMAIN room.seats :
        k \in DOMAIN room'.seats /\ (room.seats[k].bounced => room'.seats[k].bounced)
  BY RoomKept
<1>2. CASE NoticeBounce
  <2>1. PICK n \in {0, 1} : bounces' = [bounces EXCEPT ![pump.at] = @ + n]
    BY <1>2 DEF NoticeBounce
  <2>2. pump.pc = "bounce" /\ pump'.pc # "bounce" /\ DOMAIN bounces' = DOMAIN bounces
    BY <1>0, <1>2, <2>1 DEF NoticeBounce, Goto, PumpType
  <2>3. \A k \in DOMAIN bounces : bounces'[k] = bounces[k] \/ k = pump.at
    BY <1>0, <2>1
  <2>. QED
    BY <1>1, <2>2, <2>3 DEF Bouncing
<1>3. CASE PersistIgnored /\ pump'.pc = "bounce"
  <2>. DEFINE k == Least(BounceSeat(pump.item))
  <2>1. BounceSeat(pump.item) # {}
    BY <1>0, <1>3 DEF PersistIgnored, Goto, PumpType
  <2>2. /\ k \in DOMAIN room.seats /\ room.seats[k].cid = Sender[pump.item]
        /\ ~room.seats[k].bounced /\ Sender[pump.item] \notin ActiveCids
    <3>. DEFINE removed == {j \in SeatsOf(Sender[pump.item]) : ~room.seats[j].active}
    <3>1. /\ removed # {} /\ ~Seated(pump.item) /\ ~room.seats[Least(removed)].bounced
          /\ BounceSeat(pump.item) = {Least(removed)}
      BY <2>1 DEF BounceSeat
    <3>2. removed \in SUBSET Nat
      BY <1>0 DEF SeatsOf, RoomType
    <3>3. Least(removed) \in removed
      BY <3>1, <3>2, LeastIn
    <3>4. \A x \in {Least(removed)} : x = Least(removed)
      OBVIOUS
    <3>5. Least(removed) \in Nat
      BY <3>2, <3>3
    <3>6. k = Least(removed)
      <4>1. {Least(removed)} \in SUBSET Nat /\ {Least(removed)} # {}
        BY <3>5
      <4>2. Least({Least(removed)}) \in {Least(removed)}
        BY <4>1, LeastIn
      <4>. QED
        BY <3>1, <4>2
    <3>. QED
      BY <3>1, <3>3, <3>6 DEF SeatsOf, Seated
  <2>3. /\ room' = [room EXCEPT !.seats[k].bounced = TRUE]
        /\ pump' = [pump EXCEPT !.pc = "bounce", !.at = k] /\ bounces' = bounces
    BY <1>3, <2>1 DEF PersistIgnored
  <2>. HIDE DEF k
  <2>4. room'.seats = [room.seats EXCEPT ![k] = [room.seats[k] EXCEPT !.bounced = TRUE]]
    BY <1>0, <2>3 DEF RoomType
  <2>5. /\ DOMAIN room'.seats = DOMAIN room.seats
        /\ \A j \in DOMAIN room.seats :
             room'.seats[j].cid = room.seats[j].cid /\ room'.seats[j].active = room.seats[j].active
        /\ room'.seats[k].bounced
    BY <2>2, <2>4, SeatTyped DEF SeatType
  <2>6. ActiveCids' = ActiveCids
    BY <2>5 DEF ActiveCids
  <2>7. pump'.at = k
    BY <1>0, <2>3 DEF PumpType
  <2>. QED
    BY <1>1, <2>2, <2>3, <2>5, <2>6, <2>7 DEF Bouncing
<1>4. CASE ~NoticeBounce /\ (pump'.pc = "bounce" => ~PersistIgnored)
  <2>1. bounces' = bounces
    <3>1. Intake => bounces' = bounces
      BY <1>4 DEF Intake, DrainLook, DrainPull, ListInbox, NextItem, PausePump, PersistRejectedReplay, PersistArchived,
             PersistIgnored, PersistRejection, PersistContent, FanOut, NoticeRefusal, AckFile, AckPull
    <3>2. Relay => bounces' = bounces
      BY DEF Relay, StartRelay, CompleteIntents, RelaySkip, RelayPick, SendAnswered, RecordResult, RelayDone
    <3>3. Post \/ Membership => bounces' = bounces
      BY DEF Post, PostMessage, PostIntent, PostDone, Membership, Admit, Remove, Activate, BeginClose, FinishClose
    <3>4. Faults => bounces' = bounces
      BY DEF Faults, SendThrows, PumpFails, PostFails, LifecycleFails, Crash
    <3>5. (\E i \in Items : Arrive(i)) \/ StartPump \/ UNCHANGED vars => bounces' = bounces
      BY DEF Arrive, StartPump, vars
    <3>. QED
      BY <3>1, <3>2, <3>3, <3>4, <3>5 DEF Next
  <2>2. pump'.pc = "bounce" => pump' = pump
    BY <1>0, <1>4, EveryStepIsAPumpStep DEF PumpStep, PumpGoes, AtRest, PumpType
  <2>3. pump'.pc = "bounce" => room' = room
    BY <2>2, RoomKept DEF LockedSteps
  <2>. QED
    BY <1>1, <2>1, <2>2, <2>3 DEF Bouncing, ActiveCids
<1>. QED
  BY <1>2, <1>3, <1>4

-----------------------------------------------------------------------------
LEMMA DutyInit == Init => Duty
<1>. SUFFICES ASSUME Init PROVE Duty
  OBVIOUS
<1>1. pump.pc = "idle" /\ archive = <<>> /\ DOMAIN archive = {}
  BY DEF Init, IdlePump
<1>2. /\ \A i \in Items : told[i] = 0
      /\ \A k \in DOMAIN bounces : bounces[k] = 0
      /\ \A s \in Sources, c \in Cids : wire[<<s, c>>] = 0
  BY DEF Init
<1>. QED
  BY <1>1, <1>2 DEF Duty, Attending, Settling, Addressees, Sending, SentIsArchived, Refusing, Bouncing

LEMMA DutyStep ==
  ASSUME TypeOK, Control, ArchiveInv, Duty, [Next]_vars
  PROVE  Duty'
  BY AttendingStep, SettlingStep, AddresseesStep, SendingStep, SentStep, RefusingStep, BouncingStep DEF Duty

LEMMA DutyAlways == Spec => [](TypeOK /\ Control /\ ArchiveInv /\ Duty)
<1>1. TypeOK /\ Control /\ ArchiveInv /\ Duty /\ [Next]_vars => Duty'
  BY DutyStep
<1>. QED
  BY <1>1, ArchiveAlways, DutyInit, PTL DEF Spec

-----------------------------------------------------------------------------
(* What the SDK reads.                                                     *)

(* A row is read by one of the three acknowledging calls, by a pump that   *)
(* has just seen the room unpaused: settled, or promoted with the read.    *)
LEMMA ReadStep ==
  ASSUME TypeOK, Control, Duty, [Next]_vars, NEW i \in Items, inbox'[i] = "read", inbox[i] # "read"
  PROVE  ~Paused /\ (Kind[i] = "command" \/ Settled(i) \/ i \in promoted')
<1>. USE DEF history, budget, world
<1>0. inbox \in [Items -> {"absent", "unread", "read"}]
  BY DEF TypeOK
<1>1. ASSUME NEW j, Read(j) PROVE i = j
  BY <1>0, <1>1 DEF Read
<1>2. CASE DrainPull
  <2>1. i = Least(Rows) /\ ~Paused
    BY <1>1, <1>2 DEF DrainPull, HandleCommand, Duty, Attending
  <2>. QED
    BY <1>2, <2>1 DEF DrainPull
<1>3. CASE AckPull
  <2>1. i = Least(Rows) /\ ~Paused /\ Settled(pump.cur)
    BY <1>1, <1>3 DEF AckPull, HandleCommand, Duty, Settling
  <2>. QED
    BY <1>3, <2>1 DEF AckPull
<1>4. CASE AckFile
  BY <1>1, <1>4 DEF AckFile, Duty, Attending, Settling
<1>5. CASE \E j \in Items : Arrive(j)
  BY <1>0, <1>5 DEF Arrive
<1>6. ASSUME ~DrainPull, ~AckPull, ~AckFile, ~\E j \in Items : Arrive(j) PROVE inbox' = inbox
  <2>1. Intake => inbox' = inbox
    BY <1>6 DEF Intake, DrainLook, ListInbox, NextItem, PausePump, PersistRejectedReplay, PersistArchived,
           PersistIgnored, PersistRejection, PersistContent, FanOut, NoticeRefusal, NoticeBounce
  <2>2. Relay => inbox' = inbox
    BY DEF Relay, StartRelay, CompleteIntents, RelaySkip, RelayPick, SendAnswered, RecordResult, RelayDone
  <2>3. Post \/ Membership => inbox' = inbox
    BY DEF Post, PostMessage, PostIntent, PostDone, Membership, Admit, Remove, Activate, BeginClose, FinishClose
  <2>4. Faults => inbox' = inbox
    BY DEF Faults, SendThrows, PumpFails, PostFails, LifecycleFails, Crash
  <2>5. StartPump \/ UNCHANGED vars => inbox' = inbox
    BY DEF StartPump, vars
  <2>. QED
    BY <1>6, <2>1, <2>2, <2>3, <2>4, <2>5 DEF Next
<1>. QED
  BY <1>2, <1>3, <1>4, <1>5, <1>6

(* What was promoted stays so.                                             *)
LEMMA PromotedStays ==
  ASSUME [Next]_vars
  PROVE  promoted \subseteq promoted'
<1>. USE DEF history, budget, world
<1>1. Intake => promoted \subseteq promoted'
  BY DEF Intake, DrainLook, DrainPull, ListInbox, NextItem, PausePump, PersistRejectedReplay, PersistArchived,
         PersistIgnored, PersistRejection, PersistContent, FanOut, NoticeRefusal, NoticeBounce, AckFile, AckPull
<1>2. Relay => promoted' = promoted
  BY DEF Relay, StartRelay, CompleteIntents, RelaySkip, RelayPick, SendAnswered, RecordResult, RelayDone
<1>3. Post \/ Membership => promoted' = promoted
  BY DEF Post, PostMessage, PostIntent, PostDone, Membership, Admit, Remove, Activate, BeginClose, FinishClose
<1>4. Faults => promoted' = promoted
  BY DEF Faults, SendThrows, PumpFails, PostFails, LifecycleFails, Crash
<1>5. (\E i \in Items : Arrive(i)) \/ StartPump \/ UNCHANGED vars => promoted' = promoted
  BY DEF Arrive, StartPump, vars
<1>. QED
  BY <1>1, <1>2, <1>3, <1>4, <1>5 DEF Next

(* A crash before the acknowledgement replays the row, never loses it: the *)
(* SDK has read only what drainRuntimeCommands, acknowledgeExpectedMessage *)
(* and acknowledgeFile settled first, or promoted and persist at once.     *)
THEOREM ReadRowsAreAccounted == Spec => []ReadIsSettledOrPromoted
<1>1. Init => ReadIsSettledOrPromoted
  BY DEF Init, ReadIsSettledOrPromoted
<1>2. ASSUME TypeOK, Control, ArchiveInv, Duty, ReadIsSettledOrPromoted, [Next]_vars
      PROVE  ReadIsSettledOrPromoted'
  <2>. SUFFICES ASSUME NEW i \in Items, inbox'[i] = "read", Kind[i] # "command"
                PROVE  Settled(i)' \/ i \in promoted'
    BY DEF ReadIsSettledOrPromoted
  <2>1. CASE inbox[i] = "read"
    BY <1>2, <2>1, SettledStays, PromotedStays DEF ReadIsSettledOrPromoted
  <2>2. CASE inbox[i] # "read"
    BY <1>2, <2>2, ReadStep, SettledStays
  <2>. QED
    BY <2>1, <2>2
<1>. QED
  BY <1>1, <1>2, DutyAlways, PTL DEF Spec

(* shouldPause is looked at before every call that consumes a row, and     *)
(* nothing can pause the room between the look and the call.               *)
THEOREM PausedRoomsConsumeNothing == Spec => PausedConsumesNothing
<1>1. ASSUME TypeOK, Control, ArchiveInv, Duty, [Next]_vars
      PROVE  [Paused => \A i \in Items : inbox'[i] = "read" => inbox[i] = "read"]_vars
  BY <1>1, ReadStep
<1>. QED
  BY <1>1, DutyAlways, PTL DEF Spec, PausedConsumesNothing

-----------------------------------------------------------------------------
(* What leaves the room.                                                   *)

LEMMA SendsStep ==
  ASSUME TypeOK, Control, ArchiveInv, Duty, [Next]_vars,
         NEW s \in Sources, NEW c \in Cids, wire'[<<s, c>>] # wire[<<s, c>>]
  PROVE  Owed(s, c) /\ IntentFor(s, c) # {} /\ c \in ActiveCids
<1>1. pump.pc = "send" /\ wire' = [wire EXCEPT ![Pair] = @ + 1]
  BY WireStep
<1>2. /\ Pair = <<Pair[1], Pair[2]>> /\ Owed(Pair[1], Pair[2])
      /\ IntentFor(Pair[1], Pair[2]) # {} /\ Pair[2] \in ActiveCids
  BY <1>1, SendsAreDue DEF Duty
<1>3. PICK x, y : x = Pair[1] /\ y = Pair[2]
  OBVIOUS
<1>4. <<s, c>> = <<x, y>>
  BY <1>1, <1>2, <1>3 DEF TypeOK
<1>5. s = x /\ c = y
  BY <1>4
<1>. QED
  BY <1>2, <1>3, <1>5

LEMMA BounceStep ==
  ASSUME TypeOK, Control, Duty, [Next]_vars, NEW k \in DOMAIN bounces, bounces'[k] # bounces[k]
  PROVE  bounces[k] = 0 /\ room.seats[k].bounced /\ room.seats[k].cid \notin ActiveCids
<1>. USE DEF history, budget, world
<1>1. NoticeBounce
  <2>1. Intake => NoticeBounce
    BY DEF Intake, DrainLook, DrainPull, ListInbox, NextItem, PausePump, PersistRejectedReplay, PersistArchived,
           PersistIgnored, PersistRejection, PersistContent, FanOut, NoticeRefusal, AckFile, AckPull
  <2>2. ~Relay
    BY DEF Relay, StartRelay, CompleteIntents, RelaySkip, RelayPick, SendAnswered, RecordResult, RelayDone
  <2>3. ~Post /\ ~Membership
    BY DEF Post, PostMessage, PostIntent, PostDone, Membership, Admit, Remove, Activate, BeginClose, FinishClose
  <2>4. ~Faults
    BY DEF Faults, SendThrows, PumpFails, PostFails, LifecycleFails, Crash
  <2>5. ~((\E i \in Items : Arrive(i)) \/ StartPump \/ UNCHANGED vars)
    BY DEF Arrive, StartPump, vars
  <2>. QED
    BY <2>1, <2>2, <2>3, <2>4, <2>5 DEF Next
<1>2. k = pump.at /\ pump.pc = "bounce"
  BY <1>1 DEF NoticeBounce, TypeOK
<1>. QED
  BY <1>2 DEF Duty, Bouncing

LEMMA RefusalsHold ==
  ASSUME TypeOK, ArchiveInv, Duty
  PROVE  RefusalsStayPrivate
<1>. SUFFICES ASSUME NEW i \in Items, Rejected(i) # {}
              PROVE  Archived(i) = {} /\ \A c \in Cids : wire[<<i, c>>] = 0
  BY DEF RefusalsStayPrivate, Duty, Refusing
<1>1. i \in Sources
  BY DEF Sources
<1>2. Archived(i) = {}
  BY <1>1, NaturalSeqs DEF Rejected, ArchiveInv, OneSourcePerItem
<1>. QED
  BY <1>1, <1>2 DEF Duty, SentIsArchived

(* Content is sent only on a journalled intent without a result whose      *)
(* recipient is seated under the same mutex hold; a former member hears    *)
(* once, after the mark is saved; a refusal reaches its author at most     *)
(* once and nobody else (relayPendingUnlocked, bounceRemovedSender,        *)
(* recordRejection).                                                       *)
THEOREM WhatLeavesIsDue == Spec => OnlyWhatIsDueLeaves
<1>1. ASSUME TypeOK, Control, ArchiveInv, Duty, [Next]_vars
      PROVE  [\A s \in Sources, c \in Cids :
                wire'[<<s, c>>] # wire[<<s, c>>] =>
                  Owed(s, c) /\ IntentFor(s, c) # {} /\ c \in ActiveCids]_vars
  BY <1>1, SendsStep
<1>2. ASSUME TypeOK, Control, ArchiveInv, Duty, [Next]_vars
      PROVE  [\A k \in DOMAIN bounces : bounces'[k] # bounces[k] =>
                /\ bounces[k] = 0 /\ room.seats[k].bounced
                /\ room.seats[k].cid \notin ActiveCids]_vars
  BY <1>2, BounceStep
<1>3. TypeOK /\ Control /\ ArchiveInv /\ Duty => RefusalsStayPrivate
  BY RefusalsHold
<1>. QED
  BY <1>1, <1>2, <1>3, DutyAlways, PTL DEF Spec, OnlyWhatIsDueLeaves, SendsAreOwed, BounceAtMostOnce

-----------------------------------------------------------------------------
(* The archive read as RoomDelivery: what each append does to the promise. *)

Meant(s, c) == \E k \in Archived(s) : c \in archive[k].to

LEMMA AfterAppendMeant ==
  ASSUME TypeOK, NEW r \in ArchiveRecord, NEW e, Appended(r, e), NEW s, NEW c
  PROVE  Meant(s, c)' <=> Meant(s, c) \/ (r.src = s /\ r.kind \in {"message", "file"} /\ c \in r.to)
<1>1. /\ e \notin DOMAIN archive /\ archive'[e] = r
      /\ \A k \in DOMAIN archive : archive'[k] = archive[k]
  BY AfterAppend
<1>2. Archived(s) \subseteq DOMAIN archive
  BY DEF Archived, SeqsOf
<1>3. Archived(s)' = Archived(s) \cup {n \in {e} : r.src = s /\ r.kind \in {"message", "file"}}
  BY AfterAppendSources
<1>4. Meant(s, c)' <=> \E k \in Archived(s)' : c \in archive'[k].to
  BY DEF Meant
<1>. QED
  BY <1>1, <1>2, <1>3, <1>4 DEF Meant

(* A result is recorded only where content is owed: the dangling intents   *)
(* are skipped without one.                                                *)
LEMMA ResultsAreOwed ==
  ASSUME TypeOK, Control, ArchiveInv, Duty, [Next]_vars,
         NEW n \in Unresolved, NEW status, AppendOther(Result(n, status))
  PROVE  /\ archive[n].src \in Sources /\ archive[n].cid \in Cids
         /\ Owed(archive[n].src, archive[n].cid)
<1>. USE DEF history, budget, world
<1>. DEFINE e == Len(archive) + 1
            last == archive'[e]
<1>0. archive \in Seq(ArchiveRecord)
  BY DEF TypeOK
<1>1. archive' # archive /\ last.kind = "relay_result" /\ last.of = n
  BY <1>0 DEF AppendOther, Result, Record
<1>2. ~Dangling(n)
  <2>1. CASE RelaySkip
    <3>1. archive' = Append(archive, Result(Least(Pending), "skipped_removed")) /\ ~Dangling(Least(Pending))
      BY <1>1, <2>1 DEF RelaySkip, AppendOther
    <3>2. last.of = Least(Pending)
      BY <1>0, <3>1 DEF Result, Record
    <3>. QED
      BY <1>1, <3>1, <3>2
  <2>2. CASE RecordResult
    <3>1. archive' = Append(archive, Result(pump.at, pump.status)) /\ ~Dangling(pump.at)
      BY <2>2 DEF RecordResult, AppendOther, Duty, Sending
    <3>2. last.of = pump.at
      BY <1>0, <3>1 DEF Result, Record
    <3>. QED
      BY <1>1, <3>1, <3>2
  <2>3. ASSUME NEW r, archive' = Append(archive, r), r.kind # "relay_result" PROVE FALSE
    BY <1>0, <1>1, <2>3
  <2>4. Intake => FALSE
    <3>1. PersistRejection => FALSE
      BY <2>3 DEF PersistRejection, AppendOther, Rejection, Record
    <3>2. PersistContent => FALSE
      <4>1. PersistContent => Kind[pump.item] # "relay_result"
        BY DEF PersistContent, Persist, Control, Pumping
      <4>. QED
        BY <2>3, <4>1 DEF PersistContent, AppendContent, Content, Record
    <3>3. FanOut => FALSE
      BY <1>1, <2>3 DEF FanOut, AppendIntent, Intent, Record
    <3>. QED
      BY <1>1, <3>1, <3>2, <3>3 DEF Intake, DrainLook, DrainPull, ListInbox, NextItem, PausePump, PersistRejectedReplay,
         PersistArchived, PersistIgnored, NoticeRefusal, NoticeBounce, AckFile, AckPull
  <2>5. Relay => RelaySkip \/ RecordResult
    <3>1. CompleteIntents => FALSE
      BY <1>1, <2>3 DEF CompleteIntents, AppendIntent, Intent, Record
    <3>. QED
      BY <1>1, <3>1 DEF Relay, StartRelay, RelayPick, SendAnswered, RelayDone
  <2>6. Post => FALSE
    <3>1. (\E p \in Posts : PostMessage(p)) => FALSE
      BY <2>3 DEF PostMessage, AppendContent, Content, Record
    <3>2. PostIntent => FALSE
      BY <2>3 DEF PostIntent, AppendIntent, Intent, Record
    <3>. QED
      BY <1>1, <3>1, <3>2 DEF Post, PostDone
  <2>7. Membership \/ Faults => FALSE
    BY <1>1 DEF Membership, Admit, Remove, Activate, BeginClose, FinishClose,
           Faults, SendThrows, PumpFails, PostFails, LifecycleFails, Crash
  <2>8. (\E i \in Items : Arrive(i)) \/ StartPump \/ UNCHANGED vars => FALSE
    BY <1>1 DEF Arrive, StartPump, vars
  <2>. QED
    BY <2>1, <2>2, <2>4, <2>5, <2>6, <2>7, <2>8 DEF Next
<1>3. PICK s, c : s = archive[n].src /\ c = archive[n].cid
  OBVIOUS
<1>4. n \in DOMAIN archive /\ IsIntent(n) /\ s \in Sources /\ c \in Cids
  BY <1>3, NaturalSeqs DEF Unresolved, ArchiveInv, IntentsHaveSource, ArchiveRecord
<1>5. ResultFor(s, c) = {}
  BY <1>3, NoResultYet
<1>6. Archived(s) # {} /\ c \in archive[Least(Archived(s))].to
  BY <1>2, <1>3 DEF Dangling, SourceOf
<1>7. Least(Archived(s)) \in Archived(s)
  BY <1>6, NaturalSeqs, LeastIn
<1>. QED
  BY <1>3, <1>4, <1>5, <1>6, <1>7 DEF Owed

(* The refinement mapping, named for the proof.                            *)
Intakes  == [s \in Sources |-> IF Rejected(s) # {} THEN "refused"
                               ELSE IF Archived(s) # {} THEN "accepted" ELSE "pending"]
Owes == {p \in Sources \X Cids : Owed(p[1], p[2])}
Concluded == {p \in Sources \X Cids : ResultFor(p[1], p[2]) # {}}

LEMMA DeliveryNext ==
  ASSUME \/ \E s \in Sources : /\ Intakes[s] = "pending"
                               /\ Intakes' = [Intakes EXCEPT ![s] = "refused"]
                               /\ UNCHANGED <<Owes, Concluded, wire>>
         \/ \E s \in Sources, audience \in SUBSET Cids :
              /\ Intakes[s] = "pending"
              /\ Intakes' = [Intakes EXCEPT ![s] = "accepted"]
              /\ Owes' = Owes \cup ({s} \X audience)
              /\ UNCHANGED <<Concluded, wire>>
         \/ \E p \in Sources \X Cids :
              /\ p \in Owes
              /\ wire' = [wire EXCEPT ![p] = @ + 1]
              /\ UNCHANGED <<Intakes, Owes, Concluded>>
         \/ \E p \in Sources \X Cids :
              /\ p \in Owes
              /\ Owes' = Owes \ {p} /\ Concluded' = Concluded \cup {p}
              /\ UNCHANGED <<Intakes, wire>>
         \/ UNCHANGED <<Intakes, Owes, Concluded, wire>>
  PROVE  [Delivery!Next]_(Delivery!vars)
  BY DEF Delivery!Next, Delivery!Accept, Delivery!Refuse, Delivery!Transmit, Delivery!Conclude,
     Delivery!vars, Intakes, Owes, Concluded

LEMMA DeliveryStep ==
  ASSUME TypeOK, Control, ArchiveInv, Duty, [Next]_vars
  PROVE  [Delivery!Next]_(Delivery!vars)
<1>0. archive \in Seq(ArchiveRecord)
  BY DEF TypeOK
<1>1. CASE UNCHANGED <<archive, work>>
  <2>1. UNCHANGED <<Intakes, Owes, Concluded>>
    BY <1>1 DEF Intakes, Owes, Concluded, Rejected, Archived, SeqsOf, ResultFor, Owed, IsContent, IsResult
  <2>2. CASE wire' = wire
    BY <2>1, <2>2, DeliveryNext
  <2>3. CASE pump.pc = "send" /\ wire' = [wire EXCEPT ![Pair] = @ + 1]
    <3>1. PICK p : p = Pair
      OBVIOUS
    <3>2. p \in Sources \X Cids /\ Owed(p[1], p[2])
      BY <2>3, <3>1, SendsAreDue DEF Duty
    <3>3. p \in Owes
      BY <3>2 DEF Owes
    <3>. QED
      BY <2>1, <2>3, <3>1, <3>2, <3>3, DeliveryNext
  <2>. QED
    BY <2>2, <2>3, WireStep
(* What an append does to the mapped state.                                *)
<1>2. ASSUME NEW r \in ArchiveRecord, NEW e, Appended(r, e)
      PROVE  /\ wire' = wire
             /\ Intakes' = [s \in Sources |->
                  IF Rejected(s) # {} \/ (r.src = s /\ r.kind = "intake_rejection") THEN "refused"
                  ELSE IF Archived(s) # {} \/ (r.src = s /\ r.kind \in {"message", "file"}) THEN "accepted"
                  ELSE "pending"]
             /\ Concluded' = Concluded \cup
                  {p \in Sources \X Cids : r.kind = "relay_result" /\ r.src = p[1] /\ r.cid = p[2]}
             /\ Owes' = {p \in Sources \X Cids :
                  /\ Meant(p[1], p[2]) \/ (r.src = p[1] /\ r.kind \in {"message", "file"} /\ p[2] \in r.to)
                  /\ ResultFor(p[1], p[2]) = {}
                  /\ ~(r.kind = "relay_result" /\ r.src = p[1] /\ r.cid = p[2])}
  <2>1. archive' # archive
    BY <1>0, <1>2 DEF Appended
  <2>2. wire' = wire
    BY <2>1, WireStep
  <2>3. /\ e \notin DOMAIN archive
        /\ \A s : SeqsOf(s) \subseteq DOMAIN archive /\ Archived(s) \subseteq SeqsOf(s)
    BY <1>2, AfterAppend, NaturalSeqs
  <2>4. \A s : /\ Archived(s)' = Archived(s) \cup {n \in {e} : r.src = s /\ r.kind \in {"message", "file"}}
               /\ SeqsOf(s)' = SeqsOf(s) \cup {n \in {e} : r.src = s /\ r.kind \in SourceKinds}
    BY <1>2, AfterAppendSources
  <2>5. \A s : Rejected(s)' = Rejected(s) \cup {n \in {e} : r.src = s /\ r.kind = "intake_rejection"}
    BY <2>3, <2>4 DEF Rejected, SourceKinds
  <2>6. \A s, c : ResultFor(s, c)' = ResultFor(s, c) \cup
                    {n \in {e} : r.src = s /\ r.cid = c /\ r.kind = "relay_result"}
    BY <1>2, AfterAppendRelay
  <2>7. \A s, c : Meant(s, c)' <=>
                    Meant(s, c) \/ (r.src = s /\ r.kind \in {"message", "file"} /\ c \in r.to)
    BY <1>2, AfterAppendMeant
  <2>8. \A s, c : Owed(s, c)' <=> Meant(s, c)' /\ ResultFor(s, c)' = {}
    BY DEF Owed, Meant
  <2>9. Intakes' = [s \in Sources |-> IF Rejected(s)' # {} THEN "refused"
                                      ELSE IF Archived(s)' # {} THEN "accepted" ELSE "pending"]
    BY DEF Intakes
  <2>10. Concluded' = {p \in Sources \X Cids : ResultFor(p[1], p[2])' # {}}
    BY DEF Concluded
  <2>11. Owes' = {p \in Sources \X Cids : Owed(p[1], p[2])'}
    BY DEF Owes
  <2>12. Concluded' = Concluded \cup
           {p \in Sources \X Cids : r.kind = "relay_result" /\ r.src = p[1] /\ r.cid = p[2]}
    BY <2>6, <2>10 DEF Concluded
  <2>13. Owes' = {p \in Sources \X Cids :
           /\ Meant(p[1], p[2]) \/ (r.src = p[1] /\ r.kind \in {"message", "file"} /\ p[2] \in r.to)
           /\ ResultFor(p[1], p[2]) = {}
           /\ ~(r.kind = "relay_result" /\ r.src = p[1] /\ r.cid = p[2])}
    BY <2>6, <2>7, <2>8, <2>11
  <2>14. \A s : /\ Rejected(s)' # {} <=> Rejected(s) # {} \/ (r.src = s /\ r.kind = "intake_rejection")
                /\ Archived(s)' # {} <=> Archived(s) # {} \/ (r.src = s /\ r.kind \in {"message", "file"})
    BY <2>4, <2>5
  <2>15. Intakes' = [s \in Sources |->
           IF Rejected(s) # {} \/ (r.src = s /\ r.kind = "intake_rejection") THEN "refused"
           ELSE IF Archived(s) # {} \/ (r.src = s /\ r.kind \in {"message", "file"}) THEN "accepted"
           ELSE "pending"]
    BY <2>9, <2>14
  <2>. QED
    BY <2>2, <2>12, <2>13, <2>15
<1>3. Owes = {p \in Sources \X Cids : Meant(p[1], p[2]) /\ ResultFor(p[1], p[2]) = {}}
  BY DEF Owes, Owed, Meant
<1>4. ASSUME NEW kind \in {"message", "file"}, NEW s \in Sources, NEW to \in SUBSET ActiveCids,
             SeqsOf(s) = {}, AppendContent(kind, s, to)
      PROVE  [Delivery!Next]_(Delivery!vars)
  <2>1. PICK r, e : r = Content(kind, s, to) /\ Appended(r, e)
    BY <1>4 DEF AppendContent, Appended
  <2>2. /\ r \in ArchiveRecord /\ r.kind = kind /\ r.src = s /\ r.to = to /\ to \in SUBSET Cids
    BY <2>1, Roles DEF Content, Record, ArchiveRecord
  <2>3. \A c : ResultFor(s, c) = {}
    <3>. SUFFICES ASSUME NEW c, NEW m \in ResultFor(s, c) PROVE FALSE
      OBVIOUS
    <3>1. m \in DOMAIN archive /\ IsResult(m) /\ archive[m].src = s
      BY DEF ResultFor
    <3>2. PICK k : k = archive[m].of
      OBVIOUS
    <3>3. k \in DOMAIN archive /\ IsIntent(k) /\ archive[k].src = s
      BY <3>1, <3>2, NaturalSeqs DEF ArchiveInv, ResultsMatchIntents
    <3>4. Archived(s) # {}
      BY <3>3 DEF ArchiveInv, IntentsHaveSource
    <3>. QED
      BY <1>4, <3>4, NaturalSeqs
  <2>4. /\ Rejected(s) = {} /\ Archived(s) = {} /\ Intakes[s] = "pending"
    BY <1>4 DEF Rejected, Archived, Intakes
  <2>5. Intakes' = [Intakes EXCEPT ![s] = "accepted"]
    <3>1. \A x \in Sources : Intakes'[x] = IF x = s THEN "accepted" ELSE Intakes[x]
      <4>1. \A x \in Sources : Intakes'[x] =
              IF Rejected(x) # {} \/ (r.src = x /\ r.kind = "intake_rejection") THEN "refused"
              ELSE IF Archived(x) # {} \/ (r.src = x /\ r.kind \in {"message", "file"}) THEN "accepted"
              ELSE "pending"
        BY <1>2, <2>1, <2>2
      <4>2. \A x \in Sources : Intakes[x] = IF Rejected(x) # {} THEN "refused"
                                            ELSE IF Archived(x) # {} THEN "accepted" ELSE "pending"
        BY DEF Intakes
      <4>. QED
        BY <2>1, <2>2, <2>4, <4>1, <4>2
    <3>2. Intakes = [x \in Sources |-> Intakes[x]] /\ Intakes' = [x \in Sources |-> Intakes'[x]]
      BY DEF Intakes
    <3>. QED
      BY <3>1, <3>2
  <2>6. Owes' = Owes \cup ({s} \X to)
    BY <1>2, <1>3, <2>1, <2>2, <2>3
  <2>7. Concluded' = Concluded /\ wire' = wire
    BY <1>2, <2>1, <2>2
  <2>. QED
    BY <2>2, <2>4, <2>5, <2>6, <2>7, DeliveryNext
<1>5. ASSUME NEW s \in Sources, SeqsOf(s) = {}, AppendOther(Rejection(s))
      PROVE  [Delivery!Next]_(Delivery!vars)
  <2>1. PICK r, e : r = Rejection(s) /\ Appended(r, e)
    BY <1>5 DEF AppendOther, Appended
  <2>2. /\ r \in ArchiveRecord /\ r.kind = "intake_rejection" /\ r.src = s
    BY <2>1 DEF Rejection, Record, ArchiveRecord
  <2>3. /\ Rejected(s) = {} /\ Archived(s) = {} /\ Intakes[s] = "pending"
    BY <1>5 DEF Rejected, Archived, Intakes
  <2>4. Intakes' = [Intakes EXCEPT ![s] = "refused"]
    <3>1. \A x \in Sources : Intakes'[x] = IF x = s THEN "refused" ELSE Intakes[x]
      <4>1. \A x \in Sources : Intakes'[x] =
              IF Rejected(x) # {} \/ (r.src = x /\ r.kind = "intake_rejection") THEN "refused"
              ELSE IF Archived(x) # {} \/ (r.src = x /\ r.kind \in {"message", "file"}) THEN "accepted"
              ELSE "pending"
        BY <1>2, <2>1, <2>2
      <4>2. \A x \in Sources : Intakes[x] = IF Rejected(x) # {} THEN "refused"
                                            ELSE IF Archived(x) # {} THEN "accepted" ELSE "pending"
        BY DEF Intakes
      <4>. QED
        BY <2>1, <2>2, <2>3, <4>1, <4>2
    <3>2. Intakes = [x \in Sources |-> Intakes[x]] /\ Intakes' = [x \in Sources |-> Intakes'[x]]
      BY DEF Intakes
    <3>. QED
      BY <3>1, <3>2
  <2>5. UNCHANGED <<Owes, Concluded, wire>>
    BY <1>2, <1>3, <2>1, <2>2
  <2>. QED
    BY <2>3, <2>4, <2>5, DeliveryNext
<1>6. ASSUME NEW k \in DOMAIN archive, NEW c \in Cids, AppendIntent(archive[k].src, c)
      PROVE  [Delivery!Next]_(Delivery!vars)
  <2>1. PICK r, e : r = Intent(archive[k].src, c) /\ Appended(r, e)
    BY <1>6 DEF AppendIntent, Appended
  <2>2. r \in ArchiveRecord /\ r.kind = "relay_intent"
    BY <2>1, NaturalSeqs DEF Intent, Record, ArchiveRecord
  <2>3. UNCHANGED <<Intakes, Owes, Concluded, wire>>
    BY <1>2, <1>3, <2>1, <2>2 DEF Intakes
  <2>. QED
    BY <2>3, DeliveryNext
<1>7. ASSUME NEW n \in Unresolved, NEW status \in {"queued", "send_failed", "skipped_removed"},
             AppendOther(Result(n, status))
      PROVE  [Delivery!Next]_(Delivery!vars)
  <2>1. PICK r, e : r = Result(n, status) /\ Appended(r, e)
    BY <1>7 DEF AppendOther, Appended
  <2>2. PICK p : p = <<archive[n].src, archive[n].cid>>
    OBVIOUS
  <2>3. p \in Owes
    BY <1>7, <2>2, ResultsAreOwed DEF Owes
  <2>4. /\ r \in ArchiveRecord /\ r.kind = "relay_result" /\ r.src = p[1] /\ r.cid = p[2]
    <3>1. n \in Nat /\ archive[n].src \in Sources /\ archive[n].cid \in Cids \cup {NoCid}
      BY NaturalSeqs DEF ArchiveRecord
    <3>. QED
      BY <2>1, <2>2, <3>1 DEF Result, Record, ArchiveRecord
  <2>5. \A q \in Sources \X Cids : (r.src = q[1] /\ r.cid = q[2]) <=> q = p
    BY <2>2, <2>4
  <2>6. p \in Sources \X Cids
    BY <2>3 DEF Owes
  <2>7. Owes' = Owes \ {p}
    BY <1>2, <1>3, <2>1, <2>4, <2>5
  <2>8. Concluded' = Concluded \cup {p}
    BY <1>2, <2>1, <2>4, <2>5, <2>6
  <2>9. Intakes' = Intakes /\ wire' = wire
    BY <1>2, <2>1, <2>4 DEF Intakes
  <2>. QED
    BY <2>3, <2>6, <2>7, <2>8, <2>9, DeliveryNext
<1>8. ArchiveStep
  BY EveryStepIsAnArchiveStep
<1>. QED
  BY <1>1, <1>4, <1>5, <1>6, <1>7, <1>8 DEF ArchiveStep

LEMMA DeliveryInit == Init => Delivery!Init
<1>. SUFFICES ASSUME Init PROVE Delivery!Init
  OBVIOUS
<1>1. archive = <<>> /\ DOMAIN archive = {} /\ wire = [p \in Sources \X Cids |-> 0]
  BY DEF Init
<1>. QED
  BY <1>1 DEF Delivery!Init, Rejected, Archived, SeqsOf, ResultFor, Owed

(* The room implements RoomDelivery for every inbox, membership and        *)
(* failure: a source is decided once; its audience is fixed with it and    *)
(* each member concluded once; copies leave only while they are owed.      *)
THEOREM RoomImplementsDelivery == Spec => ImplementsDelivery
<1>1. TypeOK /\ Control /\ ArchiveInv /\ Duty /\ [Next]_vars => [Delivery!Next]_(Delivery!vars)
  BY DeliveryStep
<1>. QED
  BY <1>1, DeliveryInit, DutyAlways, PTL DEF Spec, ImplementsDelivery, Delivery!Spec

=============================================================================

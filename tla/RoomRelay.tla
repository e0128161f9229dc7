------------------------------ MODULE RoomRelay ------------------------------
(***************************************************************************)
(* One room of ours-cowork: unread SDK items are archived, their relay     *)
(* intents journalled, the SDK rows acknowledged and the archived content  *)
(* relayed to the other seats (src/intake.ts, with the acknowledgement     *)
(* loops of src/packets.ts and the append transaction of                   *)
(* src/storage.ts).                                                        *)
(*                                                                         *)
(* Durable: inbox (the SDK's rows), room (room.json), archive and work     *)
(* (the tables of archive.sqlite3).  Volatile: pump, poster, hosted, wake. *)
(* The remaining variables record history for the properties.              *)
(*                                                                         *)
(* The room mutex is held while pump.pc is in LockedSteps or a REST post   *)
(* is appending, so membership and lifecycle actions ask for Free.         *)
(***************************************************************************)
EXTENDS Integers, Sequences, FiniteSets

CONSTANTS
  Items,        \* rows the SDK can hold, numbered by their SDK seq
  Posts,        \* messages REST callers author
  Cids,         \* contact identities
  NoCid,        \* the recipient field of a record without one
  Kind,         \* Items -> "message", "file" or "command" (room.close)
  Sender,       \* Items -> Cids
  Reply,        \* Items -> "plain", "linked" (parent resolves) or "dead"
  FirstSeats,   \* the identities seated when the room is restored
  FirstState,   \* the room state it is restored in
  SnapshotBatch,\* INTAKE_BATCH_SIZE
  IntentBatch,  \* DEFAULT_WORK_BATCH_SIZE of relayRecipientsNeedingIntent
  Movers,       \* bound: the identities that join and leave
  MayClose,     \* bound: whether the room is closed
  MaxSeats, MaxCrashes, MaxErrors \* bounds on the environment

ASSUME RelayConstants ==
  /\ Items \subseteq Nat /\ IsFiniteSet(Items)
  /\ Items \cap Posts = {}
  /\ IsFiniteSet(Cids) /\ NoCid \notin Cids
  /\ Kind \in [Items -> {"message", "file", "command"}]
  /\ Sender \in [Items -> Cids]
  /\ Reply \in [Items -> {"plain", "linked", "dead"}]
  /\ FirstSeats \in Seq(Cids)
  /\ FirstState \in {"provisioning", "active"}
  /\ SnapshotBatch \in Nat \ {0} /\ IntentBatch \in Nat \ {0}
  /\ Movers \subseteq Cids /\ MayClose \in BOOLEAN
  /\ MaxSeats \in Nat /\ MaxCrashes \in Nat /\ MaxErrors \in Nat

VARIABLES
  inbox,     \* Items -> "absent", "unread" or "read": the SDK's history rows
  room,      \* room.json: state, lifecycle_request pending, seats
  archive,   \* the records table; a record's seq is its index
  work,      \* relay_intent_work: pairs <<record seq, recipient>>
  pump,      \* the running drainAndRelay
  poster,    \* the REST post holding the mutex
  hosted,    \* the packet is attached in this process
  wake,      \* "watch": the watcher will (re)run the pump; "post": a coalesced resume
  dropped,   \* history: items consumed by policy without a record
  promoted,  \* history: items the SDK read ahead of the expected one
  told,      \* history: refusal notices sent per item
  bounces,   \* history: room_not_member notices sent per seat
  wire,      \* history: copies the SDK took, per source and recipient
  crashes, errors

vars == <<inbox, room, archive, work, pump, poster, hosted, wake,
          dropped, promoted, told, bounces, wire, crashes, errors>>
world   == <<poster, hosted, wake>>
history == <<dropped, promoted, told, bounces, wire>>
budget  == <<crashes, errors>>

Sources == Items \cup Posts
Least(S) == CHOOSE n \in S : \A m \in S : n <= m

-----------------------------------------------------------------------------
(* The archive *)

Record(kind, src, to, cid, of, status) ==
  [kind |-> kind, src |-> src, to |-> to, cid |-> cid, of |-> of, status |-> status]
Content(kind, src, to) == Record(kind, src, to, NoCid, 0, "none")
Intent(src, cid)       == Record("relay_intent", src, {}, cid, 0, "none")
Result(n, status)      == Record("relay_result", archive[n].src, {}, archive[n].cid, n, status)
Rejection(src)         == Record("intake_rejection", src, {}, NoCid, 0, "none")

IsContent(n) == archive[n].kind \in {"message", "file"}
IsIntent(n)  == archive[n].kind = "relay_intent"
IsResult(n)  == archive[n].kind = "relay_result"

SeqsOf(src) == {n \in DOMAIN archive :
                  /\ archive[n].src = src
                  /\ archive[n].kind \in {"message", "file", "intake_rejection"}}
Archived(src) == {n \in SeqsOf(src) : IsContent(n)}
Rejected(src) == SeqsOf(src) \ Archived(src)
Resolved(n)   == \E m \in DOMAIN archive : IsResult(m) /\ archive[m].of = n

(* Seeded faults stand before the definition they would replace: a slip    *)
(* the code could contain, which some property below must notice.          *)
UnresolvedRepeats == {n \in DOMAIN archive : IsIntent(n)}
Unresolved == {n \in DOMAIN archive : IsIntent(n) /\ ~Resolved(n)}

AppendContentLateSeq(kind, src, to) ==
  /\ archive' = Append(archive, Content(kind, src, to))
  /\ work' = work \cup ({Len(archive) + 2} \X to)
(* append: the record, its recipients and their work rows commit together *)
AppendContent(kind, src, to) ==
  /\ archive' = Append(archive, Content(kind, src, to))
  /\ work' = work \cup ({Len(archive) + 1} \X to)
(* append of a relay_intent deletes the work rows of its source *)
AppendIntent(src, cid) ==
  /\ archive' = Append(archive, Intent(src, cid))
  /\ work' = {w \in work : ~(w[2] = cid /\ w[1] \in Archived(src))}
AppendOther(rec) == archive' = Append(archive, rec) /\ UNCHANGED work

NeedIntent(k) == {w[2] : w \in {v \in work : v[1] = k}}
(* one call of relayRecipientsNeedingIntent, when it finds S *)
BatchesOf(S) ==
  {B \in SUBSET S : Cardinality(B) = IF Cardinality(S) <= IntentBatch
                                     THEN Cardinality(S) ELSE IntentBatch}

-----------------------------------------------------------------------------
(* The room *)

Seat(cid) == [cid |-> cid, active |-> TRUE, bounced |-> FALSE]
SeatsOf(cid) == {k \in DOMAIN room.seats : room.seats[k].cid = cid}
ActiveCids   == {room.seats[k].cid : k \in {j \in DOMAIN room.seats : room.seats[j].active}}
RemovedCids  == {room.seats[k].cid : k \in {j \in DOMAIN room.seats : ~room.seats[j].active}}
Paused == room.state = "provisioning" \/ room.lifecycle

LockedSteps == {"fan", "notice", "bounce", "ackfile", "complete", "relay",
                "sendnotice", "send", "result"}
SdkSteps    == {"drain", "pull", "list", "ack", "ackfile", "sendnotice", "send"}
NoPost == [seq |-> 0, todo |-> {}]
Free == poster = NoPost /\ pump.pc \notin LockedSteps

IdlePump == [pc |-> "idle", msgs |-> {}, files |-> {}, cur |-> 0, item |-> 0, back |-> "drain",
             todo |-> {}, at |-> 0, status |-> "none", failed |-> FALSE, watched |-> FALSE]

Init ==
  /\ inbox = [i \in Items |-> "absent"]
  /\ room = [state |-> FirstState, lifecycle |-> FALSE,
             seats |-> [k \in DOMAIN FirstSeats |-> Seat(FirstSeats[k])]]
  /\ archive = <<>> /\ work = {}
  /\ pump = IdlePump /\ poster = NoPost /\ hosted = TRUE /\ wake = "watch"
  /\ dropped = {} /\ promoted = {}
  /\ told = [i \in Items |-> 0]
  /\ bounces = [k \in 1..MaxSeats |-> 0]
  /\ wire = [p \in Sources \X Cids |-> 0]
  /\ crashes = 0 /\ errors = 0

-----------------------------------------------------------------------------
(* The SDK inbox and the intake side of the pump *)

Unread(kinds) == {i \in Items : inbox[i] = "unread" /\ Kind[i] \in kinds}
Rows == Unread({"message", "command"})
Read(i) == inbox' = [inbox EXCEPT ![i] = "read"]
Goto(pc) == pump' = [pump EXCEPT !.pc = pc]

(* The first rows of a listing, in SDK order, as many as the batch takes. *)
Snapshot(S) == {i \in S : Cardinality({j \in S : j < i}) < SnapshotBatch}
(* listUnreadMessages stops at the first unread command. *)
Listed == {i \in Unread({"message"}) : \A j \in Unread({"command"}) : i < j}

(* A row becomes visible, possibly behind rows already listed: an           *)
(* introduction promotes an older row.  The watcher is told.                *)
Arrive(i) ==
  /\ room.state # "closed" /\ inbox[i] = "absent"
  /\ inbox' = [inbox EXCEPT ![i] = "unread"]
  /\ wake' = IF hosted THEN "watch" ELSE wake
  /\ UNCHANGED <<hosted, room, archive, work, pump, poster, history, budget>>

StartPump ==
  /\ hosted /\ pump.pc = "idle" /\ wake # "none"
  /\ pump' = [IdlePump EXCEPT !.pc = "drain", !.watched = (wake = "watch")]
  /\ wake' = "none"
  /\ UNCHANGED <<hosted, inbox, room, archive, work, poster, history, budget>>

(* shouldPause before and inside drainRuntimeCommands, and in the loops *)
PausePump ==
  /\ Paused /\ pump.pc \in {"drain", "next", "settle"}
  /\ pump' = IdlePump
  /\ UNCHANGED <<inbox, room, archive, work, world, history, budget>>

DrainLookUnpaused ==
  /\ pump.pc = "drain" /\ hosted
  /\ Goto(IF Rows # {} /\ Kind[Least(Rows)] = "command" THEN "pull" ELSE "list")
  /\ UNCHANGED <<inbox, room, archive, work, world, history, budget>>
DrainLook ==
  /\ pump.pc = "drain" /\ hosted /\ ~Paused
  /\ Goto(IF Rows # {} /\ Kind[Least(Rows)] = "command" THEN "pull" ELSE "list")
  /\ UNCHANGED <<inbox, room, archive, work, world, history, budget>>

(* The SDK hands a typed command to sharedCommand, which accepts a close   *)
(* request of a seated caller by saving lifecycle_request.                 *)
HandleCommand(i) ==
  /\ Free /\ Read(i)
  /\ room' = [room EXCEPT !.lifecycle =
       room.lifecycle \/ (room.state = "active" /\ Sender[i] \in ActiveCids)]

DrainPull ==
  /\ pump.pc = "pull" /\ hosted /\ Rows # {}
  /\ LET i == Least(Rows) IN
     IF Kind[i] = "command"
     THEN HandleCommand(i) /\ Goto("drain") /\ UNCHANGED promoted
     ELSE /\ Read(i) /\ UNCHANGED room
          /\ promoted' = promoted \cup {i}
          /\ pump' = [pump EXCEPT !.pc = "persist", !.item = i, !.back = "drain"]
  /\ UNCHANGED <<archive, work, world, dropped, told, bounces, wire, budget>>

ListInbox ==
  /\ pump.pc = "list" /\ hosted
  /\ LET msgs  == Snapshot(Listed)
         files == Snapshot(Unread({"file"})) IN
     pump' = IF msgs = {} /\ files = {} THEN [pump EXCEPT !.pc = "settle"]
             ELSE [pump EXCEPT !.pc = "next", !.msgs = msgs, !.files = files]
  /\ UNCHANGED <<inbox, room, archive, work, world, history, budget>>

NextItemAckFirst ==
  /\ pump.pc = "next" /\ ~Paused /\ pump.msgs # {}
  /\ pump' = [pump EXCEPT !.pc = "ack", !.cur = Least(pump.msgs), !.item = Least(pump.msgs),
                          !.back = "next", !.msgs = @ \ {Least(pump.msgs)}]
  /\ UNCHANGED <<inbox, room, archive, work, world, history, budget>>
NextItem ==
  /\ pump.pc = "next" /\ ~Paused
  /\ pump' =
       IF pump.msgs # {}
       THEN LET i == Least(pump.msgs) IN
            [pump EXCEPT !.pc = "persist", !.cur = i, !.item = i, !.back = "ack",
                         !.msgs = @ \ {i}]
       ELSE IF pump.files # {}
       THEN LET i == Least(pump.files) IN
            [pump EXCEPT !.pc = "persist", !.item = i, !.back = "ackfile", !.files = @ \ {i}]
       ELSE [pump EXCEPT !.pc = "drain"]
  /\ UNCHANGED <<inbox, room, archive, work, world, history, budget>>

-----------------------------------------------------------------------------
(* processInboxItem and processFileInboxItem, under the room mutex *)

Seated(i) == Sender[i] \in ActiveCids
Known(i)  == SeatsOf(Sender[i]) # {}
Ignored(i) == ~Known(i) \/ (Reply[i] = "plain" /\ (room.state # "active" \/ ~Seated(i)))
(* freshScopeUnlocked throws: the authenticated reply has no usable parent *)
Unavailable(i) ==
  /\ Reply[i] # "plain"
  /\ Reply[i] = "dead" \/ room.state # "active" \/ room.lifecycle \/ ~Seated(i)
Audience(i) == ActiveCids \ {Sender[i]}

Persist == pump.pc = "persist" /\ poster = NoPost

PersistRejectedReplay ==
  /\ Persist /\ Rejected(pump.item) # {}
  /\ Goto(pump.back)
  /\ UNCHANGED <<inbox, room, archive, work, world, history, budget>>

PersistArchived ==
  /\ Persist /\ Archived(pump.item) # {}
  /\ \E B \in BatchesOf(NeedIntent(Least(Archived(pump.item)))) :
       pump' = [pump EXCEPT !.pc = "fan", !.todo = B]
  /\ UNCHANGED <<inbox, room, archive, work, world, history, budget>>

BounceSeatUnmarked(i) ==
  LET removed == {k \in SeatsOf(Sender[i]) : ~room.seats[k].active} IN
  IF removed # {} /\ room.state = "active" /\ ~Seated(i) THEN {Least(removed)} ELSE {}
(* bounceRemovedSender: the first removed seat of the sender, once *)
BounceSeat(i) ==
  LET removed == {k \in SeatsOf(Sender[i]) : ~room.seats[k].active} IN
  IF removed # {} /\ room.state = "active" /\ ~Seated(i)
     /\ ~room.seats[Least(removed)].bounced
  THEN {Least(removed)} ELSE {}

PersistIgnored ==
  /\ Persist /\ SeqsOf(pump.item) = {} /\ Ignored(pump.item)
  /\ dropped' = dropped \cup {pump.item}
  /\ IF BounceSeat(pump.item) = {}
     THEN Goto(pump.back) /\ UNCHANGED room
     ELSE LET k == Least(BounceSeat(pump.item)) IN
          /\ room' = [room EXCEPT !.seats[k].bounced = TRUE]
          /\ pump' = [pump EXCEPT !.pc = "bounce", !.at = k]
  /\ UNCHANGED <<inbox, archive, work, world, promoted, told, bounces, wire, budget>>

PersistRejection ==
  /\ Persist /\ SeqsOf(pump.item) = {} /\ ~Ignored(pump.item) /\ Unavailable(pump.item)
  /\ AppendOther(Rejection(pump.item))
  /\ Goto("notice")
  /\ UNCHANGED <<inbox, room, world, history, budget>>

PersistContentAgain ==
  /\ Persist /\ ~Ignored(pump.item) /\ ~Unavailable(pump.item)
  /\ AppendContent(Kind[pump.item], pump.item, Audience(pump.item))
  /\ \E B \in BatchesOf(Audience(pump.item)) :
       pump' = [pump EXCEPT !.pc = "fan", !.todo = B]
  /\ UNCHANGED <<inbox, room, world, history, budget>>
PersistContent ==
  /\ Persist /\ SeqsOf(pump.item) = {} /\ ~Ignored(pump.item) /\ ~Unavailable(pump.item)
  /\ AppendContent(Kind[pump.item], pump.item, Audience(pump.item))
  /\ \E B \in BatchesOf(Audience(pump.item)) :
       pump' = [pump EXCEPT !.pc = "fan", !.todo = B]
  /\ UNCHANGED <<inbox, room, world, history, budget>>

(* completeMessageIntents / completeFileIntents: the batch read once *)
FanOut ==
  /\ pump.pc = "fan"
  /\ IF pump.todo = {} THEN Goto(pump.back) /\ UNCHANGED <<archive, work>>
     ELSE \E c \in pump.todo :
            /\ AppendIntent(pump.item, c)
            /\ pump' = [pump EXCEPT !.todo = @ \ {c}]
  /\ UNCHANGED <<inbox, room, world, history, budget>>

(* The best-effort notices: the send may or may not be taken. *)
NoticeRefusal ==
  /\ pump.pc = "notice"
  /\ \E n \in {0, 1} : told' = [told EXCEPT ![pump.item] = @ + n]
  /\ Goto(pump.back)
  /\ UNCHANGED <<inbox, room, archive, work, world, dropped, promoted, bounces, wire, budget>>

NoticeBounce ==
  /\ pump.pc = "bounce"
  /\ \E n \in {0, 1} : bounces' = [bounces EXCEPT ![pump.at] = @ + n]
  /\ Goto(pump.back)
  /\ UNCHANGED <<inbox, room, archive, work, world, dropped, promoted, told, wire, budget>>

-----------------------------------------------------------------------------
(* Acknowledgement: the SDK reads its oldest unread row *)

AckFile ==
  /\ pump.pc = "ackfile" /\ hosted
  /\ Read(pump.item) /\ Goto("next")
  /\ UNCHANGED <<room, archive, work, world, history, budget>>

(* The oldest unread row is read.  The code also returns when the room is    *)
(* paused or no row is left, which this pump never meets: only a command    *)
(* it pulls itself pauses the room, and the expected row is still unread.   *)
AckPull ==
  /\ pump.pc = "ack" /\ hosted /\ ~Paused /\ Rows # {}
  /\ LET i == Least(Rows) IN
     IF Kind[i] = "command"
     THEN HandleCommand(i) /\ Goto("next") /\ UNCHANGED promoted
     ELSE /\ Read(i) /\ UNCHANGED room
          /\ IF i = pump.cur
             THEN Goto("next") /\ UNCHANGED promoted
             ELSE /\ pump' = [pump EXCEPT !.pc = "persist", !.item = i]
                  /\ promoted' = promoted \cup {i}
  /\ UNCHANGED <<archive, work, world, dropped, told, bounces, wire, budget>>

-----------------------------------------------------------------------------
(* relayPendingUnlocked, under the room mutex *)

StartRelay ==
  /\ pump.pc = "settle" /\ ~Paused /\ poster = NoPost
  /\ Goto("complete")
  /\ UNCHANGED <<inbox, room, archive, work, world, history, budget>>

(* completeSnapshotIntents: every remaining work row becomes an intent *)
CompleteIntents ==
  /\ pump.pc = "complete"
  /\ IF work = {} THEN pump' = [pump EXCEPT !.pc = "relay", !.at = 0] /\ UNCHANGED <<archive, work>>
     ELSE /\ \E c \in NeedIntent(Least({w[1] : w \in work})) :
               AppendIntent(archive[Least({w[1] : w \in work})].src, c)
          /\ UNCHANGED pump
  /\ UNCHANGED <<inbox, room, world, history, budget>>

Pending == {n \in Unresolved : n > pump.at}
SourceOf(n) == archive[Least(Archived(archive[n].src))]
Dangling(n) == Archived(archive[n].src) = {} \/ archive[n].cid \notin SourceOf(n).to
Removed(n)  == archive[n].cid \notin ActiveCids /\ archive[n].cid \in RemovedCids

RelaySkip ==
  /\ pump.pc = "relay" /\ Pending # {}
  /\ LET n == Least(Pending) IN
     /\ Dangling(n) \/ Removed(n)
     /\ pump' = [pump EXCEPT !.at = n]
     /\ IF Dangling(n) THEN UNCHANGED <<archive, work>>
        ELSE AppendOther(Result(n, "skipped_removed"))
  /\ UNCHANGED <<inbox, room, world, history, budget>>

(* A file's room_msg notice goes first, then its bytes. *)
RelayPick ==
  /\ pump.pc = "relay" /\ Pending # {}
  /\ LET n == Least(Pending) IN
     /\ ~Dangling(n) /\ ~Removed(n)
     /\ pump' = [pump EXCEPT !.at = n,
                   !.pc = IF SourceOf(n).kind = "file" THEN "sendnotice" ELSE "send"]
  /\ UNCHANGED <<inbox, room, archive, work, world, history, budget>>

Pair == <<archive[pump.at].src, archive[pump.at].cid>>

SendAnswered ==
  /\ pump.pc \in {"sendnotice", "send"} /\ hosted
  /\ \/ /\ pump.pc = "sendnotice" /\ Goto("send") /\ UNCHANGED wire
     \/ /\ pump.pc = "send"
        /\ pump' = [pump EXCEPT !.pc = "result", !.status = "queued"]
        /\ wire' = [wire EXCEPT ![Pair] = @ + 1]
     \/ /\ pump' = [pump EXCEPT !.pc = "result", !.status = "send_failed"]
        /\ UNCHANGED wire
  /\ UNCHANGED <<inbox, room, archive, work, world, dropped, promoted, told, bounces, budget>>

(* A thrown send may have been taken: the intent stays without a result. *)
SendThrows ==
  /\ pump.pc \in {"sendnotice", "send"} /\ errors < MaxErrors
  /\ errors' = errors + 1
  /\ pump' = [pump EXCEPT !.pc = "relay", !.failed = TRUE]
  /\ \/ UNCHANGED wire
     \/ pump.pc = "send" /\ wire' = [wire EXCEPT ![Pair] = @ + 1]
  /\ UNCHANGED <<inbox, room, archive, work, world, dropped, promoted, told, bounces, crashes>>

RecordResult ==
  /\ pump.pc = "result"
  /\ AppendOther(Result(pump.at, pump.status))
  /\ pump' = [pump EXCEPT !.pc = "relay", !.status = "none"]
  /\ UNCHANGED <<inbox, room, world, history, budget>>

StopForgets == pump' = IdlePump /\ wake' = "none"
(* A rejected pump: the watcher's announcement fails and is retried after  *)
(* its backoff; a resume that was only coalesced or posted is forgotten.   *)
Stop == /\ pump' = IdlePump
        /\ wake' = IF pump.watched \/ wake = "watch" THEN "watch" ELSE "none"

RelayDone ==
  /\ pump.pc = "relay" /\ Pending = {}
  /\ IF pump.failed THEN Stop ELSE pump' = IdlePump /\ UNCHANGED wake
  /\ UNCHANGED <<hosted, inbox, room, archive, work, poster, history, budget>>

PumpFails ==
  /\ pump.pc # "idle"
  /\ \/ ~hosted /\ pump.pc \in SdkSteps /\ UNCHANGED errors
     \/ errors < MaxErrors /\ errors' = errors + 1
  /\ Stop
  /\ UNCHANGED <<hosted, inbox, room, archive, work, poster, history, crashes>>

-----------------------------------------------------------------------------
(* REST posts: appendChatUnlocked, then resumePending *)

PostMessage(p) ==
  /\ Free /\ room.state = "active" /\ SeqsOf(p) = {}
  /\ AppendContent("message", p, ActiveCids)
  /\ poster' = [seq |-> Len(archive) + 1, todo |-> ActiveCids]
  /\ UNCHANGED <<inbox, room, pump, hosted, wake, history, budget>>

PostIntent ==
  /\ poster # NoPost /\ poster.todo # {}
  /\ \E c \in poster.todo :
       /\ AppendIntent(archive[poster.seq].src, c)
       /\ poster' = [poster EXCEPT !.todo = @ \ {c}]
  /\ UNCHANGED <<inbox, room, pump, hosted, wake, history, budget>>

PostDone ==
  /\ poster # NoPost /\ poster.todo = {}
  /\ poster' = NoPost
  /\ wake' = IF hosted /\ wake = "none" THEN "post" ELSE wake
  /\ UNCHANGED <<hosted, inbox, room, archive, work, pump, history, budget>>

PostFails ==
  /\ poster # NoPost /\ errors < MaxErrors
  /\ errors' = errors + 1 /\ poster' = NoPost
  /\ UNCHANGED <<inbox, room, archive, work, pump, hosted, wake, history, crashes>>

-----------------------------------------------------------------------------
(* Membership and lifecycle, each under the room mutex *)

Admit(c) ==
  /\ Free /\ room.state \in {"provisioning", "active"}
  /\ c \notin ActiveCids /\ Len(room.seats) < MaxSeats
  /\ room' = [room EXCEPT !.seats = Append(@, Seat(c))]
  /\ UNCHANGED <<inbox, archive, work, pump, world, history, budget>>

Remove(k) ==
  /\ Free /\ room.state \in {"provisioning", "active"} /\ room.seats[k].active
  /\ room.seats[k].cid \in Movers
  /\ room' = [room EXCEPT !.seats[k].active = FALSE]
  /\ UNCHANGED <<inbox, archive, work, pump, world, history, budget>>

Activate ==
  /\ Free /\ room.state = "provisioning" /\ ActiveCids # {}
  /\ room' = [room EXCEPT !.state = "active"]
  /\ wake' = "watch"
  /\ UNCHANGED <<hosted, inbox, archive, work, pump, poster, history, budget>>

BeginClose ==
  /\ MayClose /\ Free /\ room.state \in {"provisioning", "active"}
  /\ room' = [room EXCEPT !.state = "closing"]
  /\ UNCHANGED <<inbox, archive, work, pump, world, history, budget>>

(* resumeLifecycleRequest caught a failed close: state becomes "failed" *)
LifecycleFails ==
  /\ Free /\ room.lifecycle /\ room.state = "closing" /\ errors < MaxErrors
  /\ errors' = errors + 1
  /\ room' = [room EXCEPT !.lifecycle = FALSE]
  /\ UNCHANGED <<inbox, archive, work, pump, world, history, crashes>>

FinishClose ==
  /\ Free /\ room.state = "closing"
  /\ room' = [room EXCEPT !.state = "closed", !.lifecycle = FALSE]
  /\ hosted' = FALSE
  /\ UNCHANGED <<inbox, archive, work, pump, poster, wake, history, budget>>

(* The process dies between any two durable steps.  Boot hosts the room    *)
(* again and resumes it; a closing room is closed or left unhosted, and a  *)
(* pending close request is carried out instead of the fan-out.            *)
Crash ==
  /\ crashes < MaxCrashes /\ crashes' = crashes + 1
  /\ pump' = IdlePump /\ poster' = NoPost
  /\ hosted' = (room.state \in {"provisioning", "active"})
  /\ wake' = IF hosted' /\ ~room.lifecycle THEN "watch" ELSE "none"
  /\ UNCHANGED <<inbox, room, archive, work, history, errors>>

-----------------------------------------------------------------------------
Intake == \/ DrainLook \/ DrainPull \/ ListInbox \/ NextItem \/ PausePump
          \/ PersistRejectedReplay \/ PersistArchived \/ PersistIgnored
          \/ PersistRejection \/ PersistContent
          \/ FanOut \/ NoticeRefusal \/ NoticeBounce
          \/ AckFile \/ AckPull
Relay == \/ StartRelay \/ CompleteIntents \/ RelaySkip \/ RelayPick
         \/ SendAnswered \/ RecordResult \/ RelayDone
Post == (\E p \in Posts : PostMessage(p)) \/ PostIntent \/ PostDone
Membership == \/ \E c \in Movers : Admit(c)
              \/ \E k \in DOMAIN room.seats : Remove(k)
              \/ Activate \/ BeginClose \/ FinishClose
Faults == SendThrows \/ PumpFails \/ PostFails \/ LifecycleFails \/ Crash

Next == \/ \E i \in Items : Arrive(i)
        \/ StartPump \/ Intake \/ Relay \/ Post \/ Membership \/ Faults

Spec == Init /\ [][Next]_vars

(* The event loop keeps running what has been started, and an accepted     *)
(* close is carried out by afterPump or at the next boot.                  *)
Fairness ==
  /\ WF_vars(StartPump) /\ WF_vars(Intake) /\ WF_vars(Relay)
  /\ WF_vars(PumpFails /\ ~hosted)
  /\ WF_vars(PostIntent) /\ WF_vars(PostDone)
LiveSpec == Spec /\ Fairness

-----------------------------------------------------------------------------
(* Properties *)

ArchiveRecord ==
  [kind : {"message", "file", "relay_intent", "relay_result", "intake_rejection"},
   src : Sources, to : SUBSET Cids, cid : Cids \cup {NoCid}, of : Nat,
   status : {"none", "queued", "send_failed", "skipped_removed"}]

SeatType == [cid : Cids, active : BOOLEAN, bounced : BOOLEAN]
RoomType == [state : {"provisioning", "active", "closing", "closed"}, lifecycle : BOOLEAN,
             seats : Seq(SeatType)]
PumpType ==
  [pc : {"idle", "drain", "pull", "list", "next", "persist", "ack", "settle"} \cup LockedSteps,
   msgs : SUBSET Items, files : SUBSET Items, cur : Nat, item : Nat,
   back : {"drain", "ack", "ackfile"}, todo : SUBSET Cids, at : Nat,
   status : {"none", "queued", "send_failed"}, failed : BOOLEAN, watched : BOOLEAN]

(* Every variable has the shape the code gives it. *)
TypeOK ==
  /\ inbox \in [Items -> {"absent", "unread", "read"}]
  /\ room \in RoomType
  /\ archive \in Seq(ArchiveRecord)
  /\ work \subseteq (DOMAIN archive) \X Cids
  /\ pump \in PumpType
  /\ poster \in [seq : Nat, todo : SUBSET Cids]
  /\ hosted \in BOOLEAN /\ wake \in {"none", "post", "watch"}
  /\ dropped \subseteq Items /\ promoted \subseteq Items
  /\ told \in [Items -> Nat] /\ bounces \in [1..MaxSeats -> Nat]
  /\ wire \in [Sources \X Cids -> Nat]
  /\ crashes \in Nat /\ errors \in Nat

IntentFor(s, c)  == {n \in DOMAIN archive : IsIntent(n) /\ archive[n].src = s /\ archive[n].cid = c}
ResultFor(s, c)  == {n \in DOMAIN archive : IsResult(n) /\ archive[n].src = s /\ archive[n].cid = c}
Owed(s, c) == (\E k \in Archived(s) : c \in archive[k].to) /\ ResultFor(s, c) = {}

(* However often an item is replayed after a crash or a failed             *)
(* acknowledgement, it is archived or refused once, and not both.          *)
OneSourcePerItem == \A s \in Sources : \A m, n \in SeqsOf(s) : m = n

(* The work table holds exactly the recipients still without an intent, so *)
(* the next pass completes a fan-out that a crash or its batch cut short.  *)
WorkIsMissingIntents ==
  work = {w \in (DOMAIN archive) \X Cids :
            IsContent(w[1]) /\ w[2] \in archive[w[1]].to /\ IntentFor(archive[w[1]].src, w[2]) = {}}

(* The paths that write intents (intake, its replay, the pre-relay         *)
(* completion, a post) never journal two for one recipient of one source.  *)
OneIntentPerRecipient == \A s \in Sources, c \in Cids : \A m, n \in IntentFor(s, c) : m = n

(* A recipient is concluded once, and only on an intent. *)
OneResultPerIntent ==
  /\ \A s \in Sources, c \in Cids : \A m, n \in ResultFor(s, c) : m = n
  /\ \A n \in DOMAIN archive : IsResult(n) => archive[n].of \in 1..(n - 1) /\ IsIntent(archive[n].of)

(* The archive is exact, whatever was replayed, cut short or interrupted:  *)
(* what the intake, its replays and the relay append adds up to one story  *)
(* per source and recipient, and the work table says what is missing.      *)
ArchiveIsExact ==
  /\ OneSourcePerItem /\ WorkIsMissingIntents
  /\ OneIntentPerRecipient /\ OneResultPerIntent

(* Content goes only to a recipient the archive owes it: journalled, not   *)
(* yet concluded, and still seated when the send is made.                  *)
SendsAreOwed ==
  [][\A s \in Sources, c \in Cids :
       wire'[<<s, c>>] # wire[<<s, c>>] =>
         Owed(s, c) /\ IntentFor(s, c) # {} /\ c \in ActiveCids]_vars

Settled(i) == SeqsOf(i) # {} \/ i \in dropped

(* The SDK reads a row only once the archive has settled it, unless the    *)
(* row was promoted past the expected one: that one is read first.         *)
ReadIsSettledOrPromoted ==
  \A i \in Items : inbox[i] = "read" /\ Kind[i] # "command" => Settled(i) \/ i \in promoted

(* A refused reply is never relayed, its author gets at most one notice,   *)
(* and nothing of a stranger or a former member is archived.               *)
RefusalsStayPrivate ==
  \A i \in Items :
    /\ told[i] <= 1 /\ (told[i] > 0 => Rejected(i) # {})
    /\ Rejected(i) # {} => Archived(i) = {} /\ \A c \in Cids : wire[<<i, c>>] = 0

(* A removed seat is told it is no member at most once, after the mark is  *)
(* durable and never while its identity holds another active seat.         *)
BounceAtMostOnce ==
  [][\A k \in DOMAIN bounces : bounces'[k] # bounces[k] =>
       /\ bounces[k] = 0 /\ room.seats[k].bounced
       /\ room.seats[k].cid \notin ActiveCids]_vars

(* Whatever leaves the room is due: content to whom it is owed, a notice   *)
(* to a former member once, and of a refused reply one notice to its       *)
(* author (relayPendingUnlocked, bounceRemovedSender, recordRejection).    *)
OnlyWhatIsDueLeaves == SendsAreOwed /\ BounceAtMostOnce /\ []RefusalsStayPrivate

(* While the room is provisioning or a close request is pending the SDK    *)
(* keeps every row unread, whichever step of a pass the pause meets.       *)
PausedConsumesNothing ==
  [][Paused => \A i \in Items : inbox'[i] = "read" => inbox[i] = "read"]_vars

(* An unread row is consumed unless the room pauses or loses its packet. *)
UnreadIsDrained ==
  \A i \in Items : inbox[i] = "unread" ~> (inbox[i] = "read" \/ Paused \/ ~hosted)

(* Every recipient of an archived item reaches a result, through crashes   *)
(* and failed sends, because the watcher retries a failed pass.  A REST    *)
(* post is only promised this while no failure has happened: its resume is *)
(* not retried, and the next notification or boot picks the relay up.      *)
RecipientsConclude ==
  /\ \A i \in Items, c \in Cids : Owed(i, c) ~> (~Owed(i, c) \/ Paused \/ ~hosted)
  /\ \A p \in Posts, c \in Cids : Owed(p, c) ~> (~Owed(p, c) \/ Paused \/ ~hosted \/ errors > 0)

(* What comes in is taken in and what is owed is concluded (runPump and    *)
(* the follower's retry together).                                         *)
NothingStalls == UnreadIsDrained /\ RecipientsConclude

-----------------------------------------------------------------------------
(* What the room promises, in terms of what the archive records *)
Delivery == INSTANCE RoomDelivery WITH
  intake <- [s \in Sources |-> IF Rejected(s) # {} THEN "refused"
                               ELSE IF Archived(s) # {} THEN "accepted" ELSE "pending"],
  owed <- {p \in Sources \X Cids : Owed(p[1], p[2])},
  concluded <- {p \in Sources \X Cids : ResultFor(p[1], p[2]) # {}},
  copies <- wire
(* The room implements RoomDelivery: decided once, owed until concluded. *)
ImplementsDelivery == Delivery!Spec
=============================================================================

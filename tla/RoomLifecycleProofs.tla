------------------------- MODULE RoomLifecycleProofs -------------------------
(* Theorems about RoomLifecycle, for any peers, owner IDs and bounds.        *)
EXTENDS RoomLifecycle, FiniteSetTheorems, WellFoundedInduction, TLAPS

(* A set of positions has a first and a last one. *)
LEMMA Least == ASSUME NEW S, S \subseteq Nat, S # {} PROVE \E i \in S : \A k \in S : i <= k
<1>. DEFINE R == OpToRel(<, Nat)
<1>1. PICK i \in S : \A k \in S : ~(<<k, i>> \in R)
  BY NatLessThanWellFounded, WFMin
<1>2. \A a, b \in Nat : b < a => <<b, a>> \in R
  BY DEF OpToRel
<1>. HIDE DEF R
<1>3. ASSUME NEW k \in S PROVE i <= k
  <2>1. k \in Nat /\ i \in Nat OBVIOUS
  <2>2. ~(k < i) BY <1>1, <1>2, <2>1
  <2>. QED BY <2>1, <2>2
<1>. QED BY <1>3

LEMMA Greatest ==
  ASSUME NEW n \in Nat, NEW S, S \subseteq 1..n, S # {} PROVE \E i \in S : \A k \in S : k <= i
<1>. DEFINE D == {n - i : i \in S}
<1>1. D \subseteq Nat /\ D # {}
  <2>1. ASSUME NEW i \in S PROVE n - i \in Nat BY SMT
  <2>. QED BY <2>1
<1>2. \A k \in S : n - k \in D OBVIOUS
<1>3. \A d \in D : \E i \in S : d = n - i OBVIOUS
<1>. HIDE DEF D
<1>4. PICK d \in D : \A e \in D : d <= e BY <1>1, Least
<1>5. PICK i \in S : d = n - i BY <1>3
<1>6. ASSUME NEW k \in S PROVE k <= i
  <2>1. n - i <= n - k BY <1>2, <1>4, <1>5
  <2>2. k \in 1..n /\ i \in 1..n OBVIOUS
  <2>. QED BY <2>1, <2>2, SMT
<1>. QED BY <1>6

(* What the journal is searched for is one of its positions. *)
LEMMA Chosen ==
  ASSUME FilesOK, NEW S, S \subseteq DOMAIN journal, S # {}
  PROVE First(S) \in S /\ Last(S) \in S
<1>1. DOMAIN journal = 1..Len(journal) /\ Len(journal) \in Nat BY DEF FilesOK
<1>2. (\E i \in S : \A k \in S : i <= k) /\ (\E i \in S : \A k \in S : k <= i)
  <2>1. S \subseteq 1..Len(journal) BY <1>1
  <2>2. S \subseteq Nat BY <2>1
  <2>. QED BY <1>1, <2>1, <2>2, Least, Greatest
<1>. QED BY <1>2, Zenon DEF First, Last

LEMMA Minted == Unused # {} => NewOwner \in Unused BY Zenon DEF NewOwner
LEMMA OwnersAreNumbers == Owners \subseteq Nat /\ 0 \notin Owners /\ Stranger \notin Owners
  BY LifecycleConstants DEF Stranger

Held == {"remove", "result"}
Steps == {"none", "store", "mint", "create", "save", "register", "own", "fresh", "bind", "discard",
          "sentinel", "refresh", "settle", "notify", "remove", "result", "destroy", "release",
          "forget", "purge", "delete"}
Callers == {"operator", "request", "boot"}
Goals == {"none", "create", "recover", "close", "delete", "unhost", "stop"}
Jobs == [at : Steps, by : Callers, goal : Goals, owner : Nat, fresh : BOOLEAN,
         todo : SUBSET Peers, of : Nat, told : BOOLEAN]
Resumptions == {"no", "run", "mark"}
Identities == [cid : Nat, mine : BOOLEAN, contacts : SUBSET Peers, holder : Nat]
Packets == [cid : Nat, owner : Nat, contacts : SUBSET Peers]

(* The job's intent is in the journal, until its result is. *)
Pointed == job.at \in Held => job.of \in DOMAIN journal
Typed == TypeOK /\ Pointed
Quiet == job' \in Jobs /\ job'.at \notin Held /\ resuming' \in Resumptions /\ healthy' \in BOOLEAN

LEMMA NoJobTyped == NoJob \in Jobs /\ NoJob.at = "none"
BY DEF NoJob, Jobs, Callers, Goals, Steps
LEMMA Started ==
  ASSUME NEW by \in Callers, NEW goal \in Goals, NEW at \in Steps
  PROVE Start(by, goal, at) \in Jobs /\ Start(by, goal, at).at = at
<1>. HIDE DEF NoJob
<1>1. NoJob \in Jobs BY NoJobTyped
<1>. QED BY <1>1 DEF Start, Jobs

LEMMA ProceedQuiet == ASSUME FlowOK, NEW at \in Steps \ Held, Proceed(at) PROVE Quiet
<1>1. job \in Jobs BY DEF FlowOK, Jobs, Steps, Callers, Goals
<1>2. [job EXCEPT !.at = at] \in Jobs /\ [job EXCEPT !.at = at].at = at BY <1>1 DEF Jobs
<1>. QED BY <1>2 DEF Quiet, Proceed, FlowOK, Resumptions

LEMMA FinishQuiet == ASSUME FlowOK, Finish PROVE Quiet
BY NoJobTyped DEF Quiet, Finish, FlowOK, Resumptions, Held

LEMMA AbandonQuiet == ASSUME FlowOK, Abandon PROVE Quiet
<1>1. job' \in Jobs /\ job'.at \in {"none", "release"}
  <2>1. "boot" \in Callers /\ "unhost" \in Goals /\ "release" \in Steps BY DEF Callers, Goals, Steps
  <2>. QED BY <2>1, NoJobTyped, Started DEF Abandon
<1>2. resuming' \in Resumptions BY DEF Abandon, FlowOK, Resumptions
<1>3. healthy' \in BOOLEAN BY DEF Abandon
<1>. QED BY <1>1, <1>2, <1>3 DEF Quiet, Held

LEMMA QuietTyped == ASSUME FlowOK, Quiet, UNCHANGED phase PROVE FlowOK' /\ Pointed'
BY DEF FlowOK, Quiet, Pointed, Jobs, Steps, Callers, Goals, Resumptions

LEMMA Leased == ASSUME LeaseOK, NEW S, NEW o \in Nat
  PROVE /\ Freed(S) \in Identities /\ Bound(o) \in Identities
        /\ Bound(o).holder = o /\ Freed(S).holder \in {0} \cup ({sdk.holder} \ S)
        
<1>1. sdk \in Identities BY DEF LeaseOK, Identities
<1>2. [sdk EXCEPT !.holder = o] \in Identities /\ [sdk EXCEPT !.holder = o].holder = o
  BY <1>1 DEF Identities
<1>3. [sdk EXCEPT !.holder = 0] \in Identities /\ [sdk EXCEPT !.holder = 0].holder = 0
  BY <1>1 DEF Identities
<1>. QED BY <1>1, <1>2, <1>3 DEF Freed, Bound

LEMMA FilesChange ==
  Next => \/ UNCHANGED files
          \/ StoreCreate \/ DiscardPendingProvisioning \/ SaveCid \/ SettleAbsent
          \/ AppendCloseIntent \/ AppendCloseResult \/ Purge \/ StoreDelete \/ Crash
          \/ AcceptRequest \/ RunRequest \/ MarkFailed \/ ListRooms \/ CloseRoom \/ DeleteRoom
BY DEF files, Next, Worker, Requests, Boot, Operator, World, NameTaken, Mint, CreateIdentity,
    CreateIdentityFails, Discard, RegisterRuntimeCommands, RestoreMissing, Reconnect, Bind,
    Reassigned, BindFails, RefreshContacts, RefreshFails, CloseUnhosted, RemoveContact,
    RemoveContactFails, ContactsRemoved, RemoveIdentity, RemoveIdentityFails, ReleaseLease,
    ReleaseLeaseFails, ForgetOwner, EndSession, ResumeRequest, ListThrows, BootRestore,
    BootResume, BootClose, CreateRoom, RebindIdentity, Stop, ContactsChange, PacketRefresh,
    StrangerBinds, StrangerLeaves, NameUsed, NameFreed, RemoveOrphan

RoomStates == {"none", "pending", "open", "closing", "closed"}
Requested == [command : {"none", "close", "delete"},
              state : {"none", "pending", "failed", "completed"}]
Rooms == [state : RoomStates, cid : Nat, request : Requested]
Records == [peer : Peers, of : Nat, told : BOOLEAN, sure : BOOLEAN]

(* The ways room.json is rewritten. *)
LEMMA RoomEdits ==
  /\ NoRoom \in Rooms /\ Sentinel \in Rooms /\ <<>> \in Seq(Records)
  /\ \A r \in Rooms, s \in RoomStates : [r EXCEPT !.state = s] \in Rooms
  /\ \A r \in Rooms, s \in RoomStates, n \in Nat : [r EXCEPT !.state = s, !.cid = n] \in Rooms
  /\ \A r \in Rooms, q \in Requested : [r EXCEPT !.request = q] \in Rooms
  /\ \A r \in Rooms, s \in {"pending", "failed", "completed"} : [r EXCEPT !.request.state = s] \in Rooms
  /\ \A r \in Rooms : Completed(r) \in Rooms
<1>1. NoRoom \in Rooms /\ Sentinel \in Rooms
  BY DEF NoRoom, Sentinel, NoRequest, Rooms, RoomStates, Requested
<1>2. ASSUME NEW r \in Rooms, NEW s \in RoomStates PROVE [r EXCEPT !.state = s] \in Rooms
  BY DEF Rooms
<1>6. ASSUME NEW r \in Rooms, NEW s \in RoomStates, NEW n \in Nat
      PROVE [r EXCEPT !.state = s, !.cid = n] \in Rooms
  BY DEF Rooms
<1>3. ASSUME NEW r \in Rooms, NEW q \in Requested PROVE [r EXCEPT !.request = q] \in Rooms
  BY DEF Rooms
<1>4. ASSUME NEW r \in Rooms, NEW s \in {"pending", "failed", "completed"}
      PROVE [r EXCEPT !.request.state = s] \in Rooms
  BY DEF Rooms, Requested
<1>5. <<>> \in Seq(Records) OBVIOUS
<1>. QED BY <1>1, <1>2, <1>3, <1>4, <1>5, <1>6 DEF Completed

LEMMA JournalGrows ==
  ASSUME FilesOK, NEW e \in Records
  PROVE /\ Append(journal, e) \in Seq(Records)
        /\ DOMAIN Append(journal, e) = 1..(Len(journal) + 1)
        /\ DOMAIN journal = 1..Len(journal) /\ Len(journal) \in Nat
BY DEF FilesOK, Records

LEMMA JournalEntries ==
  ASSUME FilesOK
  PROVE /\ \A i \in DOMAIN journal, t \in BOOLEAN : Result(i, t) \in Records /\ Uncertain(i) \in Records
        /\ \A p \in Peers : Intent(p) \in Records
<1>1. ASSUME NEW i \in DOMAIN journal PROVE journal[i].peer \in Peers /\ i \in Nat
  <2>1. journal \in Seq(Records) BY DEF FilesOK, Records
  <2>2. i \in 1..Len(journal) /\ Len(journal) \in Nat BY <2>1
  <2>3. journal[i] \in Records BY <2>1, <2>2
  <2>. QED BY <2>2, <2>3 DEF Records
<1>. QED BY <1>1 DEF Records, Result, Uncertain, Intent

LEMMA FilesStep == ASSUME Typed, Next PROVE FilesOK'
<1>. SUFFICES ASSUME ~UNCHANGED files PROVE FilesOK' BY DEF files, FilesOK, Typed, TypeOK
<1>. USE RoomEdits DEF Typed, TypeOK
<1>1. FilesOK /\ room \in Rooms /\ journal \in Seq(Records) /\ disk \subseteq Entries
  BY DEF FilesOK, Rooms, RoomStates, Requested, Records
<1>2. SUFFICES room' \in Rooms /\ journal' \in Seq(Records) /\ disk' \subseteq Entries
  BY DEF FilesOK, Rooms, RoomStates, Requested, Records
<1>3. CASE StoreCreate \/ DiscardPendingProvisioning
  BY <1>1, <1>3 DEF StoreCreate, DiscardPendingProvisioning
<1>4. CASE SaveCid
  <2>1. packet.cid \in Nat BY DEF LeaseOK
  <2>. QED BY <1>1, <1>4, <2>1 DEF SaveCid, RoomStates
<1>5. CASE SettleAbsent
  <2>. DEFINE absent == {i \in Unresolved : journal[i].peer \notin job.todo}
  <2>1. absent # {} => First(absent) \in DOMAIN journal
    <3>1. absent \subseteq DOMAIN journal BY DEF Unresolved, Intents
    <3>. HIDE DEF absent
    <3>. QED BY <1>1, <3>1, Chosen
  <2>. QED BY <1>1, <1>5, <2>1, JournalEntries, JournalGrows DEF SettleAbsent
<1>6. CASE AppendCloseIntent
  <2>1. job.todo \subseteq Peers BY DEF FlowOK
  <2>. QED BY <1>1, <1>6, <2>1, JournalEntries, JournalGrows DEF AppendCloseIntent
<1>7. CASE AppendCloseResult
  <2>1. job.of \in DOMAIN journal /\ job.told \in BOOLEAN
    BY <1>7 DEF AppendCloseResult, Pointed, Held, FlowOK
  <2>. QED BY <1>1, <1>7, <2>1, JournalEntries, JournalGrows DEF AppendCloseResult
<1>8. CASE Purge
  <2>1. Unresolved # {} => First(Unresolved) \in DOMAIN journal
    <3>1. Unresolved \subseteq DOMAIN journal BY DEF Unresolved, Intents
    <3>. QED BY <1>1, <3>1, Chosen
  <2>2. [room EXCEPT !.state = "closed"] \in Rooms BY <1>1 DEF RoomStates
  <2>. QED BY <1>1, <1>8, <2>1, <2>2, JournalEntries, JournalGrows DEF Purge
<1>9. CASE StoreDelete \/ ListRooms BY <1>1, <1>9 DEF StoreDelete, ListRooms
<1>10. CASE Crash
  <2>1. disk' \subseteq Entries BY <1>1, <1>10 DEF Crash, Stages, Entries
  <2>2. room' \in Rooms BY <1>1, <1>10 DEF Crash
  <2>3. journal' \in Seq(Records) BY <1>1, <1>10 DEF Crash
  <2>. QED BY <2>1, <2>2, <2>3
<1>11. CASE AcceptRequest
  <2>1. \A c \in {"close", "delete"} : [command |-> c, state |-> "pending"] \in Requested
    BY DEF Requested
  <2>2. PICK c \in {"close", "delete"} :
          room' = [room EXCEPT !.request = [command |-> c, state |-> "pending"]]
    BY <1>11 DEF AcceptRequest
  <2>3. room' \in Rooms BY <1>1, <2>1, <2>2
  <2>4. UNCHANGED <<journal, disk>> BY <1>11 DEF AcceptRequest
  <2>. QED BY <1>1, <2>3, <2>4
<1>12. CASE MarkFailed BY <1>1, <1>12 DEF MarkFailed
<1>13. ASSUME NEW by, NEW goal, Closing(by, goal)
      PROVE room' \in Rooms /\ journal' = journal /\ disk' = disk
  BY <1>1, <1>13 DEF Closing, RoomStates
<1>14. CASE RunRequest \/ CloseRoom \/ DeleteRoom
  BY <1>1, <1>13, <1>14 DEF RunRequest, CloseRoom, DeleteRoom, files
<1>. QED BY <1>3, <1>4, <1>5, <1>6, <1>7, <1>8, <1>9, <1>10, <1>11, <1>12, <1>14, FilesChange

LEMMA LeaseChange ==
  Next => \/ UNCHANGED <<lease, packet>>
          \/ Mint \/ CreateIdentity \/ CreateIdentityFails \/ Discard \/ Reconnect
          \/ Bind \/ Reassigned \/ BindFails \/ RefreshContacts \/ RefreshFails
          \/ RemoveContact \/ RemoveContactFails \/ RemoveIdentity \/ RemoveIdentityFails \/ EndSession
          \/ ReleaseLease \/ ReleaseLeaseFails \/ ForgetOwner \/ Crash \/ ContactsChange
          \/ PacketRefresh \/ StrangerBinds \/ StrangerLeaves \/ NameUsed \/ NameFreed
          \/ RemoveOrphan
BY DEF lease, Next, Worker, Requests, Boot, Operator, World,
     StoreCreate, NameTaken, DiscardPendingProvisioning, SaveCid, RegisterRuntimeCommands,
     RestoreMissing, CloseUnhosted, SettleAbsent, AppendCloseIntent, AppendCloseResult,
     ContactsRemoved, Purge, StoreDelete, ResumeRequest, RunRequest, MarkFailed, ListRooms,
     ListThrows, BootRestore, BootResume, BootClose, CreateRoom, RebindIdentity, CloseRoom,
     DeleteRoom, Stop, AcceptRequest, Closing

(* The ways the identity and the packet are rewritten. *)
LEMMA IdentityEdits ==
  /\ NoIdentity \in Identities /\ NoPacket \in Packets
  /\ \A i \in Identities, c \in SUBSET Peers : [i EXCEPT !.contacts = c] \in Identities
  /\ \A k \in Packets, c \in SUBSET Peers : [k EXCEPT !.contacts = c] \in Packets
  /\ \A n, o \in Nat : /\ [NoIdentity EXCEPT !.cid = n, !.mine = TRUE, !.holder = o] \in Identities
                       /\ [NoIdentity EXCEPT !.cid = n] \in Identities
                       /\ [NoPacket EXCEPT !.cid = n, !.owner = o] \in Packets
BY DEF NoIdentity, NoPacket, Identities, Packets

LEMMA LeaseStep == ASSUME Typed, Next PROVE LeaseOK'
<1>. SUFFICES ASSUME ~UNCHANGED <<lease, packet>> PROVE LeaseOK'
  BY DEF lease, LeaseOK, Typed, TypeOK
<1>. USE OwnersAreNumbers
<1>1. /\ sdk \in Identities /\ packet \in Packets /\ record \in Nat /\ retired \subseteq Nat /\ registered \subseteq Nat
      /\ sdk.contacts \subseteq Peers /\ packet.owner \in Nat /\ packet.contacts \subseteq Peers /\ sdk.cid \in Nat
  BY DEF Typed, TypeOK, LeaseOK, Identities, Packets
<1>2. job.owner \in Nat /\ cids \in Nat /\ cids + 1 \in Nat BY DEF Typed, TypeOK, FlowOK, CountsOK
<1>3. SUFFICES /\ sdk' \in Identities /\ packet' \in Packets /\ record' \in Nat
               /\ retired' \subseteq Nat /\ registered' \subseteq Nat
  BY DEF LeaseOK, Identities, Packets
<1>4. (\A S : Freed(S) \in Identities) /\ (\A o \in Nat : Bound(o) \in Identities)
  BY Leased DEF Typed, TypeOK
<1>6. CASE Mint
  <2>1. NewOwner \in Nat BY <1>6, Minted DEF Mint, Unused
  <2>. QED BY <1>1, <1>6, <2>1 DEF Mint
<1>7. CASE CreateIdentity \/ CreateIdentityFails
  <2>1. [NoIdentity EXCEPT !.cid = cids + 1, !.mine = TRUE, !.holder = job.owner] \in Identities
    BY <1>2, IdentityEdits
  <2>2. [NoPacket EXCEPT !.cid = cids + 1, !.owner = job.owner] \in Packets
    BY <1>2, IdentityEdits
  <2>3. CASE CreateIdentity BY <1>1, <2>1, <2>2, <2>3 DEF CreateIdentity, NewIdentity
  <2>4. CASE CreateIdentityFails BY <1>1, <2>1, <2>2, <2>4 DEF CreateIdentityFails, NewIdentity
  <2>. QED BY <1>7, <2>3, <2>4
<1>8. CASE Discard
  <2>1. sdk' \in Identities /\ retired' \subseteq Nat
    BY <1>1, <1>2, <1>4, <1>8 DEF Discard, Released
  <2>2. record' \in Nat BY <1>1, <1>8 DEF Discard, Forgotten
  <2>3. UNCHANGED <<packet, registered>> BY <1>8 DEF Discard
  <2>. QED BY <1>1, <2>1, <2>2, <2>3
<1>9. CASE Reconnect BY <1>1, <1>9 DEF Reconnect
<1>10. CASE Bind
  <2>1. [cid |-> sdk.cid, owner |-> job.owner, contacts |-> sdk.contacts] \in Packets
    BY <1>1, <1>2 DEF Packets
  <2>. QED BY <1>1, <1>2, <1>4, <1>10, <2>1 DEF Bind
<1>11. CASE Reassigned BY <1>1, <1>2, <1>11 DEF Reassigned, Forgotten
<1>12. CASE BindFails BY <1>1, <1>2, <1>4, <1>12 DEF BindFails
<1>13. CASE RefreshContacts \/ RefreshFails \/ PacketRefresh
  BY <1>1, <1>4, <1>13, IdentityEdits DEF RefreshContacts, RefreshFails, PacketRefresh, lease
<1>14. CASE RemoveContact \/ RemoveContactFails
  <2>1. sdk.contacts \ {Peer} \in SUBSET Peers /\ packet.contacts \ {Peer} \in SUBSET Peers BY <1>1
  <2>2. ASSUME NEW t, RemovedFromSdk(t) PROVE sdk' \in Identities
    BY <1>1, <2>1, <2>2, IdentityEdits DEF RemovedFromSdk
  <2>3. [packet EXCEPT !.contacts = @ \ {Peer}] \in Packets BY <1>1, <2>1, IdentityEdits
  <2>. QED BY <1>1, <1>14, <2>2, <2>3 DEF RemoveContact, RemoveContactFails
<1>15. CASE RemoveIdentity \/ RemoveIdentityFails \/ NameFreed \/ RemoveOrphan
  BY <1>1, <1>15, IdentityEdits DEF RemoveIdentity, RemoveIdentityFails, NameFreed, RemoveOrphan
<1>16. ASSUME NEW b \in BOOLEAN, Ended(b), record' = record
       PROVE /\ sdk' \in Identities /\ packet' \in Packets /\ record' \in Nat
             /\ retired' \subseteq Nat /\ registered' \subseteq Nat
  BY <1>1, <1>4, <1>16, IdentityEdits DEF Ended
<1>17. CASE EndSession \/ Crash BY <1>16, <1>17 DEF EndSession, Crash
<1>18. CASE ReleaseLease BY <1>1, <1>4, <1>18 DEF ReleaseLease, Released
<1>19. CASE ReleaseLeaseFails BY <1>1, <1>4, <1>19, IdentityEdits DEF ReleaseLeaseFails, Released
<1>20. CASE ForgetOwner BY <1>1, <1>20, IdentityEdits DEF ForgetOwner, Forgotten
<1>21. CASE ContactsChange BY <1>1, <1>21, IdentityEdits DEF ContactsChange
<1>22. CASE StrangerBinds \/ StrangerLeaves
  BY <1>1, <1>4, <1>22 DEF StrangerBinds, StrangerLeaves, Stranger
<1>23. CASE NameUsed BY <1>1, <1>2, <1>23, IdentityEdits DEF NameUsed
<1>. QED
  BY <1>6, <1>7, <1>8, <1>9, <1>10, <1>11, <1>12, <1>13, <1>14, <1>15, <1>17, <1>18, <1>19, <1>20,
     <1>21, <1>22, <1>23, LeaseChange

LEMMA CountsStep == ASSUME Typed, Next PROVE CountsOK'
<1>. USE DEF Typed, TypeOK, CountsOK
<1>1. \A n \in Nat : n > 0 => n - 1 \in Nat OBVIOUS
<1>2. Faulty \/ Moves => left' \in [faults : Nat, crashes : Nat, moves : Nat]
  BY <1>1 DEF Faulty, Moves
<1>3. CASE Crash BY <1>1, <1>3 DEF Crash, history
<1>4. CASE CreateIdentity \/ CreateIdentityFails \/ NameUsed
  BY <1>2, <1>4 DEF CreateIdentity, CreateIdentityFails, NameUsed, history
<1>5. CASE RemoveContact \/ RemoveContactFails
  <2>1. ASSUME NEW t, RemovedFromSdk(t)
        PROVE notices' \in [Peers -> Nat] /\ removed' \in [Peers -> Nat]
    <3>1. Peer \in Peers => notices[Peer] + 1 \in Nat /\ removed[Peer] + 1 \in Nat OBVIOUS
    <3>. QED BY <2>1, <3>1 DEF RemovedFromSdk
  <2>. QED BY <1>2, <1>5, <2>1 DEF RemoveContact, RemoveContactFails, history
<1>6. UNCHANGED <<history, cids>> /\ (UNCHANGED left \/ Faulty \/ Moves) => CountsOK'
  BY <1>2 DEF history
<1>7. Next => \/ UNCHANGED <<history, cids>> /\ (UNCHANGED left \/ Faulty \/ Moves)
              \/ Crash \/ CreateIdentity \/ CreateIdentityFails \/ NameUsed \/ RemoveContact
              \/ RemoveContactFails
  BY DEF Next, Worker, Requests, Boot, Operator, World, Closing,
       StoreCreate, NameTaken, Mint, Discard, DiscardPendingProvisioning, SaveCid,
       RegisterRuntimeCommands, RestoreMissing, Reconnect, Bind, Reassigned, BindFails,
       RefreshContacts, RefreshFails, CloseUnhosted, SettleAbsent, AppendCloseIntent,
       AppendCloseResult, ContactsRemoved, RemoveIdentity, RemoveIdentityFails, Purge,
       StoreDelete, ReleaseLease, ReleaseLeaseFails, ForgetOwner, EndSession, ResumeRequest,
       RunRequest, MarkFailed, ListRooms, ListThrows, BootRestore, BootResume, BootClose,
       CreateRoom, RebindIdentity, CloseRoom, DeleteRoom, Stop, AcceptRequest, ContactsChange,
       PacketRefresh, StrangerBinds, StrangerLeaves, NameFreed, RemoveOrphan
<1>. QED BY <1>3, <1>4, <1>5, <1>6, <1>7

(* Most steps of the job go on to the next one, or end it. *)
LEMMA QuietSteps ==
  ASSUME FlowOK,
         StoreCreate \/ NameTaken \/ CreateIdentity \/ Discard \/ DiscardPendingProvisioning \/
         SaveCid \/ RegisterRuntimeCommands \/ RestoreMissing \/ Bind \/ Reassigned \/
         BindFails \/ RefreshFails \/ CloseUnhosted \/ ContactsRemoved \/ RemoveContactFails \/
         RemoveIdentity \/ RemoveIdentityFails \/ StoreDelete \/ ReleaseLease \/
         ReleaseLeaseFails \/ ForgetOwner
  PROVE Quiet /\ UNCHANGED phase
<1>1. \A at \in Steps \ Held : Proceed(at) => Quiet BY ProceedQuiet
<1>2. Finish \/ Abandon => Quiet BY FinishQuiet, AbandonQuiet
<1>3. {"none", "mint", "save", "register", "fresh", "discard", "sentinel", "purge", "destroy",
"release",
       "forget", "delete"} \subseteq Steps \ Held
  BY DEF Steps, Held
<1>. QED
  BY <1>1, <1>2, <1>3
  DEF StoreCreate, NameTaken, CreateIdentity, Discard, DiscardPendingProvisioning, SaveCid,
      RegisterRuntimeCommands, RestoreMissing, Bind, Reassigned, BindFails, RefreshFails,
      CloseUnhosted, ContactsRemoved, RemoveContactFails, RemoveIdentity, RemoveIdentityFails,
      StoreDelete, ReleaseLease, ReleaseLeaseFails, ForgetOwner

LEMMA FlowStep == ASSUME Typed, Next PROVE FlowOK' /\ Pointed'
<1>. USE DEF Typed, TypeOK
<1>1. job \in Jobs /\ resuming \in Resumptions /\ healthy \in BOOLEAN
  BY DEF FlowOK, Jobs, Steps, Callers, Goals, Resumptions
<1>2. /\ "operator" \in Callers /\ "boot" \in Callers /\ "request" \in Callers
      /\ {"create", "recover", "close", "delete", "stop"} \subseteq Goals
      /\ {"store", "mint", "own", "refresh", "delete", "release"} \subseteq Steps \ Held
  BY DEF Callers, Goals, Steps, Held
<1>3. \A by \in Callers, goal \in Goals, at \in Steps :
        Start(by, goal, at) \in Jobs /\ Start(by, goal, at).at = at
  BY Started
<1>4. Quiet /\ UNCHANGED phase => FlowOK' /\ Pointed' BY QuietTyped
<1>5. Quiet /\ phase' \in {"down", "refused", "restore", "resume", "close", "up", "stopping"}
      => FlowOK' /\ Pointed'
  BY DEF FlowOK, Quiet, Pointed, Jobs, Steps, Callers, Goals, Resumptions
<1>6. CASE UNCHANGED <<phase, flow, journal>> BY <1>6 DEF flow, FlowOK, Pointed
<1>7. CASE ListThrows BY <1>7 DEF ListThrows, flow, files, FlowOK, Pointed
<1>8. CASE StoreCreate \/ NameTaken \/ CreateIdentity \/ Discard \/ DiscardPendingProvisioning \/
           SaveCid \/ RegisterRuntimeCommands \/ RestoreMissing \/ Bind \/ Reassigned \/
           BindFails \/ RefreshFails \/ CloseUnhosted \/ ContactsRemoved \/ RemoveContactFails \/
           RemoveIdentity \/ RemoveIdentityFails \/ StoreDelete \/ ReleaseLease \/
           ReleaseLeaseFails \/ ForgetOwner
  BY <1>4, <1>8, QuietSteps
<1>9. CASE CreateRoom BY <1>1, <1>2, <1>3, <1>4, <1>9 DEF CreateRoom, Quiet
<1>10. CASE Mint
  <2>1. NewOwner \in Nat BY <1>10, Minted, OwnersAreNumbers DEF Mint, Unused
  <2>2. job' \in Jobs /\ job'.at \in {"create", "bind"} BY <1>1, <1>10, <2>1 DEF Mint, Jobs, Steps
  <2>. QED BY <1>1, <1>4, <1>10, <2>2 DEF Mint, Quiet, Held
<1>11. CASE CreateIdentityFails
  <2>1. job' \in Jobs /\ job'.at = "discard" BY <1>1, <1>11 DEF CreateIdentityFails, Jobs, Steps
  <2>. QED BY <1>1, <1>4, <1>11, <2>1 DEF CreateIdentityFails, Quiet, Held
<1>12. CASE Reconnect
  <2>1. job' \in Jobs /\ job'.at = "bind" BY <1>1, <1>12 DEF Reconnect, Jobs, Steps, LeaseOK
  <2>. QED BY <1>1, <1>4, <1>12, <2>1 DEF Reconnect, Quiet, Held
<1>13. CASE RefreshContacts
  <2>1. sdk.contacts \subseteq Peers BY DEF LeaseOK
  <2>2. job' \in Jobs /\ job'.at = "settle" BY <1>1, <1>13, <2>1 DEF RefreshContacts, Jobs, Steps
  <2>. QED BY <1>1, <1>4, <1>13, <2>2 DEF RefreshContacts, Quiet, Held
<1>14. CASE SettleAbsent
  <2>1. Proceed("notify") => Quiet BY ProceedQuiet DEF Steps, Held
  <2>. QED BY <1>4, <1>14, <2>1 DEF SettleAbsent, flow, FlowOK, Pointed, Held
<1>15. CASE AppendCloseIntent
  <2>1. PICK p \in job.todo :
          /\ journal' = IF {i \in Unresolved : journal[i].peer = p} = {} THEN Append(journal, Intent(p)) ELSE journal
          /\ job' = [job EXCEPT !.at = "remove",
                                !.of = IF {i \in Unresolved : journal[i].peer = p} = {}
                                       THEN Len(journal) + 1
                                       ELSE Last({i \in Unresolved : journal[i].peer = p})]
    BY <1>15 DEF AppendCloseIntent
  <2>. DEFINE open == {i \in Unresolved : journal[i].peer = p}
              of == IF open = {} THEN Len(journal) + 1 ELSE Last(open)
  <2>2. open # {} => Last(open) \in DOMAIN journal
    <3>1. open \subseteq DOMAIN journal BY DEF Unresolved, Intents
    <3>. HIDE DEF open
    <3>. QED BY <3>1, Chosen
  <2>3. Intent(p) \in Records BY <1>1, JournalEntries DEF Jobs
  <2>4. of \in DOMAIN journal' /\ of \in Nat
    <3>. HIDE DEF open
    <3>1. journal' = IF open = {} THEN Append(journal, Intent(p)) ELSE journal BY <2>1 DEF open
    <3>. QED BY <2>2, <2>3, <3>1, JournalGrows
  <2>5. job' = [job EXCEPT !.at = "remove", !.of = of] BY <2>1
  <2>. HIDE DEF of
  <2>6. job' \in Jobs /\ job'.of = of /\ job'.at = "remove" BY <1>1, <2>4, <2>5 DEF Jobs, Steps
  <2>. QED
    BY <1>1, <1>15, <2>4, <2>6 DEF AppendCloseIntent, FlowOK, Pointed, Jobs, Steps, Callers, Goals,
     Resumptions
<1>16. CASE RemoveContact
  <2>1. job' \in Jobs /\ job'.of = job.of BY <1>1, <1>16 DEF RemoveContact, Jobs, Steps
  <2>. QED
    BY <1>1, <1>16, <2>1
    DEF RemoveContact, files, FlowOK, Pointed, Jobs, Steps, Callers, Goals, Resumptions, Held
<1>17. CASE AppendCloseResult
  <2>1. job.todo \ {Peer} \in SUBSET Peers BY <1>1 DEF Jobs
  <2>2. job' \in Jobs /\ job'.at = "notify" BY <1>1, <1>17, <2>1 DEF AppendCloseResult, Jobs, Steps
  <2>. QED BY <1>1, <1>4, <1>17, <2>2 DEF AppendCloseResult, Quiet, Held
<1>18. CASE Purge
  <2>1. Proceed("delete") \/ Finish => Quiet BY ProceedQuiet, FinishQuiet DEF Steps, Held
  <2>. QED BY <1>4, <1>18, <2>1 DEF Purge, flow, FlowOK, Pointed, Held
<1>19. CASE EndSession \/ Crash
  BY <1>1, <1>5, <1>19, NoJobTyped DEF EndSession, Crash, Ended, Quiet, Resumptions, Held
<1>20. CASE RunRequest
  <2>1. room.request.command \in Goals BY DEF FilesOK, Goals
  <2>. QED BY <1>1, <1>2, <1>3, <1>4, <1>6, <1>20, <2>1, NoJobTyped
       DEF RunRequest, Closing, Quiet, Resumptions, Held, files, flow, FlowOK, Pointed
<1>21. CASE CloseRoom \/ DeleteRoom
  BY <1>1, <1>2, <1>3, <1>4, <1>21, NoJobTyped
  DEF CloseRoom, DeleteRoom, Closing, Quiet, Resumptions, Held
<1>22. CASE ResumeRequest \/ MarkFailed
  BY <1>22 DEF ResumeRequest, MarkFailed, files, FlowOK, Pointed
<1>23. CASE RebindIdentity
  BY <1>1, <1>2, <1>3, <1>4, <1>23 DEF RebindIdentity, Recovering, Quiet
<1>24. CASE Stop
  BY <1>1, <1>2, <1>3, <1>5, <1>24, NoJobTyped DEF Stop, Quiet, Free, Held
<1>25. CASE ListRooms BY <1>25 DEF ListRooms, FlowOK, Pointed
<1>26. CASE BootRestore
  BY <1>1, <1>2, <1>3, <1>5, <1>26, NoJobTyped DEF BootRestore, Phase, Recovering, Quiet, Free, Held
<1>27. CASE BootResume
  <2>1. /\ UNCHANGED <<job, journal>> /\ phase' = "close"
        /\ resuming' \in {resuming, "run"}
    BY <1>27 DEF BootResume, Phase, files
  <2>2. healthy' \in BOOLEAN BY <1>1, <1>27, Zenon DEF BootResume
  <2>. QED BY <2>1, <2>2 DEF FlowOK, Pointed
<1>28. CASE BootClose
  BY <1>1, <1>2, <1>3, <1>5, <1>28, NoJobTyped DEF BootClose, Phase, Quiet, Held
<1>29. AcceptRequest \/ ContactsChange \/ PacketRefresh \/ StrangerBinds \/ StrangerLeaves \/ NameUsed
       \/ NameFreed \/ RemoveOrphan => UNCHANGED <<phase, flow, journal>>
  BY DEF AcceptRequest, ContactsChange, PacketRefresh, StrangerBinds, StrangerLeaves, NameUsed,
     NameFreed, RemoveOrphan, files
<1>. QED
  BY <1>6, <1>7, <1>8, <1>9, <1>10, <1>11, <1>12, <1>13, <1>14, <1>15, <1>16, <1>17, <1>18, <1>19,
     <1>20, <1>21, <1>22, <1>23, <1>24, <1>25, <1>26, <1>27, <1>28, <1>29
  DEF Next, Worker, Requests, Boot, Operator, World

-----------------------------------------------------------------------------
LEMMA TypedStays == ASSUME Typed, [Next]_vars PROVE Typed'
<1>1. CASE Next BY <1>1, FilesStep, LeaseStep, CountsStep, FlowStep DEF Typed, TypeOK
<1>2. CASE UNCHANGED vars
  BY SMTT(30), <1>2
  DEF vars, files, lease, flow, history, Typed, TypeOK, FilesOK, LeaseOK, FlowOK, CountsOK, Pointed
<1>. QED BY <1>1, <1>2

LEMMA TypedInit == ASSUME Init PROVE Typed
<1>. USE LifecycleConstants DEF Init
<1>1. FilesOK
  BY RoomEdits DEF FilesOK, Rooms, RoomStates, Requested, Records, Entries
<1>2. LeaseOK BY IdentityEdits DEF LeaseOK, Identities, Packets
<1>3. FlowOK /\ Pointed
  BY NoJobTyped DEF FlowOK, Pointed, Jobs, Steps, Callers, Goals, Held
<1>4. CountsOK BY DEF CountsOK
<1>. QED BY <1>1, <1>2, <1>3, <1>4 DEF Typed, TypeOK

(* TypeOK for any peers, owners and bounds. *)
THEOREM TypeCorrect == Spec => []TypeOK
<1>1. Init => Typed BY TypedInit
<1>2. Typed /\ [Next]_vars => Typed' BY TypedStays
<1>3. Typed => TypeOK BY DEF Typed
<1>. QED BY <1>1, <1>2, <1>3, PTL DEF Spec

-----------------------------------------------------------------------------
(* The lease, the ledger and the packet agree.  An owner that holds the      *)
(* lease is recorded and not retired; so is one that the job is about to     *)
(* present.  The owner of the packet is recorded until the SDK retires it.   *)

HolderOK ==
  /\ sdk.holder \in Owners => record = sdk.holder /\ sdk.holder \notin retired
  /\ sdk.cid = 0 => sdk.holder = 0
PacketOK == packet.owner # 0 => record = packet.owner \/ packet.owner \in retired
Unpacked == {"store", "mint", "own", "fresh", "create", "bind", "discard", "sentinel"}
WorkOK ==
  /\ job.at \in {"create", "bind", "discard"} => record = job.owner
  /\ job.at = "create" => job.owner \notin retired
  /\ job.at = "fresh" => record = 0
  /\ job.at = "forget" => packet.owner \in retired
  /\ job.at \in Unpacked => packet = NoPacket
BootOK == phase \in {"down", "refused", "restore"} 
          => packet = NoPacket /\ job.at = "none" /\ resuming = "no"
Agreed == HolderOK /\ PacketOK /\ WorkOK /\ BootOK

LEMMA JobMoves ==
  ASSUME Typed
  PROVE /\ \A at \in Steps : Proceed(at) => job'.at = at /\ job'.owner = job.owner
        /\ Finish => job'.at = "none"
        /\ Abandon => job'.at = "none" \/ (job'.at = "release" /\ Hosted)
        /\ \A by \in Callers, goal \in Goals, at \in Steps : Start(by, goal, at).at = at
        /\ NoJob.at = "none"
<1>1. job \in Jobs BY DEF Typed, TypeOK, FlowOK, Jobs, Steps, Callers, Goals
<1>2. ASSUME NEW at \in Steps, Proceed(at) PROVE job'.at = at /\ job'.owner = job.owner
  BY <1>1, <1>2 DEF Proceed, Jobs
<1>3. "boot" \in Callers /\ "unhost" \in Goals /\ "release" \in Steps BY DEF Callers, Goals, Steps
<1>4. \A by \in Callers, goal \in Goals, at \in Steps : Start(by, goal, at).at = at BY Started
<1>5. Finish => job'.at = "none" BY NoJobTyped DEF Finish
<1>6. Abandon => job'.at = "none" \/ (job'.at = "release" /\ Hosted)
  <2>1. Start("boot", "unhost", "release").at = "release" BY <1>3, <1>4
  <2>2. ASSUME Abandon PROVE (job' = Start("boot", "unhost", "release") /\ Hosted) \/ job' = NoJob
    BY <2>2, Zenon DEF Abandon, Hosted
  <2>. QED BY <2>1, <2>2, NoJobTyped
<1>. QED BY <1>2, <1>4, <1>5, <1>6, NoJobTyped

LEMMA LeaseMoves ==
  ASSUME Typed
  PROVE /\ \A o \in Nat : Bound(o).holder = o /\ Bound(o).cid = sdk.cid
        /\ \A S : /\ Freed(S).holder = IF sdk.holder \in S THEN 0 ELSE sdk.holder
                 /\ Freed(S).cid = sdk.cid
        /\ NoIdentity.holder = 0 /\ NoPacket.owner = 0
<1>1. sdk \in Identities BY DEF Typed, TypeOK, LeaseOK, Identities
<1>. QED BY <1>1 DEF Bound, Freed, Identities, NoIdentity, NoPacket

LEMMA AgreedStep == ASSUME Typed, Agreed, Next PROVE Agreed'
<1>. USE LifecycleConstants, OwnersAreNumbers
DEF Agreed, HolderOK, PacketOK, WorkOK, BootOK, Unpacked
<1>1. /\ job \in Jobs /\ sdk \in Identities /\ packet \in Packets /\ record \in Nat
      /\ job.owner \in Nat /\ packet.owner \in Nat /\ cids \in Nat
  BY DEF Typed, TypeOK, FlowOK, LeaseOK, CountsOK, Jobs, Steps, Callers, Goals, Identities, Packets
<1>2. /\ \A at \in Steps : Proceed(at) => job'.at = at /\ job'.owner = job.owner
      /\ Finish => job'.at = "none"
      /\ Abandon => job'.at = "none" \/ (job'.at = "release" /\ Hosted)
  BY JobMoves
<1>3. /\ \A by \in Callers, goal \in Goals, at \in Steps : Start(by, goal, at).at = at
      /\ NoJob.at = "none"
      /\ "operator" \in Callers /\ "boot" \in Callers /\ "request" \in Callers
      /\ {"create", "recover", "close", "delete", "stop"} \subseteq Goals
  BY JobMoves DEF Callers, Goals
<1>4. /\ \A o \in Nat : Bound(o).holder = o /\ Bound(o).cid = sdk.cid
      /\ \A S : /\ Freed(S).holder = IF sdk.holder \in S THEN 0 ELSE sdk.holder
               /\ Freed(S).cid = sdk.cid
      /\ NoIdentity.holder = 0 /\ NoPacket.owner = 0
  BY LeaseMoves
<1>5. Steps = {"none", "store", "mint", "create", "save", "register", "own", "fresh", "bind", "discard",
          "sentinel", "refresh", "settle", "notify", "remove", "result", "destroy", "release",
          "forget", "purge", "delete"}
  BY DEF Steps
<1>6. CASE StoreCreate
  BY <1>1, <1>2, <1>3, <1>4, <1>5, <1>6 DEF StoreCreate, Sentinel, lease, flow, Hosted
<1>7. CASE NameTaken
  BY <1>1, <1>2, <1>3, <1>4, <1>5, <1>7 DEF NameTaken, lease, flow, Hosted
<1>8. CASE Mint
  BY SMTT(30), <1>1, <1>2, <1>3, <1>4, <1>5, <1>8 DEF Mint, lease, flow, Hosted
<1>9. CASE CreateIdentity
  BY SMTT(30), <1>1, <1>2, <1>3, <1>4, <1>5, <1>9 DEF CreateIdentity, NewIdentity, lease, flow, Hosted
<1>10. CASE CreateIdentityFails
  <2>1. /\ job'.at = "discard" /\ job'.owner = job.owner
        /\ sdk.cid = 0 => sdk' = sdk \/ (sdk'.holder = job.owner /\ sdk'.cid = cids + 1)
        /\ sdk.cid # 0 => sdk' = sdk
    BY <1>1, <1>10 DEF CreateIdentityFails, NewIdentity, NoIdentity, Jobs
  <2>. QED BY <1>1, <1>4, <1>10, <2>1 DEF CreateIdentityFails
<1>11. CASE Discard
  BY SMTT(30), <1>1, <1>2, <1>3, <1>4, <1>5, <1>11 DEF Discard, Released, Forgotten, lease, flow,
       Hosted
<1>12. CASE DiscardPendingProvisioning
  BY <1>1, <1>2, <1>3, <1>4, <1>5, <1>12 DEF DiscardPendingProvisioning, lease, flow, Hosted
<1>13. CASE SaveCid
  BY <1>1, <1>2, <1>3, <1>4, <1>5, <1>13 DEF SaveCid, lease, flow, Hosted
<1>14. CASE RegisterRuntimeCommands
  BY <1>1, <1>2, <1>3, <1>4, <1>5, <1>14 DEF RegisterRuntimeCommands, lease, flow, Hosted
<1>15. CASE RestoreMissing
  BY <1>1, <1>2, <1>3, <1>4, <1>5, <1>15 DEF RestoreMissing, lease, flow, Hosted
<1>16. CASE Reconnect
  BY <1>1, <1>2, <1>3, <1>4, <1>5, <1>16 DEF Reconnect, lease, flow, Hosted
<1>17. CASE Bind
  <2>1. /\ sdk'.holder = job.owner /\ sdk'.cid = sdk.cid /\ packet'.owner = job.owner
        /\ job'.at = "register" /\ job.owner \notin retired /\ sdk.cid # 0
    BY <1>1, <1>2, <1>4, <1>5, <1>17 DEF Bind, Bindable
  <2>. QED BY <1>1, <1>17, <2>1 DEF Bind
<1>18. CASE Reassigned
  BY SMTT(30), <1>1, <1>2, <1>3, <1>4, <1>5, <1>18 DEF Reassigned, Forgotten, lease, flow, Hosted
<1>19. CASE BindFails
  <2>1. sdk' = sdk \/ (Bindable(job.owner) /\ sdk'.holder = job.owner /\ sdk'.cid = sdk.cid)
    BY <1>1, <1>4, <1>19 DEF BindFails
  <2>2. job'.at \in {"none", "release"} \/ (job'.at = "discard" /\ job'.owner = job.owner)
    BY <1>2, <1>5, <1>19 DEF BindFails
  <2>. QED BY <1>1, <1>19, <2>1, <2>2 DEF BindFails, Bindable
<1>20. CASE RefreshContacts
  <2>1. /\ sdk'.holder = packet.owner /\ sdk'.cid = sdk.cid /\ packet'.owner = packet.owner
        /\ job'.at = "settle" /\ packet.owner \notin retired /\ sdk.cid # 0
    BY <1>1, <1>4, <1>20 DEF RefreshContacts, Reached, Bindable, Jobs, Packets
  <2>. QED BY <1>1, <1>20, <2>1 DEF RefreshContacts
<1>21. CASE RefreshFails
  <2>1. \/ sdk' = sdk
        \/ /\ sdk'.holder = packet.owner /\ sdk'.cid = sdk.cid
           /\ packet.owner \notin retired /\ sdk.cid # 0
    BY <1>1, <1>4, <1>21 DEF RefreshFails, Bindable
  <2>2. job'.at \in {"none", "release"} BY <1>2, <1>21 DEF RefreshFails
  <2>. QED BY <1>1, <1>21, <2>1, <2>2 DEF RefreshFails
<1>22. CASE CloseUnhosted
  BY <1>1, <1>2, <1>3, <1>4, <1>5, <1>22 DEF CloseUnhosted, lease, flow, Hosted
<1>23. CASE SettleAbsent
  BY <1>1, <1>2, <1>3, <1>4, <1>5, <1>23 DEF SettleAbsent, lease, flow, Hosted
<1>24. CASE AppendCloseIntent
  BY <1>1, <1>2, <1>3, <1>4, <1>5, <1>24 DEF AppendCloseIntent, lease, flow, Hosted
<1>25. CASE RemoveContact
  <2>1. /\ sdk'.holder = sdk.holder /\ sdk'.cid = sdk.cid /\ packet'.owner = packet.owner
        /\ job'.at = "result"
    BY <1>1, <1>25 DEF RemoveContact, RemovedFromSdk, Identities, Packets, Jobs
  <2>. QED BY <1>1, <1>25, <2>1 DEF RemoveContact
<1>26. CASE RemoveContactFails
  <2>1. sdk'.holder = sdk.holder /\ sdk'.cid = sdk.cid
    BY <1>1, <1>26 DEF RemoveContactFails, RemovedFromSdk, Identities
  <2>2. job'.at \in {"none", "release"} BY <1>2, <1>26 DEF RemoveContactFails
  <2>. QED BY <1>1, <1>26, <2>1, <2>2 DEF RemoveContactFails
<1>27. CASE AppendCloseResult
  BY <1>1, <1>2, <1>3, <1>4, <1>5, <1>27 DEF AppendCloseResult, lease, flow, Hosted
<1>28. CASE ContactsRemoved
  BY <1>1, <1>2, <1>3, <1>4, <1>5, <1>28 DEF ContactsRemoved, lease, flow, Hosted
<1>29. CASE RemoveIdentity
  BY SMTT(30), <1>1, <1>2, <1>3, <1>4, <1>5, <1>29 DEF RemoveIdentity, lease, flow, Hosted
<1>30. CASE RemoveIdentityFails
  BY SMTT(30), <1>1, <1>2, <1>3, <1>4, <1>5, <1>30 DEF RemoveIdentityFails, lease, flow, Hosted
<1>31. CASE Purge
  BY <1>1, <1>2, <1>3, <1>4, <1>5, <1>31 DEF Purge, lease, flow, Hosted
<1>32. CASE StoreDelete
  BY <1>1, <1>2, <1>3, <1>4, <1>5, <1>32 DEF StoreDelete, lease, flow, Hosted
<1>33. CASE ReleaseLease
  BY SMTT(30), <1>1, <1>2, <1>3, <1>4, <1>5, <1>33 DEF ReleaseLease, Released, lease, flow, Hosted
<1>34. CASE ReleaseLeaseFails
  BY SMTT(30), <1>1, <1>2, <1>3, <1>4, <1>5, <1>34 DEF ReleaseLeaseFails, Released, lease, flow,
       Hosted
<1>35. CASE ForgetOwner
  BY SMTT(30), <1>1, <1>2, <1>3, <1>4, <1>5, <1>35 DEF ForgetOwner, Forgotten, lease, flow, Hosted
<1>36. CASE EndSession
  BY SMTT(30), <1>1, <1>2, <1>3, <1>4, <1>5, <1>36 DEF EndSession, Ended, lease, flow, Hosted
<1>37. CASE ResumeRequest
  BY <1>1, <1>2, <1>3, <1>4, <1>5, <1>37 DEF ResumeRequest, lease, flow, Hosted
<1>38. CASE RunRequest
  <2>1. CASE ~Exists BY <1>1, <1>38, <2>1 DEF RunRequest, Closing, lease
  <2>2. CASE Closing("request", room.request.command)
    <3>1. room.request.command \in Goals BY DEF Typed, TypeOK, FilesOK, Goals
    <3>4. /\ Start("request", room.request.command, "refresh").at = "refresh"
          /\ Start("request", room.request.command, "delete").at = "delete"
      BY SMTT(30), <1>3, <1>5, <3>1
    <3>5. \/ job' = Start("request", room.request.command, "refresh")
          \/ job' = Start("request", room.request.command, "delete")
          \/ job' = NoJob
      BY ZenonT(30), <2>2 DEF Closing
    <3>6. job'.at \in {"none", "refresh", "delete"} BY ZenonT(30), <1>3, <3>4, <3>5
    <3>7. UNCHANGED <<phase, packet, sdk, record, retired>>
      BY ZenonT(30), <2>2 DEF Closing, lease
    <3>8. job.at = "none" BY ZenonT(30), <1>3, <1>38 DEF RunRequest, Free
    <3>2. /\ job'.at \in {"none", "refresh", "delete"}
          /\ UNCHANGED <<phase, packet, sdk, record, retired>> /\ job.at = "none"
      BY <3>6, <3>7, <3>8
    <3>3. resuming = "run" BY <1>38 DEF RunRequest
    <3>. QED BY <3>2, <3>3
  <2>. QED BY <1>38, <2>1, <2>2 DEF RunRequest
<1>39. CASE MarkFailed
  BY <1>1, <1>2, <1>3, <1>4, <1>5, <1>39 DEF MarkFailed, lease, flow, Hosted
<1>40. CASE ListRooms
  BY <1>1, <1>2, <1>3, <1>4, <1>5, <1>40 DEF ListRooms, lease, flow, Hosted
<1>41. CASE ListThrows
  BY <1>1, <1>2, <1>3, <1>4, <1>5, <1>41 DEF ListThrows, lease, flow, Hosted
<1>42. CASE BootRestore
  BY SMTT(30), <1>1, <1>2, <1>3, <1>4, <1>5, <1>42 DEF BootRestore, Phase, Recovering, lease,
       flow, Hosted
<1>43. CASE BootResume
  BY <1>1, <1>2, <1>3, <1>4, <1>5, <1>43 DEF BootResume, Phase, lease, flow, Hosted
<1>44. CASE BootClose
  BY SMTT(30), <1>1, <1>2, <1>3, <1>4, <1>5, <1>44 DEF BootClose, Phase, lease, flow, Hosted
<1>45. CASE CreateRoom
  BY SMTT(30), <1>1, <1>2, <1>3, <1>4, <1>5, <1>45 DEF CreateRoom, lease, flow, Hosted
<1>46. CASE RebindIdentity
  BY SMTT(30), <1>1, <1>2, <1>3, <1>4, <1>5, <1>46 DEF RebindIdentity, Recovering, lease, flow,
       Hosted
<1>47. CASE CloseRoom
  BY SMTT(30), <1>1, <1>2, <1>3, <1>4, <1>5, <1>47 DEF CloseRoom, Closing, Completed, lease,
       flow, Hosted
<1>48. CASE DeleteRoom
  BY SMTT(30), <1>1, <1>2, <1>3, <1>4, <1>5, <1>48 DEF DeleteRoom, Closing, Completed, lease,
       flow, Hosted
<1>49. CASE Stop
  BY SMTT(30), <1>1, <1>2, <1>3, <1>4, <1>5, <1>49 DEF Stop, lease, flow, Hosted
<1>50. CASE AcceptRequest
  BY <1>1, <1>2, <1>3, <1>4, <1>5, <1>50 DEF AcceptRequest, lease, flow, Hosted
<1>51. CASE ContactsChange
  BY <1>1, <1>2, <1>3, <1>4, <1>5, <1>51 DEF ContactsChange, lease, flow, Hosted
<1>52. CASE PacketRefresh
  BY <1>1, <1>2, <1>3, <1>4, <1>5, <1>52 DEF PacketRefresh, lease, flow, Hosted
<1>53. CASE StrangerBinds
  BY SMTT(30), <1>1, <1>2, <1>3, <1>4, <1>5, <1>53 DEF StrangerBinds, Stranger, lease, flow, Hosted
<1>54. CASE StrangerLeaves
  BY SMTT(30), <1>1, <1>2, <1>3, <1>4, <1>5, <1>54 DEF StrangerLeaves, lease, flow, Hosted
<1>55. CASE NameUsed
  BY <1>1, <1>2, <1>3, <1>4, <1>5, <1>55 DEF NameUsed, lease, flow, Hosted
<1>56. CASE NameFreed
  BY SMTT(30), <1>1, <1>2, <1>3, <1>4, <1>5, <1>56 DEF NameFreed, lease, flow, Hosted
<1>57. CASE RemoveOrphan
  BY SMTT(30), <1>1, <1>2, <1>3, <1>4, <1>5, <1>57 DEF RemoveOrphan, lease, flow, Hosted
<1>58. CASE Crash
  BY SMTT(30), <1>1, <1>2, <1>3, <1>4, <1>5, <1>58 DEF Crash, Ended, Stages, Sentinel, lease,
       flow, Hosted
<1>. QED
  BY <1>6, <1>7, <1>8, <1>9, <1>10, <1>11, <1>12, <1>13, <1>14, <1>15, <1>16, <1>17, <1>18,
      <1>19, <1>20, <1>21, <1>22, <1>23, <1>24, <1>25, <1>26, <1>27, <1>28, <1>29, <1>30, <1>31,
      <1>32, <1>33, <1>34, <1>35, <1>36, <1>37, <1>38, <1>39, <1>40, <1>41, <1>42, <1>43, <1>44,
      <1>45, <1>46, <1>47, <1>48, <1>49, <1>50, <1>51, <1>52, <1>53, <1>54, <1>55, <1>56, <1>57,
      <1>58
  DEF Next, Worker, Requests, Boot, Operator, World

-----------------------------------------------------------------------------
(* The identity a close works on is the room's own: a packet names the CID   *)
(* that room.json names, CIDs are not given out twice, and an identity with  *)
(* such a CID is one this room was given.                                    *)

AtWork == {"settle", "notify", "remove", "result", "destroy"}
OwnOK ==
  /\ room.cid <= cids /\ packet.cid <= cids /\ sdk.cid <= cids
  /\ sdk.cid # 0 /\ sdk.cid \in {room.cid, packet.cid} => sdk.mine
  /\ Hosted => packet.cid # 0
  /\ Hosted /\ job.at # "save" => packet.cid = room.cid
ClosingOK ==
  /\ job.at \in AtWork \cup {"refresh"} => room.state = "closing"
  /\ job.at \in AtWork => Hosted /\ sdk.cid = packet.cid
CreatingOK ==
  /\ job.at = "store" => disk = {} /\ room.state = "none"
  /\ job.at \in {"mint", "create", "save"} => room.state = "pending"
  /\ job.at = "save" => Hosted
Proper == OwnOK /\ ClosingOK /\ CreatingOK

LEMMA RoomMoves ==
  /\ NoRoom.cid = 0 /\ NoRoom.state = "none" /\ Sentinel.cid = 0 /\ Sentinel.state = "pending"
  /\ \A r \in Rooms, s \in RoomStates :
       [r EXCEPT !.state = s].state = s /\ [r EXCEPT !.state = s].cid = r.cid
  /\ \A r \in Rooms, s \in RoomStates, n \in Nat :
       /\ [r EXCEPT !.state = s, !.cid = n].state = s /\ [r EXCEPT !.state = s, !.cid = n].cid = n
  /\ \A r \in Rooms : /\ Completed(r).cid = r.cid /\ Completed(r).state = r.state
                     /\ \A s : /\ [r EXCEPT !.request = s].cid = r.cid
                             /\ [r EXCEPT !.request = s].state = r.state
                             /\ [r EXCEPT !.request.state = s].cid = r.cid
                             /\ [r EXCEPT !.request.state = s].state = r.state
<1>1. /\ NoRoom.cid = 0 /\ NoRoom.state = "none" /\ Sentinel.cid = 0 /\ Sentinel.state = "pending"
  BY DEF NoRoom, Sentinel
<1>2. ASSUME NEW r \in Rooms, NEW s \in RoomStates
      PROVE [r EXCEPT !.state = s].state = s /\ [r EXCEPT !.state = s].cid = r.cid
  BY DEF Rooms
<1>4. ASSUME NEW r \in Rooms, NEW s \in RoomStates, NEW n \in Nat
      PROVE /\ [r EXCEPT !.state = s, !.cid = n].state = s /\ [r EXCEPT !.state = s, !.cid = n].cid = n
  BY DEF Rooms
<1>3. ASSUME NEW r \in Rooms
      PROVE /\ Completed(r).cid = r.cid /\ Completed(r).state = r.state
            /\ \A s : /\ [r EXCEPT !.request = s].cid = r.cid /\ [r EXCEPT !.request = s].state = r.state
                    /\ [r EXCEPT !.request.state = s].cid = r.cid
                    /\ [r EXCEPT !.request.state = s].state = r.state
  BY DEF Rooms, Completed
<1>. QED BY <1>1, <1>2, <1>3, <1>4

LEMMA NewMoves ==
  /\ NoIdentity.cid = 0 /\ NoPacket.cid = 0
  /\ \A n, o \in Nat :
                   /\ [NoIdentity EXCEPT !.cid = n, !.mine = TRUE, !.holder = o].cid = n
                   /\ [NoIdentity EXCEPT !.cid = n, !.mine = TRUE, !.holder = o].mine
                   /\ [NoIdentity EXCEPT !.cid = n].cid = n
                   /\ [NoPacket EXCEPT !.cid = n, !.owner = o].cid = n
BY DEF NoIdentity, NoPacket

LEMMA SameIdentity ==
  ASSUME Typed
  PROVE /\ \A o \in Nat : Bound(o).cid = sdk.cid /\ Bound(o).mine = sdk.mine
        /\ \A S : Freed(S).cid = sdk.cid /\ Freed(S).mine = sdk.mine
        /\ \A c \in SUBSET Peers : /\ [sdk EXCEPT !.contacts = c].cid = sdk.cid
                                 /\ [sdk EXCEPT !.contacts = c].mine = sdk.mine
                                 /\ [packet EXCEPT !.contacts = c].cid = packet.cid
<1>1. sdk \in Identities /\ packet \in Packets BY DEF Typed, TypeOK, LeaseOK, Identities, Packets
<1>. QED BY <1>1 DEF Bound, Freed, Identities, Packets

LEMMA ProperStep == ASSUME Typed, Agreed, Proper, Next PROVE Proper'
<1>. USE DEF Proper, OwnOK, ClosingOK, CreatingOK, AtWork, Hosted
<1>1. /\ job \in Jobs /\ sdk \in Identities /\ packet \in Packets /\ room \in Rooms
      /\ job.owner \in Nat /\ packet.owner \in Nat /\ cids \in Nat /\ cids + 1 \in Nat
      /\ sdk.contacts \in SUBSET Peers /\ packet.contacts \in SUBSET Peers
      /\ packet.cid \in Nat /\ sdk.cid \in Nat /\ room.cid \in Nat
  BY DEF Typed, TypeOK, FlowOK, LeaseOK, CountsOK, FilesOK, Jobs, Steps, Callers, Goals, Identities,
     Packets, Rooms, RoomStates, Requested
<1>6. NoIdentity.cid = 0 /\ NoPacket.cid = 0 BY NewMoves
<1>7. packet'.cid # 0 => packet' # NoPacket BY <1>6, Zenon
<1>2. /\ \A at \in Steps : Proceed(at) => job'.at = at
      /\ Finish => job'.at = "none"
      /\ Abandon => job'.at = "none" \/ job'.at = "release"
  BY JobMoves
<1>3. /\ \A by \in Callers, goal \in Goals, at \in Steps : Start(by, goal, at).at = at
      /\ NoJob.at = "none"
      /\ "operator" \in Callers /\ "boot" \in Callers /\ "request" \in Callers
      /\ {"create", "recover", "close", "delete", "stop"} \subseteq Goals
  BY JobMoves DEF Callers, Goals
<1>4. job.at \in {"store", "mint", "own", "fresh", "create", "bind", "discard", "sentinel"} => packet = NoPacket
  BY DEF Agreed, WorkOK, Unpacked
<1>5. Steps = {"none", "store", "mint", "create", "save", "register", "own", "fresh", "bind", "discard",
          "sentinel", "refresh", "settle", "notify", "remove", "result", "destroy", "release",
          "forget", "purge", "delete"}
      /\ RoomStates = {"none", "pending", "open", "closing", "closed"}
  BY DEF Steps, RoomStates
<1>. USE <1>1, <1>2, <1>3, <1>4, <1>5, <1>6, <1>7
<1>8. CASE StoreCreate
  BY SMTT(30), <1>8, RoomMoves DEF StoreCreate, lease, flow, files, Free, RemovedFromSdk, NewIdentity
<1>9. CASE NameTaken
  BY <1>9 DEF NameTaken, lease, flow, files, Free, RemovedFromSdk, NewIdentity
<1>10. CASE Mint
  BY <1>10, SameIdentity, NewMoves DEF Mint, lease, flow, files, Free, RemovedFromSdk, NewIdentity
<1>11. CASE CreateIdentity
  <2>1. /\ sdk'.cid = cids + 1 /\ sdk'.mine = TRUE /\ cids' = cids + 1 /\ packet'.cid = cids + 1
        /\ job'.at = "save" /\ room' = room
    BY <1>11, NewMoves DEF CreateIdentity, NewIdentity, files
  <2>2. packet' # NoPacket BY <2>1, <1>1, <1>7
  <2>3. room.cid <= cids + 1 /\ cids + 1 <= cids + 1 BY SMTT(30)
  <2>4. OwnOK' BY <2>1, <2>2, <2>3
  <2>5. ClosingOK' BY <2>1
  <2>6. CreatingOK' BY <1>11, <2>1, <2>2 DEF CreateIdentity
  <2>. QED BY <2>4, <2>5, <2>6
<1>12. CASE CreateIdentityFails
  <2>1. room' = room /\ packet' = packet /\ packet = NoPacket
    BY <1>12 DEF CreateIdentityFails, files
  <2>2. job'.at = "discard" BY <1>12 DEF CreateIdentityFails, Jobs
  <2>3. CASE sdk' = sdk /\ cids' = cids BY <2>1, <2>2, <2>3
  <2>4. CASE sdk' = NewIdentity /\ cids' = cids + 1
    <3>1. sdk'.cid = cids + 1 /\ sdk'.mine = TRUE BY <2>4, NewMoves DEF NewIdentity
    <3>2. room.cid <= cids + 1 /\ packet.cid <= cids + 1 /\ cids + 1 <= cids + 1 OBVIOUS
    <3>3. OwnOK' BY <2>1, <2>2, <2>4, <3>1, <3>2
    <3>4. ClosingOK' /\ CreatingOK' BY <2>2
    <3>. QED BY <3>3, <3>4
  <2>. QED BY <1>12, <2>3, <2>4 DEF CreateIdentityFails
<1>13. CASE Discard
  <2>1. sdk'.cid = sdk.cid /\ sdk'.mine = sdk.mine
    BY SMTT(30), <1>13, SameIdentity DEF Discard, Released
  <2>2. job'.at \in {"none", "release", "sentinel"} BY SMTT(30), <1>13 DEF Discard
  <2>. QED BY SMTT(30), <1>13, <2>1, <2>2 DEF Discard, files
<1>14. CASE DiscardPendingProvisioning
  BY SMTT(30), <1>14, RoomMoves
  DEF DiscardPendingProvisioning, lease, flow, files, Free, RemovedFromSdk, NewIdentity
<1>15. CASE SaveCid
  BY SMTT(30), <1>15, RoomMoves DEF SaveCid, lease, flow, files, Free, RemovedFromSdk, NewIdentity
<1>16. CASE RegisterRuntimeCommands
  BY <1>16 DEF RegisterRuntimeCommands, lease, flow, files, Free, RemovedFromSdk, NewIdentity
<1>17. CASE RestoreMissing
  BY <1>17 DEF RestoreMissing, lease, flow, files, Free, RemovedFromSdk, NewIdentity
<1>18. CASE Reconnect
  BY <1>18, SameIdentity, NewMoves
  DEF Reconnect, lease, flow, files, Free, RemovedFromSdk, NewIdentity
<1>19. CASE Bind
  <2>1. /\ sdk'.cid = sdk.cid /\ sdk'.mine = sdk.mine /\ packet'.cid = sdk.cid /\ sdk.cid = room.cid
        /\ job'.at = "register" /\ room' = room /\ cids' = cids /\ sdk.cid # 0
    BY SMTT(30), <1>19, SameIdentity DEF Bind, Bindable, files
  <2>. QED BY <2>1, NewMoves
<1>20. CASE Reassigned
  BY <1>20, SameIdentity, NewMoves
  DEF Reassigned, Forgotten, lease, flow, files, Free, RemovedFromSdk, NewIdentity
<1>21. CASE BindFails
  BY SMTT(30), <1>21, SameIdentity, NewMoves
  DEF BindFails, lease, flow, files, Free, RemovedFromSdk, NewIdentity
<1>22. CASE RefreshContacts
  <2>1. /\ sdk'.cid = sdk.cid /\ sdk'.mine = sdk.mine /\ packet'.cid = packet.cid
        /\ packet.cid = sdk.cid /\ room' = room /\ cids' = cids
    BY <1>22, SameIdentity DEF RefreshContacts, Reached, files
  <2>2. job'.at = "settle" BY <1>22 DEF RefreshContacts, Jobs
  <2>3. packet.cid # 0 BY <1>22 DEF RefreshContacts
  <2>. QED BY SMTT(30), <1>22, <2>1, <2>2, <2>3 DEF RefreshContacts
<1>23. CASE RefreshFails
  BY SMTT(30), <1>23, SameIdentity, NewMoves
  DEF RefreshFails, lease, flow, files, Free, RemovedFromSdk, NewIdentity
<1>24. CASE CloseUnhosted
  BY <1>24 DEF CloseUnhosted, lease, flow, files, Free, RemovedFromSdk, NewIdentity
<1>25. CASE SettleAbsent
  BY <1>25 DEF SettleAbsent, lease, flow, files, Free, RemovedFromSdk, NewIdentity
<1>26. CASE AppendCloseIntent
  BY <1>26 DEF AppendCloseIntent, lease, flow, files, Free, RemovedFromSdk, NewIdentity
<1>27. CASE RemoveContact
  <2>1. /\ sdk'.cid = sdk.cid /\ sdk'.mine = sdk.mine /\ packet'.cid = packet.cid
        /\ room' = room /\ cids' = cids
    BY <1>27, SameIdentity DEF RemoveContact, RemovedFromSdk, files
  <2>2. job'.at = "result" BY <1>27 DEF RemoveContact, Jobs
  <2>3. packet.cid # 0 BY <1>27 DEF RemoveContact
  <2>. QED BY <1>27, <2>1, <2>2, <2>3 DEF RemoveContact
<1>28. CASE RemoveContactFails
  <2>. DEFINE cut == [sdk EXCEPT !.contacts = @ \ {Peer}]
  <2>1. cut.cid = sdk.cid /\ cut.mine = sdk.mine BY SameIdentity
  <2>2. sdk'.cid = sdk.cid /\ sdk'.mine = sdk.mine
    <3>1. sdk' = sdk \/ sdk' = cut BY <1>28 DEF RemoveContactFails, RemovedFromSdk
    <3>. HIDE DEF cut
    <3>. QED BY <2>1, <3>1
  <2>. QED BY SMTT(30), <1>28, <2>2 DEF RemoveContactFails, files
<1>29. CASE AppendCloseResult
  BY <1>29 DEF AppendCloseResult, lease, flow, files, Free, RemovedFromSdk, NewIdentity
<1>30. CASE ContactsRemoved
  BY <1>30 DEF ContactsRemoved, lease, flow, files, Free, RemovedFromSdk, NewIdentity
<1>31. CASE RemoveIdentity
  BY SMTT(30), <1>31, SameIdentity, NewMoves
  DEF RemoveIdentity, lease, flow, files, Free, RemovedFromSdk, NewIdentity
<1>32. CASE RemoveIdentityFails
  BY SMTT(30), <1>32, SameIdentity, NewMoves
  DEF RemoveIdentityFails, lease, flow, files, Free, RemovedFromSdk, NewIdentity
<1>33. CASE Purge
  <2>1. CASE Unresolved # {} BY SMTT(30), <1>33, <2>1 DEF Purge, lease, flow
  <2>2. CASE Unresolved = {}
    <3>. DEFINE shut == [room EXCEPT !.state = "closed"]
    <3>1. room'.cid = room.cid /\ room'.state = "closed"
      <4>1. shut \in Rooms /\ shut.cid = room.cid /\ shut.state = "closed" BY DEF Rooms
      <4>2. room' = Completed(shut) BY <1>33, <2>2 DEF Purge
      <4>. HIDE DEF shut
      <4>3. Completed(shut).cid = shut.cid /\ Completed(shut).state = shut.state BY SMTT(30), <4>1, RoomMoves
      <4>. QED BY <4>1, <4>2, <4>3
    <3>2. job'.at \in {"none", "delete"} BY <1>33, <2>2 DEF Purge
    <3>. QED BY SMTT(30), <1>33, <3>1, <3>2 DEF Purge, lease
  <2>. QED BY <2>1, <2>2
<1>34. CASE StoreDelete
  BY <1>34 DEF StoreDelete, lease, flow, files, Free, RemovedFromSdk, NewIdentity
<1>35. CASE ReleaseLease
  BY SMTT(30), <1>35, SameIdentity, NewMoves
  DEF ReleaseLease, Released, lease, flow, files, Free, RemovedFromSdk, NewIdentity
<1>36. CASE ReleaseLeaseFails
  BY SMTT(30), <1>36, SameIdentity, NewMoves
  DEF ReleaseLeaseFails, Released, lease, flow, files, Free, RemovedFromSdk, NewIdentity
<1>37. CASE ForgetOwner
  BY SMTT(30), <1>37, SameIdentity, NewMoves
  DEF ForgetOwner, Forgotten, lease, flow, files, Free, RemovedFromSdk, NewIdentity
<1>38. CASE EndSession
  BY SMTT(30), <1>38, SameIdentity, NewMoves
  DEF EndSession, Ended, lease, flow, files, Free, RemovedFromSdk, NewIdentity
<1>39. CASE ResumeRequest
  BY <1>39 DEF ResumeRequest, lease, flow, files, Free, RemovedFromSdk, NewIdentity
<1>40. CASE RunRequest
  <2>1. CASE ~Exists BY SMTT(30), <1>40, <2>1 DEF RunRequest, Closing, lease, files
  <2>2. CASE Closing("request", room.request.command)
    <3>1. room.request.command \in Goals BY DEF Rooms, Requested, Goals
    <3>2. job.at = "none" BY <1>40 DEF RunRequest, Free
    <3>3. /\ job'.at \in {"none", "refresh", "delete"}
          /\ job'.at = "refresh" => room'.state = "closing"
      <4>1. Start("request", room.request.command, "refresh").at = "refresh"
            /\ Start("request", room.request.command, "delete").at = "delete"
        BY SMTT(30), <3>1
      <4>2. [room EXCEPT !.state = "closing"].state = "closing" BY RoomMoves
      <4>. QED BY SMTT(30), <2>2, <4>1, <4>2 DEF Closing
    <3>4. room'.cid = room.cid BY <2>2, RoomMoves DEF Closing
    <3>5. UNCHANGED <<packet, sdk, cids>> BY <2>2 DEF Closing, lease
    <3>. QED BY SMTT(30), <3>2, <3>3, <3>4, <3>5
  <2>. QED BY <1>40, <2>1, <2>2 DEF RunRequest
<1>41. CASE MarkFailed
  BY <1>41, RoomMoves DEF MarkFailed, lease, flow, files, Free, RemovedFromSdk, NewIdentity
<1>42. CASE ListRooms
  BY <1>42 DEF ListRooms, lease, flow, files, Free, RemovedFromSdk, NewIdentity
<1>43. CASE ListThrows
  BY <1>43 DEF ListThrows, lease, flow, files, Free, RemovedFromSdk, NewIdentity
<1>44. CASE BootRestore
  BY SMTT(30), <1>44 DEF BootRestore, Phase, Recovering, lease, flow, files, Free,
       RemovedFromSdk, NewIdentity
<1>45. CASE BootResume
  BY <1>45 DEF BootResume, Phase, lease, flow, files, Free, RemovedFromSdk, NewIdentity
<1>46. CASE BootClose
  BY SMTT(30), <1>46 DEF BootClose, Phase, lease, flow, files, Free, RemovedFromSdk, NewIdentity
<1>47. CASE CreateRoom
  BY SMTT(30), <1>47, RoomMoves DEF CreateRoom, lease, flow, files, Free, RemovedFromSdk, NewIdentity
<1>48. CASE RebindIdentity
  BY SMTT(30), <1>48 DEF RebindIdentity, Recovering, lease, flow, files, Free, RemovedFromSdk,
       NewIdentity
<1>49. CASE CloseRoom
  BY SMTT(30), <1>49, RoomMoves DEF CloseRoom, Closing, lease, flow, files, Free, RemovedFromSdk,
       NewIdentity
<1>50. CASE DeleteRoom
  BY SMTT(30), <1>50, RoomMoves DEF DeleteRoom, Closing, lease, flow, files, Free,
       RemovedFromSdk, NewIdentity
<1>51. CASE Stop
  BY SMTT(30), <1>51 DEF Stop, lease, flow, files, Free, RemovedFromSdk, NewIdentity
<1>52. CASE AcceptRequest
  BY <1>52, RoomMoves DEF AcceptRequest, lease, flow, files, Free, RemovedFromSdk, NewIdentity
<1>53. CASE ContactsChange
  BY <1>53, SameIdentity, NewMoves
  DEF ContactsChange, lease, flow, files, Free, RemovedFromSdk, NewIdentity
<1>54. CASE PacketRefresh
  <2>1. packet'.cid = packet.cid BY <1>54, SameIdentity DEF PacketRefresh
  <2>2. packet.cid # 0 BY <1>54 DEF PacketRefresh
  <2>. QED BY SMTT(30), <1>54, <2>1, <2>2 DEF PacketRefresh, lease, flow, files
<1>55. CASE StrangerBinds
  BY SMTT(30), <1>55, SameIdentity, NewMoves
  DEF StrangerBinds, Stranger, lease, flow, files, Free, RemovedFromSdk, NewIdentity
<1>56. CASE StrangerLeaves
  BY SMTT(30), <1>56, SameIdentity, NewMoves
  DEF StrangerLeaves, lease, flow, files, Free, RemovedFromSdk, NewIdentity
<1>57. CASE NameUsed
  BY SMTT(30), <1>57, SameIdentity, NewMoves
  DEF NameUsed, lease, flow, files, Free, RemovedFromSdk, NewIdentity
<1>58. CASE NameFreed
  BY SMTT(30), <1>58, SameIdentity, NewMoves
  DEF NameFreed, lease, flow, files, Free, RemovedFromSdk, NewIdentity
<1>59. CASE RemoveOrphan
  BY SMTT(30), <1>59, SameIdentity, NewMoves
  DEF RemoveOrphan, lease, flow, files, Free, RemovedFromSdk, NewIdentity
<1>60. CASE Crash
  <2>1. packet' = NoPacket /\ job' = NoJob /\ cids' = cids BY <1>60 DEF Crash, Ended
  <2>2. sdk'.cid = sdk.cid /\ sdk'.mine = sdk.mine BY SMTT(30), <1>60, SameIdentity DEF Crash, Ended
  <2>3. room' = Sentinel \/ room' = room BY <1>60 DEF Crash
  <2>4. room'.cid = room.cid \/ room'.cid = 0 BY <2>3, RoomMoves
  <2>. QED BY SMTT(30), <2>1, <2>2, <2>4
<1>. QED
  BY <1>8, <1>9, <1>10, <1>11, <1>12, <1>13, <1>14, <1>15, <1>16, <1>17, <1>18, <1>19, <1>20,
      <1>21, <1>22, <1>23, <1>24, <1>25, <1>26, <1>27, <1>28, <1>29, <1>30, <1>31, <1>32, <1>33,
      <1>34, <1>35, <1>36, <1>37, <1>38, <1>39, <1>40, <1>41, <1>42, <1>43, <1>44, <1>45, <1>46,
      <1>47, <1>48, <1>49, <1>50, <1>51, <1>52, <1>53, <1>54, <1>55, <1>56, <1>57, <1>58, <1>59,
      <1>60
  DEF Next, Worker, Requests, Boot, Operator, World

-----------------------------------------------------------------------------
Sure == Typed /\ Agreed /\ Proper

LEMMA SureInit == ASSUME Init PROVE Sure
<1>1. Typed BY TypedInit
<1>2. NoIdentity.holder = 0 /\ NoPacket.owner = 0 /\ NoJob.at = "none"
  BY DEF NoIdentity, NoPacket, NoJob
<1>3. NoIdentity.cid = 0 /\ NoPacket.cid = 0 /\ NoRoom.cid = 0 BY DEF NoIdentity, NoPacket, NoRoom
<1>4. Agreed
  BY <1>2, OwnersAreNumbers DEF Init, Agreed, HolderOK, PacketOK, WorkOK, BootOK, Unpacked
<1>5. Proper BY <1>2, <1>3 DEF Init, Proper, OwnOK, ClosingOK, CreatingOK, Hosted, AtWork
<1>. QED BY <1>1, <1>4, <1>5 DEF Sure

LEMMA SureStays == ASSUME Sure, [Next]_vars PROVE Sure'
<1>1. CASE Next BY <1>1, TypedStays, AgreedStep, ProperStep DEF Sure
<1>2. CASE UNCHANGED vars
  <2>1. Typed' BY <1>2, TypedStays DEF Sure
  <2>2. Agreed'
    BY <1>2 DEF Sure, vars, files, lease, flow, history, Agreed, HolderOK, PacketOK, WorkOK, BootOK
  <2>3. Proper'
    BY <1>2
    DEF Sure, vars, files, lease, flow, history, Proper, OwnOK, ClosingOK, CreatingOK, Hosted
  <2>. QED BY <2>1, <2>2, <2>3 DEF Sure
<1>. QED BY <1>1, <1>2

(* What the ledger owes the next boot, for any owners and bounds. *)
THEOREM LeaseAlwaysRecorded == Spec => []LeaseIsRecorded
<1>1. Sure => LeaseIsRecorded BY DEF Sure, Agreed, HolderOK, LeaseIsRecorded
<1>. QED BY <1>1, SureInit, SureStays, PTL DEF Spec

(* Only removeIdentity makes a job change the identity that has the room's name. *)
LEMMA IdentityChanges ==
  ASSUME Sure, Next, sdk.cid # 0, sdk'.cid # sdk.cid PROVE job' = job \/ job.at = "destroy"
<1>. USE DEF Sure
<1>1. /\ \A o \in Nat : Bound(o).cid = sdk.cid
      /\ \A S : Freed(S).cid = sdk.cid
      /\ \A c \in SUBSET Peers : [sdk EXCEPT !.contacts = c].cid = sdk.cid
  BY SameIdentity
<1>2. job.owner \in Nat /\ packet.owner \in Nat /\ sdk.contacts \in SUBSET Peers /\ Stranger \in Nat
  BY DEF Typed, TypeOK, FlowOK, LeaseOK, Stranger
<1>3. CASE Mint \/ Reconnect \/ Reassigned \/ ForgetOwner \/ PacketRefresh \/ UNCHANGED <<lease, packet>>
  BY <1>3 DEF Mint, Reconnect, Reassigned, ForgetOwner, PacketRefresh, lease
<1>4. CASE CreateIdentity \/ CreateIdentityFails BY <1>4 DEF CreateIdentity, CreateIdentityFails
<1>5. CASE Discard \/ ReleaseLease \/ ReleaseLeaseFails
  BY <1>1, <1>5 DEF Discard, ReleaseLease, ReleaseLeaseFails, Released
<1>6. CASE Bind \/ BindFails BY <1>1, <1>2, <1>6 DEF Bind, BindFails
<1>7. CASE RefreshContacts \/ RefreshFails BY <1>1, <1>2, <1>7 DEF RefreshContacts, RefreshFails
<1>8. CASE RemoveContact \/ RemoveContactFails
  <2>1. sdk.contacts \ {Peer} \in SUBSET Peers BY <1>2
  <2>2. [sdk EXCEPT !.contacts = @ \ {Peer}].cid = sdk.cid BY <1>1, <2>1
  <2>. QED BY <1>8, <2>2 DEF RemoveContact, RemoveContactFails, RemovedFromSdk
<1>9. CASE RemoveIdentity \/ RemoveIdentityFails BY <1>9 DEF RemoveIdentity, RemoveIdentityFails
<1>10. CASE EndSession \/ Crash BY <1>1, <1>10 DEF EndSession, Crash, Ended
<1>11. CASE ContactsChange \/ StrangerBinds \/ StrangerLeaves \/ NameUsed \/ NameFreed \/ RemoveOrphan
  BY <1>11
  DEF ContactsChange, StrangerBinds, StrangerLeaves, NameUsed, NameFreed, RemoveOrphan, flow
<1>. QED
  BY <1>3, <1>4, <1>5, <1>6, <1>7, <1>8, <1>9, <1>10, <1>11, LeaseChange

(* No other identity than the room's own is ever removed for it. *)
THEOREM OnlyItsOwnRemoved == Spec => RemovesOnlyItsOwn
<1>1. Sure /\ [Next]_vars => [sdk.cid # 0 /\ sdk'.cid # sdk.cid /\ job' # job
                            => sdk.mine /\ sdk.cid = room.cid /\ room.state = "closing"]_vars
  <2>. SUFFICES ASSUME Sure, Next, sdk.cid # 0, sdk'.cid # sdk.cid, job' # job
                PROVE  sdk.mine /\ sdk.cid = room.cid /\ room.state = "closing"
    OBVIOUS
  <2>1. job.at = "destroy" BY IdentityChanges
  <2>. QED BY <2>1 DEF Sure, Proper, OwnOK, ClosingOK, AtWork
<1>. QED BY <1>1, SureInit, SureStays, PTL DEF Spec, RemovesOnlyItsOwn

(* Every lease is the recorded owner's, and only the room's own identity goes. *)
THEOREM OwnershipStaysExact == Spec => OwnershipIsExact
<1>. QED BY LeaseAlwaysRecorded, OnlyItsOwnRemoved, PTL DEF OwnershipIsExact

-----------------------------------------------------------------------------
(* Rooms only go forward, and none that was deleted comes back. *)
THEOREM NeverReopened == Spec => ClosingIsForward
<1>. DEFINE Forward == /\ Exists /\ Exists' => Rank[room.state] <= Rank[room'.state]
                       /\ ~Exists /\ Exists' => room.state = "none"
<1>1. ASSUME Sure, [Next]_vars PROVE Forward
  <2>. USE DEF Exists
  <2>1. room \in Rooms /\ room'.state \in RoomStates /\ room.state \in RoomStates
    <3>1. FilesOK' BY <1>1, SureStays DEF Sure, Typed, TypeOK
    <3>. QED BY <1>1, <3>1 DEF Sure, Typed, TypeOK, FilesOK, Rooms, RoomStates, Requested
  <2>2. CASE UNCHANGED vars BY <2>1, <2>2 DEF Rank, vars, files, RoomStates
  <2>3. CASE UNCHANGED files BY <2>1, <2>3 DEF Rank, files, RoomStates
  <2>4. room'.state = room.state /\ (Exists' => Exists) => Forward BY <2>1 DEF Rank, RoomStates
  <2>5. CASE StoreCreate \/ DiscardPendingProvisioning \/ StoreDelete \/ ListRooms
    BY <1>1, <2>1, <2>4, <2>5
    DEF StoreCreate, DiscardPendingProvisioning, StoreDelete, ListRooms, Sure,
       Proper, CreatingOK
  <2>6. CASE SaveCid
    <3>1. room.state = "pending" BY <1>1, <2>6 DEF SaveCid, Sure, Proper, CreatingOK
    <3>2. packet.cid \in Nat BY <1>1 DEF Sure, Typed, TypeOK, LeaseOK
    <3>3. room'.state = "open" BY <2>1, <2>6, <3>2 DEF SaveCid, Rooms
    <3>. QED BY <2>6, <3>1, <3>3 DEF Rank, SaveCid
  <2>7. CASE Purge
    <3>. DEFINE shut == [room EXCEPT !.state = "closed"]
    <3>1. shut \in Rooms /\ shut.state = "closed" BY <2>1 DEF Rooms, RoomStates
    <3>2. room' = room \/ room' = Completed(shut) BY <2>7 DEF Purge
    <3>. HIDE DEF shut
    <3>3. room'.state = room.state \/ room'.state = "closed" BY <3>1, <3>2, RoomMoves
    <3>. QED BY <2>1, <2>4, <2>7, <3>3 DEF Rank, Purge, RoomStates
  <2>8. CASE Crash
    <3>1. CASE job.at = "store" BY <1>1, <2>8, <3>1 DEF Crash, Sure, Proper, CreatingOK
    <3>2. CASE job.at # "store"
      <4>1. Exists' => Exists BY <2>8, <3>2 DEF Crash, Stages
      <4>. QED BY <2>4, <2>8, <3>2, <4>1 DEF Crash
    <3>. QED BY <3>1, <3>2
  <2>9. CASE AcceptRequest \/ MarkFailed
    <3>1. \A s : /\ [room EXCEPT !.request = s].state = room.state
                 /\ [room EXCEPT !.request.state = s].state = room.state
      BY <2>1, RoomMoves
    <3>2. CASE AcceptRequest BY <2>4, <2>9, <3>1, <3>2 DEF AcceptRequest
    <3>3. CASE MarkFailed BY <2>4, <2>9, <3>1, <3>3 DEF MarkFailed
    <3>. QED BY <2>9, <3>2, <3>3
  <2>10. ASSUME NEW by, NEW goal, Closing(by, goal) PROVE Forward
    <3>1. room'.state = "closing" \/ room'.state = room.state
      BY <2>1, <2>10, RoomMoves DEF Closing, RoomStates
    <3>2. room.state \in {"open", "closing"} \/ room'.state = room.state
      BY <2>1, <2>10, RoomMoves DEF Closing
    <3>. QED BY <2>4, <2>10, <3>1, <3>2 DEF Rank, Closing
  <2>11. CASE RunRequest \/ CloseRoom \/ DeleteRoom
    BY <2>4, <2>10, <2>11 DEF RunRequest, CloseRoom, DeleteRoom, files
  <2>12. CASE SettleAbsent \/ AppendCloseIntent \/ AppendCloseResult
    BY <2>4, <2>12 DEF SettleAbsent, AppendCloseIntent, AppendCloseResult
  <2>. QED
    BY <1>1, <2>2, <2>3, <2>5, <2>6, <2>7, <2>8, <2>9, <2>11, <2>12, FilesChange
<1>2. Sure /\ [Next]_vars => [Forward]_vars BY <1>1
<1>. QED BY <1>2, SureInit, SureStays, PTL DEF Spec, ClosingIsForward

-----------------------------------------------------------------------------
(* What the journal of a close says.  The notices and the removals that the  *)
(* results claim were made, with one to spare while the SDK has answered and *)
(* the result is not yet written; the intent of that answer has no result.   *)

OneResult ==
  /\ \A k \in DOMAIN journal : journal[k].of \in {0} \cup DOMAIN journal
  /\ \A k, l \in DOMAIN journal : journal[k].of # 0 /\ journal[k].of = journal[l].of => k = l
Awaited == job.at \in Held => job.of \in Unresolved
Noticed(p) == {k \in Of(p) : journal[k].told}
Proven(p) == {k \in Of(p) : journal[k].sure}
Spare(p) == IF job.at = "result" /\ Peer = p THEN 1 ELSE 0
Counted ==
  \A p \in Peers :
    /\ Cardinality(Noticed(p)) + (IF job.told THEN Spare(p) ELSE 0) <= notices[p]
    /\ Cardinality(Proven(p)) + Spare(p) <= removed[p]
Witnessed ==
  /\ "archive" \in disk => \A p \in Peers : removed[p] > 0 => \E i \in Intents : journal[i].peer = p
  /\ room.state \in {"none", "pending", "open"} => \A p \in Peers : removed[p] = 0
Written == OneResult /\ Awaited /\ Counted /\ Witnessed

LEMMA Positions ==
  ASSUME Typed
  PROVE  /\ journal \in Seq(Records) /\ DOMAIN journal = 1..Len(journal) /\ Len(journal) \in Nat
         /\ \A k \in DOMAIN journal : journal[k] \in Records
         /\ Unresolved \subseteq Intents /\ Intents \subseteq DOMAIN journal
         /\ Unresolved # {} => First(Unresolved) \in Unresolved
<1>1. journal \in Seq(Records) /\ FilesOK BY DEF Typed, TypeOK, FilesOK, Records
<1>2. Unresolved \subseteq Intents /\ Intents \subseteq DOMAIN journal BY DEF Unresolved, Intents
<1>3. Unresolved # {} => First(Unresolved) \in Unresolved BY <1>1, <1>2, Chosen
<1>. QED BY <1>1, <1>2, <1>3

(* One more record in the journal. *)
LEMMA Appended ==
  ASSUME Typed, NEW e \in Records, journal' = Append(journal, e)
  PROVE  /\ DOMAIN journal' = DOMAIN journal \cup {Len(journal) + 1}
         /\ Len(journal) + 1 \notin DOMAIN journal /\ Len(journal) + 1 # 0
         /\ journal'[Len(journal) + 1] = e
         /\ \A k \in DOMAIN journal : journal'[k] = journal[k]
<1>1. journal \in Seq(Records) /\ DOMAIN journal = 1..Len(journal) /\ Len(journal) \in Nat
  BY Positions
<1>2. DOMAIN journal' = 1..(Len(journal) + 1) BY <1>1
<1>. QED BY <1>1, <1>2

LEMMA EntryAdded ==
  ASSUME Typed, OneResult, NEW e \in Records, journal' = Append(journal, e)
  PROVE  /\ e.of = 0 => /\ Intents' = Intents \cup {Len(journal) + 1}
                        /\ Unresolved' = Unresolved \cup {Len(journal) + 1}
         /\ e.of # 0 => Intents' = Intents /\ Unresolved' = Unresolved \ {e.of}
         /\ \A p : Noticed(p)' = IF e.of # 0 /\ e.peer = p /\ e.told
                                 THEN Noticed(p) \cup {Len(journal) + 1} ELSE Noticed(p)
         /\ \A p : Proven(p)' = IF e.of # 0 /\ e.peer = p /\ e.sure
                                THEN Proven(p) \cup {Len(journal) + 1} ELSE Proven(p)
<1>. DEFINE n == Len(journal) + 1
<1>1. /\ DOMAIN journal' = DOMAIN journal \cup {n} /\ n \notin DOMAIN journal /\ n # 0
      /\ journal'[n] = e /\ \A k \in DOMAIN journal : journal'[k] = journal[k]
  BY Appended
<1>2. 0 \notin DOMAIN journal BY Positions
<1>. HIDE DEF n
<1>3. Intents' = IF e.of = 0 THEN Intents \cup {n} ELSE Intents BY <1>1 DEF Intents
<1>4. ASSUME e.of = 0 PROVE Unresolved' = Unresolved \cup {n}
  <2>1. \A k \in DOMAIN journal : journal[k].of # n BY <1>1 DEF OneResult
  <2>2. Intents \subseteq DOMAIN journal /\ 0 \notin Intents BY <1>2 DEF Intents
  <2>3. \A i \in Intents : (\A k \in DOMAIN journal' : journal'[k].of # i)
                           <=> (\A k \in DOMAIN journal : journal[k].of # i)
    BY <1>1, <1>4, <2>2
  <2>4. \A k \in DOMAIN journal' : journal'[k].of # n BY <1>1, <1>4, <2>1
  <2>. QED BY <1>3, <1>4, <2>3, <2>4 DEF Unresolved
<1>5. ASSUME e.of # 0 PROVE Unresolved' = Unresolved \ {e.of}
  <2>1. \A i \in Intents : (\A k \in DOMAIN journal' : journal'[k].of # i)
                           <=> i # e.of /\ \A k \in DOMAIN journal : journal[k].of # i
    BY <1>1
  <2>. QED BY <1>3, <1>5, <2>1 DEF Unresolved
<1>6. ASSUME NEW p
      PROVE  /\ Noticed(p)' = IF e.of # 0 /\ e.peer = p /\ e.told THEN Noticed(p) \cup {n} ELSE Noticed(p)
             /\ Proven(p)' = IF e.of # 0 /\ e.peer = p /\ e.sure THEN Proven(p) \cup {n} ELSE Proven(p)
  <2>1. Noticed(p)' = {k \in DOMAIN journal' :
                         journal'[k].peer = p /\ journal'[k].of # 0 /\ journal'[k].told}
    BY DEF Noticed, Of
  <2>2. Noticed(p) = {k \in DOMAIN journal :
                        journal[k].peer = p /\ journal[k].of # 0 /\ journal[k].told}
    BY DEF Noticed, Of
  <2>3. Proven(p)' = {k \in DOMAIN journal' :
                        journal'[k].peer = p /\ journal'[k].of # 0 /\ journal'[k].sure}
    BY DEF Proven, Of
  <2>4. Proven(p) = {k \in DOMAIN journal :
                       journal[k].peer = p /\ journal[k].of # 0 /\ journal[k].sure}
    BY DEF Proven, Of
  <2>5. Noticed(p)' = IF e.of # 0 /\ e.peer = p /\ e.told THEN Noticed(p) \cup {n} ELSE Noticed(p)
    BY <1>1, <2>1, <2>2
  <2>6. Proven(p)' = IF e.of # 0 /\ e.peer = p /\ e.sure THEN Proven(p) \cup {n} ELSE Proven(p)
    BY <1>1, <2>3, <2>4
  <2>. QED BY <2>5, <2>6
<1>. QED BY <1>3, <1>4, <1>5, <1>6 DEF n

(* A result of an intent that has none leaves one result an intent. *)
LEMMA ResultAdded ==
  ASSUME Typed, OneResult, NEW e \in Records, journal' = Append(journal, e),
         e.of = 0 \/ e.of \in Unresolved
  PROVE  OneResult'
<1>. DEFINE n == Len(journal) + 1
<1>1. /\ DOMAIN journal' = DOMAIN journal \cup {n} /\ n \notin DOMAIN journal /\ n # 0
      /\ journal'[n] = e /\ \A k \in DOMAIN journal : journal'[k] = journal[k]
  BY Appended
<1>2. e.of \in {0} \cup DOMAIN journal
      /\ (e.of # 0 => \A k \in DOMAIN journal : journal[k].of # e.of)
  BY DEF Unresolved, Intents
<1>. HIDE DEF n
<1>3. \A k \in DOMAIN journal' : journal'[k].of \in {0} \cup DOMAIN journal'
  BY <1>1, <1>2 DEF OneResult
<1>4. ASSUME NEW k \in DOMAIN journal', NEW l \in DOMAIN journal',
             journal'[k].of # 0, journal'[k].of = journal'[l].of
      PROVE  k = l
  <2>1. CASE k = n /\ l = n BY <2>1
  <2>2. CASE k = n /\ l # n BY <1>1, <1>2, <1>4, <2>2
  <2>3. CASE k # n /\ l = n BY <1>1, <1>2, <1>4, <2>3
  <2>4. CASE k # n /\ l # n BY <1>1, <1>4, <2>4 DEF OneResult
  <2>. QED BY <2>1, <2>2, <2>3, <2>4
<1>. QED BY <1>3, <1>4 DEF OneResult

LEMMA Countable ==
  ASSUME Typed, NEW p
  PROVE  /\ IsFiniteSet(Noticed(p)) /\ Cardinality(Noticed(p)) \in Nat
         /\ IsFiniteSet(Proven(p)) /\ Cardinality(Proven(p)) \in Nat
         /\ Len(journal) + 1 \notin Noticed(p) /\ Len(journal) + 1 \notin Proven(p)
         /\ Spare(p) \in {0, 1}
<1>1. DOMAIN journal = 1..Len(journal) /\ Len(journal) \in Nat BY Positions
<1>2. IsFiniteSet(DOMAIN journal) BY <1>1, FS_Interval
<1>3. Noticed(p) \subseteq DOMAIN journal /\ Proven(p) \subseteq DOMAIN journal
  BY DEF Noticed, Proven, Of
<1>4. IsFiniteSet(Noticed(p)) /\ IsFiniteSet(Proven(p)) BY <1>2, <1>3, FS_Subset
<1>5. Len(journal) + 1 \notin DOMAIN journal BY <1>1
<1>. QED BY <1>3, <1>4, <1>5, FS_CardinalityType DEF Spare

LEMMA Starts ==
  /\ \A by \in Callers, goal \in Goals, at \in Steps :
       Start(by, goal, at).at = at /\ Start(by, goal, at).goal = goal
  /\ NoJob.at = "none" /\ NoJob.goal = "none"
  /\ Callers = {"operator", "request", "boot"}
  /\ Goals = {"none", "create", "recover", "close", "delete", "unhost", "stop"}
BY DEF Start, NoJob, Callers, Goals

(* Steps that neither write to the journal nor remove a contact. *)
Calm == UNCHANGED <<journal, history>> /\ (UNCHANGED job \/ job'.at \notin Held)

LEMMA CalmSteps ==
  ASSUME Typed, Next
  PROVE  \/ Calm
         \/ SettleAbsent \/ AppendCloseIntent \/ RemoveContact \/ RemoveContactFails
         \/ AppendCloseResult \/ Purge \/ StoreDelete \/ Crash
<1>. USE DEF Calm
<1>1. job \in Jobs /\ FlowOK BY DEF Typed, TypeOK, FlowOK, Jobs, Steps, Callers, Goals
<1>2. Quiet => job'.at \notin Held BY DEF Quiet
<1>3. /\ \A by \in Callers, goal \in Goals, at \in Steps : Start(by, goal, at).at = at
      /\ NoJob.at = "none"
      /\ Callers = {"operator", "request", "boot"}
      /\ Goals = {"none", "create", "recover", "close", "delete", "unhost", "stop"}
  BY Starts
<1>4. {"store", "mint", "own", "refresh", "delete", "release"} \subseteq Steps
      /\ Held = {"remove", "result"}
  BY DEF Steps, Held
<1>5. CASE StoreCreate \/ NameTaken \/ CreateIdentity \/ Discard \/ DiscardPendingProvisioning \/
           SaveCid \/ RegisterRuntimeCommands \/ RestoreMissing \/ Bind \/ Reassigned \/
           BindFails \/ RefreshFails \/ CloseUnhosted \/ ContactsRemoved \/
           RemoveIdentity \/ RemoveIdentityFails \/ ReleaseLease \/
           ReleaseLeaseFails \/ ForgetOwner
  <2>1. job'.at \notin Held BY <1>1, <1>2, <1>5, QuietSteps
  <2>2. UNCHANGED <<journal, history>>
    BY <1>5 DEF StoreCreate, NameTaken, CreateIdentity, Discard, DiscardPendingProvisioning, SaveCid,
      RegisterRuntimeCommands, RestoreMissing, Bind, Reassigned, BindFails, RefreshFails,
      CloseUnhosted, ContactsRemoved, RemoveIdentity, RemoveIdentityFails, ReleaseLease,
      ReleaseLeaseFails, ForgetOwner, files, history
  <2>. QED BY <2>1, <2>2
<1>6. CASE Mint \/ CreateIdentityFails \/ Reconnect \/ RefreshContacts
  <2>1. job'.at \in {"create", "bind", "discard", "settle"}
    BY <1>1, <1>6 DEF Mint, CreateIdentityFails, Reconnect, RefreshContacts, Jobs
  <2>. QED BY <1>4, <1>6, <2>1
       DEF Mint, CreateIdentityFails, Reconnect, RefreshContacts, files, history
<1>7. CASE EndSession BY <1>3, <1>4, <1>7 DEF EndSession, Ended, files
<1>8. ASSUME NEW by \in Callers, NEW goal \in Goals, Closing(by, goal) PROVE Calm
  <2>1. Start(by, goal, "refresh").at = "refresh" /\ Start(by, goal, "delete").at = "delete"
    BY <1>3, <1>4
  <2>. QED BY <1>3, <1>4, <1>8, <2>1 DEF Closing
<1>9. CASE RunRequest
  <2>1. room.request.command \in Goals BY DEF Typed, TypeOK, FilesOK, Goals
  <2>. QED BY <1>3, <1>8, <1>9, <2>1 DEF RunRequest, files
<1>10. CASE CloseRoom \/ DeleteRoom BY <1>3, <1>8, <1>10 DEF CloseRoom, DeleteRoom
<1>11. CASE CreateRoom \/ RebindIdentity \/ BootRestore \/ BootClose \/ Stop
  <2>1. job'.at \in {"none", "store", "mint", "own", "refresh", "release"}
    BY <1>3, <1>4, <1>11
    DEF CreateRoom, RebindIdentity, BootRestore, BootClose, Stop, Recovering, Phase, Free
  <2>. QED BY <1>4, <1>11, <2>1
       DEF CreateRoom, RebindIdentity, BootRestore, BootClose, Stop, files
<1>12. CASE ResumeRequest \/ MarkFailed \/ ListRooms \/ ListThrows \/ BootResume \/ AcceptRequest
            \/ ContactsChange \/ PacketRefresh \/ StrangerBinds \/ StrangerLeaves \/ NameUsed
            \/ NameFreed \/ RemoveOrphan
  BY <1>12
  DEF ResumeRequest, MarkFailed, ListRooms, ListThrows, BootResume, AcceptRequest, ContactsChange,
      PacketRefresh, StrangerBinds, StrangerLeaves, NameUsed, NameFreed, RemoveOrphan, files, flow
<1>. QED
  BY <1>5, <1>6, <1>7, <1>9, <1>10, <1>11, <1>12 DEF Next, Worker, Requests, Boot, Operator, World

(* An intent that is without a result gets its uncertain one. *)
LEMMA UncertainAdded ==
  ASSUME Typed, Written, NEW i \in Unresolved, journal' = Append(journal, Uncertain(i)),
         UNCHANGED history, job.at \notin Held, job'.at \notin Held
  PROVE  OneResult' /\ Awaited' /\ Counted' /\ Unresolved' = Unresolved \ {i} /\ Intents' = Intents
<1>. USE DEF Written
<1>1. i \in Intents /\ i \in DOMAIN journal /\ i # 0 BY Positions
<1>2. Uncertain(i) \in Records BY <1>1, JournalEntries DEF Typed, TypeOK
<1>3. Uncertain(i).of = i /\ ~Uncertain(i).told /\ ~Uncertain(i).sure BY DEF Uncertain, Result
<1>4. OneResult' BY <1>2, <1>3, ResultAdded
<1>5. /\ Unresolved' = Unresolved \ {i} /\ Intents' = Intents
      /\ \A p : Noticed(p)' = Noticed(p) /\ Proven(p)' = Proven(p)
  BY <1>1, <1>2, <1>3, EntryAdded
<1>6. \A p : Spare(p) = 0 /\ Spare(p)' = 0 BY DEF Spare, Held
<1>7. Counted' BY <1>5, <1>6 DEF Counted, history
<1>. QED BY <1>4, <1>5, <1>7 DEF Awaited

(* The history only grows, and with it what the journal may claim. *)
Grown == \A p \in Peers : /\ notices[p] <= notices'[p] /\ removed[p] <= removed'[p]
                          /\ removed'[p] # removed[p] => p = Peer

LEMMA HistoryGrows ==
  ASSUME Typed, Next
  PROVE  \/ UNCHANGED history
         \/ RemoveContact
         \/ RemoveContactFails /\ Grown
<1>1. CASE RemoveContactFails
  <2>1. notices \in [Peers -> Nat] /\ removed \in [Peers -> Nat] BY DEF Typed, TypeOK, CountsOK
  <2>2. ASSUME NEW t \in BOOLEAN, RemovedFromSdk(t) PROVE Grown
    BY <2>1, <2>2 DEF RemovedFromSdk, Grown
  <2>3. UNCHANGED history \/ \E t \in BOOLEAN : RemovedFromSdk(t)
    BY <1>1 DEF RemoveContactFails
  <2>. QED BY <1>1, <2>2, <2>3
<1>2. CASE Calm \/ SettleAbsent \/ AppendCloseIntent \/ AppendCloseResult \/ Purge \/ StoreDelete \/ Crash
  BY <1>2 DEF Calm, SettleAbsent, AppendCloseIntent, AppendCloseResult, Purge, StoreDelete, Crash
<1>. QED BY <1>1, <1>2, CalmSteps

LEMMA CountedStep ==
  ASSUME Sure, Written, Next PROVE OneResult' /\ Awaited' /\ Counted'
<1>. USE DEF Written, Sure
<1>1. /\ notices \in [Peers -> Nat] /\ removed \in [Peers -> Nat]
      /\ notices' \in [Peers -> Nat] /\ removed' \in [Peers -> Nat] /\ job \in Jobs
  <2>1. CountsOK' BY CountsStep
  <2>. QED BY <2>1 DEF Typed, TypeOK, CountsOK, FlowOK, Jobs, Steps, Callers, Goals
<1>2. \A p : /\ Spare(p) \in {0, 1} /\ Cardinality(Noticed(p)) \in Nat
             /\ Cardinality(Proven(p)) \in Nat
  BY Countable
<1>3. job'.at \notin Held => \A p : Spare(p)' = 0 BY DEF Spare, Held
<1>4. ASSUME UNCHANGED journal
      PROVE  /\ OneResult' /\ Unresolved' = Unresolved
             /\ \A p : Noticed(p)' = Noticed(p) /\ Proven(p)' = Proven(p)
  BY <1>4 DEF OneResult, Unresolved, Intents, Noticed, Proven, Of
<1>5. CASE Calm
  <2>1. CASE UNCHANGED job
    <3>1. \A p : Spare(p)' = Spare(p) BY <1>5, <2>1 DEF Calm, Spare, Peer
    <3>2. Counted' BY <1>4, <1>5, <2>1, <3>1 DEF Calm, Counted, history
    <3>. QED BY <1>4, <1>5, <2>1, <3>2 DEF Calm, Awaited
  <2>2. CASE job'.at \notin Held
    <3>1. Counted' BY <1>1, <1>2, <1>3, <1>4, <1>5, <2>2 DEF Calm, Counted, history
    <3>. QED BY <1>4, <1>5, <2>2, <3>1 DEF Calm, Awaited
  <2>. QED BY <1>5, <2>1, <2>2 DEF Calm
<1>6. CASE SettleAbsent
  <2>. DEFINE absent == {i \in Unresolved : journal[i].peer \notin job.todo}
  <2>1. CASE absent = {}
    <3>1. job'.at \notin Held
      <4>1. "notify" \in Steps BY DEF Steps
      <4>2. Proceed("notify") BY <1>6, <2>1 DEF SettleAbsent
      <4>3. job'.at = "notify" BY <4>1, <4>2, JobMoves
      <4>. QED BY <4>3 DEF Held
    <3>2. UNCHANGED <<journal, history>> BY <1>6, <2>1 DEF SettleAbsent
    <3>3. Counted' BY <1>1, <1>2, <1>3, <1>4, <3>1, <3>2 DEF Counted, history
    <3>. QED BY <1>4, <3>1, <3>2, <3>3 DEF Awaited
  <2>2. CASE absent # {}
    <3>1. First(absent) \in absent
      <4>1. absent \subseteq DOMAIN journal BY Positions
      <4>. HIDE DEF absent
      <4>. QED BY <2>2, <4>1, Chosen DEF Typed, TypeOK
    <3>2. /\ journal' = Append(journal, Uncertain(First(absent))) /\ UNCHANGED <<history, job>>
          /\ job.at \notin Held
      BY <1>6, <2>2 DEF SettleAbsent, flow, Held
    <3>3. First(absent) \in Unresolved BY <3>1
    <3>. HIDE DEF absent
    <3>. QED BY <3>2, <3>3, UncertainAdded
  <2>. QED BY <2>1, <2>2
<1>7. CASE AppendCloseIntent
  <2>. DEFINE open(p) == {i \in Unresolved : journal[i].peer = p}
  <2>1. PICK p \in job.todo :
          /\ journal' = IF open(p) = {} THEN Append(journal, Intent(p)) ELSE journal
          /\ job' = [job EXCEPT !.at = "remove",
                                !.of = IF open(p) = {} THEN Len(journal) + 1 ELSE Last(open(p))]
    BY <1>7 DEF AppendCloseIntent
  <2>2. /\ job'.at = "remove"
        /\ job'.of = IF open(p) = {} THEN Len(journal) + 1 ELSE Last(open(p))
    BY <1>1, <2>1 DEF Jobs
  <2>3. UNCHANGED history BY <1>7 DEF AppendCloseIntent
  <2>4. \A x : Spare(x)' = 0 BY <2>2 DEF Spare
  <2>5. CASE open(p) = {}
    <3>1. Intent(p) \in Records BY <1>1, JournalEntries DEF Typed, TypeOK, Jobs
    <3>2. Intent(p).of = 0 BY DEF Intent
    <3>3. journal' = Append(journal, Intent(p)) BY <2>1, <2>5
    <3>4. OneResult' BY <3>1, <3>2, <3>3, ResultAdded
    <3>5. /\ Unresolved' = Unresolved \cup {Len(journal) + 1}
          /\ \A x : Noticed(x)' = Noticed(x) /\ Proven(x)' = Proven(x)
      BY <3>1, <3>2, <3>3, EntryAdded
    <3>6. Counted' BY <1>1, <1>2, <2>3, <2>4, <3>5 DEF Counted, history
    <3>. QED BY <2>2, <2>5, <3>4, <3>5, <3>6 DEF Awaited
  <2>6. CASE open(p) # {}
    <3>1. Last(open(p)) \in open(p)
      <4>. DEFINE mine == open(p)
      <4>1. mine \subseteq DOMAIN journal BY Positions
      <4>. HIDE DEF mine
      <4>2. mine # {} => Last(mine) \in mine BY <4>1, Chosen DEF Typed, TypeOK
      <4>. QED BY <2>6, <4>2 DEF mine
    <3>2. UNCHANGED journal BY <2>1, <2>6
    <3>3. Counted' BY <1>1, <1>2, <1>4, <2>3, <2>4, <3>2 DEF Counted, history
    <3>. QED BY <1>4, <2>2, <2>6, <3>1, <3>2, <3>3 DEF Awaited
  <2>. QED BY <2>5, <2>6
<1>8. CASE RemoveContact
  <2>1. PICK t \in BOOLEAN : RemovedFromSdk(t) /\ job' = [job EXCEPT !.at = "result", !.told = t]
    BY <1>8 DEF RemoveContact
  <2>2. job'.at = "result" /\ job'.told = t /\ job'.of = job.of BY <1>1, <2>1 DEF Jobs
  <2>3. UNCHANGED journal /\ job.at = "remove" BY <1>8 DEF RemoveContact, files
  <2>4. \A x : Spare(x) = 0 /\ Spare(x)' = IF Peer = x THEN 1 ELSE 0
    BY <2>2, <2>3 DEF Spare, Peer
  <2>5. \A x \in Peers : /\ removed'[x] = removed[x] + (IF Peer = x THEN 1 ELSE 0)
                         /\ notices'[x] = notices[x] + (IF t /\ Peer = x THEN 1 ELSE 0)
    BY <1>1, <2>1 DEF RemovedFromSdk
  <2>6. Counted'
    <3>. SUFFICES ASSUME NEW x \in Peers
                  PROVE  /\ Cardinality(Noticed(x)) + (IF t THEN Spare(x)' ELSE 0) <= notices'[x]
                         /\ Cardinality(Proven(x)) + Spare(x)' <= removed'[x]
      BY <1>4, <2>2, <2>3 DEF Counted
    <3>1. /\ Cardinality(Noticed(x)) <= notices[x] /\ Cardinality(Proven(x)) <= removed[x]
          /\ Cardinality(Noticed(x)) \in Nat /\ Cardinality(Proven(x)) \in Nat
          /\ notices[x] \in Nat /\ removed[x] \in Nat
      BY <1>1, <1>2, <2>4 DEF Counted
    <3>. QED BY <2>4, <2>5, <3>1
  <2>. QED BY <1>4, <2>2, <2>3, <2>6 DEF Awaited, Held
<1>9. CASE RemoveContactFails
  <2>1. job'.at \notin Held /\ job.at = "remove" /\ UNCHANGED journal
    BY <1>9, JobMoves DEF RemoveContactFails, files, Held
  <2>2. \A x \in Peers : notices[x] <= notices'[x] /\ removed[x] <= removed'[x]
    <3>1. UNCHANGED history \/ \A x \in Peers : notices[x] <= notices'[x] /\ removed[x] <= removed'[x]
      <4>1. ~RemoveContact BY <1>1, <2>1 DEF RemoveContact, Jobs, Held
      <4>. QED BY <1>9, <4>1, HistoryGrows DEF Grown
    <3>. QED BY <1>1, <3>1 DEF history
  <2>3. Counted' BY <1>1, <1>2, <1>3, <1>4, <2>1, <2>2 DEF Counted
  <2>. QED BY <1>4, <2>1, <2>3 DEF Awaited
<1>10. CASE AppendCloseResult
  <2>. DEFINE e == Result(job.of, job.told)
  <2>1. /\ job.at = "result" /\ journal' = Append(journal, e) /\ UNCHANGED history
        /\ job.of \in Unresolved /\ job.told \in BOOLEAN
    BY <1>1, <1>10 DEF AppendCloseResult, Awaited, Held, Jobs
  <2>2. job'.at = "notify" BY <1>1, <1>10 DEF AppendCloseResult, Jobs
  <2>3. job.of \in DOMAIN journal /\ job.of # 0 BY <2>1, Positions
  <2>4. e \in Records /\ e.of = job.of /\ e.peer = Peer /\ e.told = job.told /\ e.sure
    BY <2>1, <2>3, JournalEntries DEF Typed, TypeOK, Result, Peer
  <2>. HIDE DEF e
  <2>5. OneResult' BY <2>1, <2>4, ResultAdded
  <2>6. \A x : /\ Noticed(x)' = IF job.told /\ Peer = x THEN Noticed(x) \cup {Len(journal) + 1}
                                ELSE Noticed(x)
               /\ Proven(x)' = IF Peer = x THEN Proven(x) \cup {Len(journal) + 1} ELSE Proven(x)
    BY <2>1, <2>3, <2>4, EntryAdded
  <2>7. ASSUME NEW x \in Peers
        PROVE  /\ Cardinality(Noticed(x)') <= notices'[x] /\ Cardinality(Proven(x)') <= removed'[x]
    <3>1. /\ Cardinality(Noticed(x) \cup {Len(journal) + 1}) = Cardinality(Noticed(x)) + 1
          /\ Cardinality(Proven(x) \cup {Len(journal) + 1}) = Cardinality(Proven(x)) + 1
      BY Countable, FS_AddElement
    <3>2. Spare(x) = IF Peer = x THEN 1 ELSE 0 BY <2>1 DEF Spare
    <3>3. /\ Cardinality(Noticed(x)) + (IF job.told THEN Spare(x) ELSE 0) <= notices[x]
          /\ Cardinality(Proven(x)) + Spare(x) <= removed[x]
      BY DEF Counted
    <3>4. /\ Cardinality(Noticed(x)') = Cardinality(Noticed(x)) + (IF job.told THEN Spare(x) ELSE 0)
          /\ Cardinality(Proven(x)') = Cardinality(Proven(x)) + Spare(x)
      <4>1. CASE Peer = x
        <5>1. Noticed(x)' = IF job.told THEN Noticed(x) \cup {Len(journal) + 1} ELSE Noticed(x)
          BY <2>6, <4>1
        <5>2. Proven(x)' = Proven(x) \cup {Len(journal) + 1} BY <2>6, <4>1
        <5>3. Spare(x) = 1 BY <3>2, <4>1
        <5>4. CASE job.told BY <3>1, <5>1, <5>2, <5>3, <5>4
        <5>5. CASE ~job.told BY <1>2, <3>1, <5>1, <5>2, <5>3, <5>5
        <5>. QED BY <5>4, <5>5
      <4>2. CASE Peer # x BY <1>2, <2>1, <2>6, <3>2, <4>2
      <4>. QED BY <4>1, <4>2
    <3>5. notices' = notices /\ removed' = removed BY <2>1 DEF history
    <3>. QED BY <3>3, <3>4, <3>5
  <2>8. Counted'
    <3>1. \A x : Spare(x)' = 0 BY <2>2 DEF Spare
    <3>2. \A x \in Peers : Cardinality(Noticed(x)') \in Nat /\ Cardinality(Proven(x)') \in Nat
      <4>1. Typed' BY TypedStays
      <4>2. IsFiniteSet(DOMAIN journal') /\ \A x : Noticed(x)' \subseteq DOMAIN journal' /\ Proven(x)' \subseteq DOMAIN journal'
        <5>1. journal' \in Seq(Records) BY <4>1 DEF Typed, TypeOK, FilesOK, Records
        <5>2. DOMAIN journal' = 1..Len(journal') /\ Len(journal') \in Nat BY <5>1
        <5>. QED BY <5>2, FS_Interval DEF Noticed, Proven, Of
      <4>. QED BY <4>2, FS_Subset, FS_CardinalityType
    <3>. QED BY <2>7, <3>1, <3>2 DEF Counted
  <2>. QED BY <2>2, <2>5, <2>8 DEF Awaited, Held
<1>11. CASE Purge
  <2>1. CASE Unresolved # {}
    <3>1. /\ journal' = Append(journal, Uncertain(First(Unresolved))) /\ UNCHANGED <<history, job>>
          /\ job.at \notin Held
      BY <1>11, <2>1 DEF Purge, flow, Held
    <3>. QED BY <2>1, <3>1, Positions, UncertainAdded
  <2>2. CASE Unresolved = {}
    <3>1. UNCHANGED <<journal, history>> BY <1>11, <2>2 DEF Purge
    <3>2. job'.at \notin Held
      <4>1. "delete" \in Steps BY DEF Steps
      <4>2. Proceed("delete") \/ Finish BY <1>11, <2>2 DEF Purge
      <4>3. job'.at \in {"delete", "none"} BY <4>1, <4>2, JobMoves
      <4>. QED BY <4>3 DEF Held
    <3>3. Counted' BY <1>1, <1>2, <1>3, <1>4, <3>1, <3>2 DEF Counted, history
    <3>. QED BY <1>4, <3>1, <3>2, <3>3 DEF Awaited
  <2>. QED BY <2>1, <2>2
<1>12. CASE StoreDelete \/ Crash
  <2>1. job'.at \notin Held /\ UNCHANGED history
    BY <1>12, JobMoves DEF StoreDelete, Crash, Ended, Held
  <2>2. CASE journal' = <<>>
    <3>1. OneResult' /\ \A x : Noticed(x)' = {} /\ Proven(x)' = {}
      BY <2>2 DEF OneResult, Noticed, Proven, Of
    <3>2. Cardinality({}) = 0 BY FS_EmptySet
    <3>3. \A x \in Peers : /\ Cardinality(Noticed(x)') = 0 /\ Cardinality(Proven(x)') = 0
                           /\ Spare(x)' = 0 /\ notices'[x] >= 0 /\ removed'[x] >= 0
      BY <1>1, <1>3, <2>1, <3>1, <3>2
    <3>4. Counted' BY <3>3 DEF Counted
    <3>. QED BY <2>1, <3>1, <3>4 DEF Awaited
  <2>3. CASE UNCHANGED journal
    <3>1. Counted' BY <1>1, <1>2, <1>3, <1>4, <2>1, <2>3 DEF Counted, history
    <3>. QED BY <1>4, <2>1, <2>3, <3>1 DEF Awaited
  <2>4. journal' = <<>> \/ UNCHANGED journal BY <1>12 DEF StoreDelete, Crash
  <2>. QED BY <2>2, <2>3, <2>4
<1>. QED BY <1>5, <1>6, <1>7, <1>8, <1>9, <1>10, <1>11, <1>12, CalmSteps

-----------------------------------------------------------------------------
(* How a room is led to its end: what the job has come to tells the room's   *)
(* state, and a room that is closed has no packet and owes no result.        *)

Routed ==
  /\ job.at \in {"own", "fresh", "bind"} => room.state # "closed" /\ job.goal = "recover"
  /\ job.at = "discard" /\ job.goal = "create" => room.state = "pending"
  /\ job.at = "sentinel" => room.state = "pending"
  /\ phase = "restore" /\ healthy => room.state # "closed"
Concluded ==
  /\ job.at = "purge" => packet = NoPacket
  /\ room.state = "closed" => packet = NoPacket /\ Unresolved = {}

LEMMA RoomGoes ==
  ASSUME Sure, Next
  PROVE  \/ room'.state = room.state
         \/ room.state \in {"none", "pending"} /\ room'.state \in {"pending", "open"}
         \/ DiscardPendingProvisioning /\ room'.state = "none"
         \/ room'.state = "closing" /\ room.state # "closed"
         \/ Purge /\ Unresolved = {}
<1>1. room \in Rooms /\ room.state \in RoomStates /\ packet.cid \in Nat
      /\ RoomStates = {"none", "pending", "open", "closing", "closed"}
  BY DEF Sure, Typed, TypeOK, FilesOK, LeaseOK, Rooms, RoomStates, Requested
<1>2. CASE UNCHANGED room BY <1>2
<1>3. CASE StoreCreate \/ SaveCid \/ Crash
  <2>1. CASE StoreCreate BY <2>1, RoomMoves DEF StoreCreate, Sure, Proper, CreatingOK
  <2>2. CASE SaveCid BY <1>1, <2>2, RoomMoves DEF SaveCid, Sure, Proper, CreatingOK
  <2>3. CASE Crash BY <2>3, RoomMoves DEF Crash, Sure, Proper, CreatingOK
  <2>. QED BY <1>3, <2>1, <2>2, <2>3
<1>4. CASE DiscardPendingProvisioning BY <1>4, RoomMoves DEF DiscardPendingProvisioning
<1>5. CASE AcceptRequest \/ MarkFailed
  <2>1. CASE AcceptRequest BY <1>1, <2>1, RoomMoves DEF AcceptRequest
  <2>2. CASE MarkFailed BY <1>1, <2>2, RoomMoves DEF MarkFailed
  <2>. QED BY <1>5, <2>1, <2>2
<1>6. ASSUME NEW by, NEW goal, Closing(by, goal)
      PROVE  room'.state = room.state \/ (room'.state = "closing" /\ room.state # "closed")
  BY <1>1, <1>6, RoomMoves DEF Closing
<1>7. CASE RunRequest \/ CloseRoom \/ DeleteRoom
  BY <1>2, <1>6, <1>7 DEF RunRequest, CloseRoom, DeleteRoom, files
<1>8. CASE Purge BY <1>2, <1>8 DEF Purge
<1>9. UNCHANGED files \/ SettleAbsent \/ AppendCloseIntent \/ AppendCloseResult \/ StoreDelete \/ ListRooms
      => UNCHANGED room
  BY DEF files, SettleAbsent, AppendCloseIntent, AppendCloseResult, StoreDelete, ListRooms
<1>. QED BY <1>2, <1>3, <1>4, <1>5, <1>7, <1>8, <1>9, FilesChange

(* The journal is only added to, until it goes with the directory. *)
LEMMA JournalGoes ==
  ASSUME Sure, Next
  PROVE  \/ UNCHANGED journal
         \/ \E e \in Records : journal' = Append(journal, e)
         \/ journal' = <<>> /\ "archive" \notin disk'
<1>1. job \in Jobs /\ FilesOK BY DEF Sure, Typed, TypeOK, FlowOK, Jobs, Steps, Callers, Goals
<1>2. /\ \A i \in DOMAIN journal, t \in BOOLEAN : Result(i, t) \in Records /\ Uncertain(i) \in Records
      /\ \A p \in Peers : Intent(p) \in Records
  BY <1>1, JournalEntries
<1>3. CASE SettleAbsent
  <2>. DEFINE absent == {i \in Unresolved : journal[i].peer \notin job.todo}
  <2>1. absent # {} => First(absent) \in DOMAIN journal
    <3>1. absent \subseteq DOMAIN journal /\ FilesOK BY <1>1 DEF Unresolved, Intents
    <3>. HIDE DEF absent
    <3>2. absent # {} => First(absent) \in absent BY <3>1, Chosen
    <3>. QED BY <3>1, <3>2
  <2>2. journal' = journal \/ (absent # {} /\ journal' = Append(journal, Uncertain(First(absent))))
    BY <1>3 DEF SettleAbsent
  <2>. HIDE DEF absent
  <2>. QED BY <1>2, <2>1, <2>2
<1>4. CASE AppendCloseIntent BY <1>1, <1>2, <1>4 DEF AppendCloseIntent, Jobs
<1>5. CASE AppendCloseResult
  <2>1. job.of \in DOMAIN journal BY <1>5 DEF AppendCloseResult, Sure, Typed, Pointed, Held
  <2>2. job.told \in BOOLEAN BY <1>1 DEF Jobs
  <2>. QED BY <1>2, <1>5, <2>1, <2>2 DEF AppendCloseResult
<1>6. CASE Purge
  <2>1. Unresolved # {} => First(Unresolved) \in DOMAIN journal BY Positions DEF Sure
  <2>. QED BY <1>2, <1>6, <2>1 DEF Purge
<1>7. CASE StoreDelete \/ Crash BY <1>7 DEF StoreDelete, Crash
<1>8. CASE Calm \/ RemoveContact \/ RemoveContactFails
  BY <1>8 DEF Calm, RemoveContact, RemoveContactFails, files
<1>. QED BY <1>3, <1>4, <1>5, <1>6, <1>7, <1>8, CalmSteps DEF Sure

(* A directory is only made for a room that was none. *)
LEMMA ArchiveComes ==
  ASSUME Sure, Next, "archive" \in disk', "archive" \notin disk PROVE room.state = "none"
<1>1. StoreCreate \/ (Crash /\ job.at = "store")
  <2>1. CASE UNCHANGED disk BY <2>1
  <2>2. CASE Crash BY <2>2 DEF Crash, Stages
  <2>3. UNCHANGED disk \/ StoreCreate \/ Crash
        \/ DiscardPendingProvisioning \/ StoreDelete \/ ListRooms
    <3>1. UNCHANGED files => UNCHANGED disk BY DEF files
    <3>2. SaveCid \/ SettleAbsent \/ AppendCloseIntent \/ AppendCloseResult \/ Purge \/ AcceptRequest
          \/ MarkFailed => UNCHANGED disk
      BY DEF SaveCid, SettleAbsent, AppendCloseIntent, AppendCloseResult, Purge, AcceptRequest, MarkFailed
    <3>3. RunRequest \/ CloseRoom \/ DeleteRoom => UNCHANGED disk
      BY DEF RunRequest, CloseRoom, DeleteRoom, Closing, files
    <3>. QED BY <3>1, <3>2, <3>3, FilesChange
  <2>. QED BY <2>1, <2>2, <2>3 DEF DiscardPendingProvisioning, StoreDelete, ListRooms
<1>. QED BY <1>1 DEF StoreCreate, Sure, Proper, CreatingOK

LEMMA WitnessedStep == ASSUME Sure, Written, Routed, Next PROVE Witnessed'
<1>1. removed \in [Peers -> Nat] /\ removed' \in [Peers -> Nat]
  <2>1. CountsOK' BY CountsStep DEF Sure
  <2>. QED BY <2>1 DEF Sure, Typed, TypeOK, CountsOK
<1>2. CASE RemoveContact \/ RemoveContactFails
  <2>1. /\ room.state = "closing" /\ job.at = "remove" /\ UNCHANGED <<disk, room, journal>>
    BY <1>2 DEF RemoveContact, RemoveContactFails, Sure, Proper, ClosingOK, AtWork, files
  <2>2. job.of \in Intents /\ journal[job.of].peer = Peer
    BY <2>1 DEF Written, Awaited, Held, Unresolved, Peer
  <2>3. ASSUME NEW p \in Peers, removed'[p] # removed[p] PROVE p = Peer
    <3>1. CASE RemoveContact BY <1>1, <2>3, <3>1 DEF RemoveContact, RemovedFromSdk
    <3>2. CASE RemoveContactFails
      BY <1>1, <2>3, <3>2 DEF RemoveContactFails, RemovedFromSdk, history
    <3>. QED BY <1>2, <3>1, <3>2
  <2>4. Intents' = Intents BY <2>1 DEF Intents
  <2>5. ASSUME NEW p \in Peers, "archive" \in disk', removed'[p] > 0
        PROVE  \E i \in Intents' : journal'[i].peer = p
    <3>1. CASE removed'[p] # removed[p] BY <2>1, <2>2, <2>3, <2>4, <3>1
    <3>2. CASE removed'[p] = removed[p] BY <2>1, <2>4, <2>5, <3>2 DEF Written, Witnessed
    <3>. QED BY <3>1, <3>2
  <2>. QED BY <2>1, <2>5 DEF Witnessed
<1>3. CASE UNCHANGED history
  <2>1. removed' = removed BY <1>3 DEF history
  <2>2. ASSUME room'.state \in {"none", "pending", "open"} PROVE room.state \in {"none", "pending", "open"}
    <3>1. DiscardPendingProvisioning => room.state = "pending"
      BY DEF DiscardPendingProvisioning, Routed
    <3>2. Purge /\ Unresolved = {} => room'.state = "closed"
      <4>. DEFINE shut == [room EXCEPT !.state = "closed"]
      <4>1. room \in Rooms /\ shut \in Rooms /\ shut.state = "closed"
        BY DEF Sure, Typed, TypeOK, FilesOK, Rooms, RoomStates, Requested
      <4>2. Purge /\ Unresolved = {} => room' = Completed(shut) BY DEF Purge
      <4>. HIDE DEF shut
      <4>. QED BY <4>1, <4>2, RoomMoves
    <3>. QED BY <2>2, <3>1, <3>2, RoomGoes
  <2>3. ASSUME NEW p \in Peers, "archive" \in disk', removed[p] > 0
        PROVE  \E i \in Intents' : journal'[i].peer = p
    <3>1. "archive" \in disk
      <4>1. SUFFICES ASSUME "archive" \notin disk PROVE FALSE OBVIOUS
      <4>2. room.state = "none" BY <2>3, <4>1, ArchiveComes
      <4>. QED BY <1>1, <2>3, <4>2 DEF Written, Witnessed
    <3>2. PICK i \in Intents : journal[i].peer = p BY <2>3, <3>1 DEF Written, Witnessed
    <3>3. CASE UNCHANGED journal BY <3>2, <3>3 DEF Intents
    <3>4. ASSUME NEW e \in Records, journal' = Append(journal, e)
          PROVE  \E k \in Intents' : journal'[k].peer = p
      <4>1. i \in DOMAIN journal' /\ journal'[i] = journal[i]
        BY <3>4, Appended DEF Sure, Intents
      <4>2. i \in Intents' BY <4>1 DEF Intents
      <4>. QED BY <3>2, <4>1, <4>2
    <3>. QED BY <2>3, <3>3, <3>4, JournalGoes
  <2>. QED BY <2>1, <2>2, <2>3 DEF Witnessed, Written
<1>. QED BY <1>2, <1>3, HistoryGrows DEF Sure

(* Steps that lead a job neither into a restore, nor into taking back what a failed one made. *)
Plain == Steps \ {"own", "fresh", "bind", "discard", "sentinel", "purge"}

LEMMA JobGoes ==
  ASSUME Typed, Next
  PROVE  \/ UNCHANGED job /\ (job.at = "none" \/ UNCHANGED room)
         \/ job'.at \in Plain
         \/ NameTaken \/ Mint \/ CreateIdentityFails \/ Discard \/ Reconnect \/ Reassigned
         \/ BindFails \/ RebindIdentity \/ BootRestore \/ CloseUnhosted \/ ForgetOwner
<1>0. /\ {"none", "store", "mint", "create", "save", "register", "refresh", "settle", "notify", "remove",
           "result", "destroy", "release", "forget", "delete"} \subseteq Plain
      /\ Plain \subseteq Steps
  BY DEF Plain, Steps
<1>. USE <1>0
<1>1. job \in Jobs BY DEF Typed, TypeOK, FlowOK, Jobs, Steps, Callers, Goals
<1>2. /\ \A at \in Steps : Proceed(at) => job'.at = at
      /\ Finish => job'.at = "none"
      /\ Abandon => job'.at = "none" \/ job'.at = "release"
  BY JobMoves
<1>3. /\ \A by \in Callers, goal \in Goals, at \in Steps : Start(by, goal, at).at = at
      /\ NoJob.at = "none"
      /\ Callers = {"operator", "request", "boot"}
      /\ Goals = {"none", "create", "recover", "close", "delete", "unhost", "stop"}
  BY Starts
<1>4. CASE StoreCreate \/ CreateIdentity \/ DiscardPendingProvisioning \/ SaveCid
           \/ RegisterRuntimeCommands \/ RestoreMissing \/ Bind \/ RefreshFails \/ ContactsRemoved
           \/ RemoveIdentity \/ RemoveIdentityFails \/ StoreDelete \/ ReleaseLease
           \/ ReleaseLeaseFails \/ RemoveContactFails
  BY <1>2, <1>4
  DEF StoreCreate, CreateIdentity, DiscardPendingProvisioning, SaveCid, RegisterRuntimeCommands,
      RestoreMissing, Bind, RefreshFails, ContactsRemoved, RemoveIdentity, RemoveIdentityFails,
      StoreDelete, ReleaseLease, ReleaseLeaseFails, RemoveContactFails
<1>5. CASE RefreshContacts \/ AppendCloseIntent \/ RemoveContact \/ AppendCloseResult
  BY <1>1, <1>5
  DEF RefreshContacts, AppendCloseIntent, RemoveContact, AppendCloseResult, Jobs
<1>6. CASE SettleAbsent \/ Purge
  <2>1. CASE SettleAbsent BY <1>2, <2>1 DEF SettleAbsent, flow
  <2>2. CASE Purge
    <3>1. (UNCHANGED <<room, flow>>) \/ Proceed("delete") \/ Finish BY <2>2 DEF Purge
    <3>. QED BY <1>2, <3>1 DEF flow
  <2>. QED BY <1>6, <2>1, <2>2
<1>7. CASE EndSession \/ Crash BY <1>3, <1>7 DEF EndSession, Crash, Ended
<1>8. ASSUME NEW by \in Callers, NEW goal \in Goals, Closing(by, goal) PROVE job'.at \in Plain
  <2>1. Start(by, goal, "refresh").at = "refresh" /\ Start(by, goal, "delete").at = "delete"
    BY <1>3
  <2>. QED BY <1>3, <1>8, <2>1 DEF Closing
<1>9. CASE RunRequest
  <2>1. room.request.command \in Goals BY DEF Typed, TypeOK, FilesOK, Goals
  <2>2. CASE Closing("request", room.request.command) BY <1>3, <1>8, <2>1, <2>2
  <2>3. CASE UNCHANGED <<job, room>> BY <2>3
  <2>. QED BY <1>9, <2>2, <2>3 DEF RunRequest, files
<1>10. CASE CloseRoom \/ DeleteRoom BY <1>3, <1>8, <1>10 DEF CloseRoom, DeleteRoom
<1>11. CASE CreateRoom \/ BootClose \/ Stop
  <2>1. CASE CreateRoom BY <1>3, <2>1 DEF CreateRoom
  <2>2. CASE BootClose BY <1>3, <2>2 DEF BootClose, Phase
  <2>3. CASE Stop BY <1>3, <2>3 DEF Stop, Free
  <2>. QED BY <1>11, <2>1, <2>2, <2>3
<1>12. CASE ResumeRequest \/ MarkFailed \/ ListRooms \/ ListThrows \/ BootResume \/ AcceptRequest
            \/ ContactsChange \/ PacketRefresh \/ StrangerBinds \/ StrangerLeaves \/ NameUsed
            \/ NameFreed \/ RemoveOrphan
  BY <1>3, <1>12
  DEF ResumeRequest, MarkFailed, ListRooms, ListThrows, BootResume, AcceptRequest, ContactsChange,
      PacketRefresh, StrangerBinds, StrangerLeaves, NameUsed, NameFreed, RemoveOrphan, files, flow, Free
<1>. QED
  BY <1>4, <1>5, <1>6, <1>7, <1>9, <1>10, <1>11, <1>12
  DEF Next, Worker, Requests, Boot, Operator, World

(* Between the listing of the rooms and their restore nothing but the world moves. *)
LEMMA Restoring ==
  ASSUME Sure, Next, phase' = "restore"
  PROVE  (ListRooms /\ (healthy' => room.state # "closed")) \/ UNCHANGED <<room, phase, healthy>>
<1>1. phase = "restore" => job.at = "none" /\ resuming = "no" BY DEF Sure, Agreed, BootOK
<1>2. CASE Worker
  <2>1. Worker => job.at # "none" \/ phase = "stopping"
    BY DEF Worker, StoreCreate, NameTaken, Mint, CreateIdentity, CreateIdentityFails, Discard,
       DiscardPendingProvisioning, SaveCid, RegisterRuntimeCommands, RestoreMissing, Reconnect,
       Bind, Reassigned, BindFails, RefreshContacts, RefreshFails, CloseUnhosted, SettleAbsent,
       AppendCloseIntent, RemoveContact, RemoveContactFails, AppendCloseResult, ContactsRemoved,
       RemoveIdentity, RemoveIdentityFails, Purge, StoreDelete, ReleaseLease, ReleaseLeaseFails,
       ForgetOwner, EndSession
  <2>2. Worker => UNCHANGED phase \/ phase' = "down"
    BY DEF Worker, StoreCreate, NameTaken, Mint, CreateIdentity, CreateIdentityFails, Discard,
       DiscardPendingProvisioning, SaveCid, RegisterRuntimeCommands, RestoreMissing, Reconnect,
       Bind, Reassigned, BindFails, RefreshContacts, RefreshFails, CloseUnhosted, SettleAbsent,
       AppendCloseIntent, RemoveContact, RemoveContactFails, AppendCloseResult, ContactsRemoved,
       RemoveIdentity, RemoveIdentityFails, Purge, StoreDelete, ReleaseLease, ReleaseLeaseFails,
       ForgetOwner, EndSession, Ended
  <2>. QED BY <1>1, <1>2, <2>1, <2>2
<1>3. CASE Requests
  BY <1>1, <1>3 DEF Requests, ResumeRequest, RunRequest, MarkFailed, Closing
<1>4. CASE Boot
  BY <1>4 DEF Boot, ListRooms, ListThrows, BootRestore, BootResume, BootClose, Phase
<1>5. CASE Operator
  BY <1>5 DEF Operator, CreateRoom, RebindIdentity, CloseRoom, DeleteRoom, Stop, Closing
<1>6. CASE World
  BY <1>6
  DEF World, AcceptRequest, ContactsChange, PacketRefresh, StrangerBinds, StrangerLeaves, NameUsed,
      NameFreed, RemoveOrphan, Crash, Ended, files, flow
<1>. QED BY <1>2, <1>3, <1>4, <1>5, <1>6 DEF Next

LEMMA RoutedStep == ASSUME Sure, Routed, Next PROVE Routed'
<1>. DEFINE Led == /\ job.at \in {"own", "fresh", "bind"} => room.state # "closed" /\ job.goal = "recover"
                   /\ job.at = "discard" /\ job.goal = "create" => room.state = "pending"
                   /\ job.at = "sentinel" => room.state = "pending"
<1>1. (phase = "restore" /\ healthy => room.state # "closed")'
  <2>1. ListRooms => UNCHANGED room BY DEF ListRooms
  <2>. QED BY <2>1, Restoring DEF Routed
<1>. SUFFICES Led' BY <1>1 DEF Routed
<1>2. job \in Jobs BY DEF Sure, Typed, TypeOK, FlowOK, Jobs, Steps, Callers, Goals
<1>3. ASSUME NEW at \in Steps, Proceed(at) PROVE job'.at = at /\ job'.goal = job.goal
  BY <1>2, <1>3 DEF Proceed, Jobs
<1>4. /\ {"discard", "sentinel", "fresh", "purge", "mint", "own"} \subseteq Steps
      /\ (Abandon => job'.at = "none" \/ job'.at = "release") /\ (Finish => job'.at = "none")
  BY JobMoves DEF Steps, Sure
<1>5. \A by \in Callers, goal \in Goals, at \in Steps :
        Start(by, goal, at).at = at /\ Start(by, goal, at).goal = goal
  BY Starts
<1>6. CASE UNCHANGED job /\ (job.at = "none" \/ UNCHANGED room) BY <1>6 DEF Routed
<1>7. CASE job'.at \in Plain BY <1>7 DEF Plain
<1>8. CASE NameTaken
  <2>1. room' = room /\ job.at = "mint" BY <1>8 DEF NameTaken, files
  <2>2. job'.at \in {"sentinel", "none", "release"} BY <1>3, <1>4, <1>8 DEF NameTaken
  <2>. QED BY <2>1, <2>2 DEF Sure, Proper, CreatingOK
<1>9. CASE Mint
  <2>1. job'.goal = job.goal /\ job'.at = IF job.at = "mint" THEN "create" ELSE "bind"
    BY <1>2, <1>9 DEF Mint, Jobs
  <2>2. room' = room /\ job.at \in {"mint", "own", "fresh"} BY <1>9 DEF Mint, files
  <2>. QED BY <2>1, <2>2 DEF Routed
<1>10. CASE CreateIdentityFails
  <2>1. job'.at = "discard" BY <1>2, <1>10 DEF CreateIdentityFails, Jobs
  <2>2. room' = room /\ job.at = "create" BY <1>10 DEF CreateIdentityFails, files
  <2>. QED BY <2>1, <2>2 DEF Sure, Proper, CreatingOK
<1>11. CASE Discard
  <2>1. room' = room /\ job.at = "discard" BY <1>11 DEF Discard, files
  <2>2. job'.at \in {"none", "release"} \/ (job'.at = "sentinel" /\ job.goal = "create")
    BY <1>3, <1>4, <1>11 DEF Discard
  <2>. QED BY <2>1, <2>2 DEF Routed
<1>12. CASE Reconnect
  <2>1. job'.at = "bind" /\ job'.goal = job.goal BY <1>2, <1>12 DEF Reconnect, Jobs
  <2>2. room' = room /\ job.at = "own" BY <1>12 DEF Reconnect, files
  <2>. QED BY <2>1, <2>2 DEF Routed
<1>13. CASE Reassigned
  <2>1. job'.at = "fresh" /\ job'.goal = job.goal BY <1>3, <1>4, <1>13 DEF Reassigned
  <2>2. room' = room /\ job.at = "bind" BY <1>13 DEF Reassigned, files
  <2>. QED BY <2>1, <2>2 DEF Routed
<1>14. CASE BindFails
  <2>1. job'.at \in {"none", "release"} \/ (job'.at = "discard" /\ job'.goal = job.goal)
    BY <1>3, <1>4, <1>14 DEF BindFails
  <2>2. room' = room /\ job.at = "bind" BY <1>14 DEF BindFails, files
  <2>. QED BY <2>1, <2>2 DEF Routed
<1>15. CASE RebindIdentity \/ BootRestore
  <2>1. "operator" \in Callers /\ "boot" \in Callers /\ "recover" \in Goals BY DEF Callers, Goals
  <2>2. ASSUME NEW by \in Callers, Recovering(by)
        PROVE  job'.at \in {"mint", "own"} /\ job'.goal = "recover"
    BY <1>4, <1>5, <2>1, <2>2 DEF Recovering
  <2>3. CASE RebindIdentity BY <2>1, <2>2, <2>3 DEF RebindIdentity, files
  <2>4. CASE BootRestore
    <3>1. healthy => room.state # "closed" BY <2>4 DEF BootRestore, Phase, Routed
    <3>2. CASE healthy BY <2>1, <2>2, <2>4, <3>1, <3>2 DEF BootRestore, files
    <3>3. CASE ~healthy
      <4>1. job' = job /\ job.at = "none" BY <2>4, <3>3, Starts DEF BootRestore, Phase, Free
      <4>. QED BY <4>1
    <3>. QED BY <3>2, <3>3
  <2>. QED BY <1>15, <2>3, <2>4
<1>16. CASE CloseUnhosted \/ ForgetOwner
  <2>1. job'.at \in {"purge", "none"} BY <1>3, <1>4, <1>16 DEF CloseUnhosted, ForgetOwner
  <2>. QED BY <2>1
<1>. HIDE DEF Led
<1>. QED
  BY <1>6, <1>7, <1>8, <1>9, <1>10, <1>11, <1>12, <1>13, <1>14, <1>15, <1>16, JobGoes DEF Sure

LEMMA ConcludedStep == ASSUME Sure, Written, Routed, Concluded, Next PROVE Concluded'
<1>1. job \in Jobs BY DEF Sure, Typed, TypeOK, FlowOK, Jobs, Steps, Callers, Goals
<1>2. ASSUME packet = NoPacket, packet' # NoPacket PROVE CreateIdentity \/ Bind
  <2>1. RemoveContact => Hosted BY DEF RemoveContact, Sure, Proper, ClosingOK, AtWork
  <2>2. RefreshContacts \/ PacketRefresh => Hosted BY DEF RefreshContacts, PacketRefresh
  <2>3. CASE UNCHANGED <<lease, packet>> BY <1>2, <2>3
  <2>4. Mint \/ CreateIdentityFails \/ Discard \/ Reconnect \/ Reassigned \/ BindFails \/ RefreshFails
        \/ RemoveContactFails \/ RemoveIdentity \/ RemoveIdentityFails \/ ReleaseLease
        \/ ContactsChange \/ StrangerBinds \/ StrangerLeaves \/ NameUsed \/ NameFreed \/ RemoveOrphan
        => UNCHANGED packet
    BY DEF Mint, CreateIdentityFails, Discard, Reconnect, Reassigned, BindFails, RefreshFails,
       RemoveContactFails, RemoveIdentity, RemoveIdentityFails, ReleaseLease, ContactsChange,
       StrangerBinds, StrangerLeaves, NameUsed, NameFreed, RemoveOrphan
  <2>5. EndSession \/ Crash \/ ForgetOwner \/ ReleaseLeaseFails => packet' = NoPacket \/ UNCHANGED packet
    BY DEF EndSession, Crash, Ended, ForgetOwner, ReleaseLeaseFails
  <2>. QED BY <1>2, <2>1, <2>2, <2>3, <2>4, <2>5, LeaseChange DEF Hosted
<1>3. CreateIdentity => room' = room /\ room.state = "pending" /\ job'.at = "save"
  <2>1. "save" \in Steps BY DEF Steps
  <2>. QED BY <2>1, JobMoves DEF CreateIdentity, files, Sure, Proper, CreatingOK
<1>4. Bind => room' = room /\ room.state # "closed" /\ job'.at = "register"
  <2>1. "register" \in Steps BY DEF Steps
  <2>. QED BY <2>1, JobMoves DEF Bind, files, Sure, Routed
<1>5. ASSUME job'.at = "purge" PROVE packet' = NoPacket
  <2>1. job.at = "purge" \/ packet' = NoPacket
    <3>1. CASE UNCHANGED job BY <1>5, <3>1
    <3>2. job'.at \notin Plain BY <1>5 DEF Plain
    <3>3. CASE CloseUnhosted \/ ForgetOwner BY <3>3 DEF CloseUnhosted, ForgetOwner, Hosted
    <3>4. CASE NameTaken \/ Mint \/ CreateIdentityFails \/ Discard \/ Reconnect \/ Reassigned \/ BindFails
               \/ RebindIdentity \/ BootRestore
      <4>1. /\ {"sentinel", "fresh", "discard", "mint", "own"} \subseteq Steps
            /\ "operator" \in Callers /\ "boot" \in Callers /\ "recover" \in Goals
        BY DEF Steps, Callers, Goals
      <4>2. NameTaken \/ Discard \/ Reassigned \/ BindFails => job'.at # "purge"
        BY <4>1, JobMoves DEF NameTaken, Discard, Reassigned, BindFails, Sure
      <4>3. Mint \/ CreateIdentityFails \/ Reconnect => job'.at # "purge"
        BY <1>1 DEF Mint, CreateIdentityFails, Reconnect, Jobs
      <4>4. RebindIdentity \/ BootRestore => job'.at # "purge"
        BY <4>1, Starts DEF RebindIdentity, BootRestore, Phase, Recovering, Free
      <4>. QED BY <1>5, <3>4, <4>2, <4>3, <4>4
    <3>. QED BY <3>1, <3>2, <3>3, <3>4, JobGoes DEF Sure
  <2>2. CASE job.at = "purge"
    <3>1. packet = NoPacket BY <2>2 DEF Concluded
    <3>. QED BY <1>2, <1>3, <1>4, <1>5, <3>1
  <2>. QED BY <2>1, <2>2
<1>6. ASSUME room'.state = "closed" PROVE packet' = NoPacket /\ Unresolved' = {}
  <2>1. CASE room.state = "closed"
    <3>1. packet = NoPacket /\ Unresolved = {} BY <2>1 DEF Concluded
    <3>2. packet' = NoPacket BY <1>2, <1>3, <1>4, <2>1, <3>1
    <3>3. UNCHANGED journal \/ journal' = <<>>
      <4>1. ~SettleAbsent /\ ~AppendCloseIntent /\ ~AppendCloseResult
        BY <2>1 DEF SettleAbsent, AppendCloseIntent, AppendCloseResult, Sure, Proper, ClosingOK, AtWork
      <4>2. Purge => UNCHANGED journal BY <3>1 DEF Purge
      <4>3. Calm \/ RemoveContact \/ RemoveContactFails => UNCHANGED journal
        BY DEF Calm, RemoveContact, RemoveContactFails, files
      <4>4. StoreDelete \/ Crash => UNCHANGED journal \/ journal' = <<>> BY DEF StoreDelete, Crash
      <4>. QED BY <4>1, <4>2, <4>3, <4>4, CalmSteps DEF Sure
    <3>4. Unresolved' = {} BY <3>1, <3>3 DEF Unresolved, Intents
    <3>. QED BY <3>2, <3>4
  <2>2. CASE room.state # "closed"
    <3>1. Purge /\ Unresolved = {} BY <1>6, <2>2, RoomGoes
    <3>2. packet' = packet /\ journal' = journal /\ job.at = "purge" BY <3>1 DEF Purge
    <3>. QED BY <3>1, <3>2 DEF Concluded, Unresolved, Intents
  <2>. QED BY <2>1, <2>2
<1>. QED BY <1>5, <1>6 DEF Concluded

Accounted == Sure /\ Written /\ Routed /\ Concluded

LEMMA AccountedInit == ASSUME Init PROVE Accounted
<1>1. Sure BY SureInit
<1>2. NoJob.at = "none" /\ NoRoom.state = "none" BY DEF NoJob, NoRoom
<1>3. OneResult /\ Unresolved = {} /\ \A p : Noticed(p) = {} /\ Proven(p) = {}
  BY DEF Init, OneResult, Unresolved, Intents, Noticed, Proven, Of
<1>4. Cardinality({}) = 0 BY FS_EmptySet
<1>5. \A p : Spare(p) = 0 BY <1>2 DEF Init, Spare
<1>6. \A p \in Peers : notices[p] = 0 /\ removed[p] = 0 BY DEF Init
<1>7. Counted BY <1>3, <1>4, <1>5, <1>6 DEF Counted
<1>8. Awaited BY <1>2 DEF Init, Awaited, Held
<1>9. Witnessed BY <1>6 DEF Init, Witnessed
<1>10. Routed /\ Concluded BY <1>2 DEF Init, Routed, Concluded
<1>. QED BY <1>1, <1>3, <1>7, <1>8, <1>9, <1>10 DEF Accounted, Written

LEMMA AccountedStays == ASSUME Accounted, [Next]_vars PROVE Accounted'
<1>. USE DEF Accounted
<1>1. Sure' BY SureStays
<1>2. CASE Next
  BY <1>1, <1>2, CountedStep, WitnessedStep, RoutedStep, ConcludedStep DEF Written
<1>3. CASE UNCHANGED vars
  <2>1. UNCHANGED <<disk, room, journal, packet, phase, job, healthy, notices, removed>>
    BY <1>3 DEF vars, files, flow, history
  <2>2. /\ Unresolved' = Unresolved /\ Intents' = Intents
        /\ \A p : Noticed(p)' = Noticed(p) /\ Proven(p)' = Proven(p) /\ Spare(p)' = Spare(p)
    BY <2>1 DEF Unresolved, Intents, Noticed, Proven, Of, Spare, Peer
  <2>3. OneResult' /\ Awaited' BY <2>1, <2>2 DEF Written, OneResult, Awaited
  <2>4. Counted' BY <2>1, <2>2 DEF Written, Counted
  <2>5. Witnessed' BY <2>1, <2>2 DEF Written, Witnessed
  <2>6. Routed' /\ Concluded' BY <2>1, <2>2 DEF Routed, Concluded
  <2>. QED BY <1>1, <2>3, <2>4, <2>5, <2>6 DEF Written
<1>. QED BY <1>2, <1>3

(* Whatever a close was interrupted by, its journal says what happened. *)
THEOREM CloseAlwaysAccounted == Spec => []CloseIsAccounted
<1>1. ASSUME Accounted PROVE CloseIsAccounted
  <2>. USE <1>1 DEF Accounted, Sure, Written
  <2>1. ASSUME NEW i \in Intents PROVE Cardinality(Results(i)) <= 1
    <3>1. i # 0 BY Positions
    <3>2. \A k, l \in Results(i) : k = l BY <3>1 DEF Results, OneResult
    <3>3. CASE Results(i) = {} BY <3>3, FS_EmptySet
    <3>4. CASE Results(i) # {}
      <4>1. PICK k \in Results(i) : Results(i) = {k} BY <3>2, <3>4
      <4>2. Cardinality({k}) = 1 BY FS_Singleton
      <4>. QED BY <4>1, <4>2
    <3>. QED BY <3>3, <3>4
  <2>2. ASSUME NEW p \in Peers
        PROVE  /\ Cardinality(Noticed(p)) <= notices[p] /\ Cardinality(Proven(p)) <= removed[p]
    <3>1. /\ Cardinality(Noticed(p)) \in Nat /\ Cardinality(Proven(p)) \in Nat
          /\ Spare(p) \in {0, 1} /\ notices[p] \in Nat /\ removed[p] \in Nat
      BY Countable DEF Typed, TypeOK, CountsOK
    <3>. QED BY <3>1 DEF Counted
  <2>3. "archive" \in disk =>
          \A p \in Peers : removed[p] > 0 => \E i \in Intents : journal[i].peer = p
    BY DEF Witnessed
  <2>4. room.state = "closed" => ~Hosted /\ Unresolved = {} BY DEF Concluded, Hosted
  <2>. QED BY <2>1, <2>2, <2>3, <2>4 DEF CloseIsAccounted, Noticed, Proven
<1>. QED BY <1>1, AccountedInit, AccountedStays, PTL DEF Spec
=============================================================================

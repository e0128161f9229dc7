---------------------------- MODULE RoomLifecycle ----------------------------
(***************************************************************************)
(* One room from createRoom to deleteRoom (src/service.ts, storage.ts):    *)
(* its directory, its SDK identity and the lease on it, the ledger of the  *)
(* lease's owner (room-owners.ts), and the boot that resumes what a crash  *)
(* left.  The three stores, disk, SDK and ledger, share no transaction.    *)
(* The room mutex is held by job; its field at says which SDK call or      *)
(* write the holder has come to.  The file operations of one store call    *)
(* are synchronous: only a crash, in Crash, comes between them.            *)
(***************************************************************************)
EXTENDS Naturals, Sequences, FiniteSets

CONSTANTS
  Peers,       \* identities that can be the room's contacts
  Owners,      \* owner IDs; one that nothing names any more stands for a fresh one
  MaxFaults,   \* SDK requests that fail or whose answer is lost
  MaxCrashes,  \* ends of the worker without cleanup
  MaxMoves     \* contacts, leases and names that change without the room

ASSUME LifecycleConstants ==
  /\ IsFiniteSet(Peers) /\ Owners \subseteq Nat \ {0, 1}
  /\ {MaxFaults, MaxCrashes, MaxMoves} \subseteq Nat

Stranger == 1   \* the owner of a lease that is not one of the room's
Entries == {"dir", "blobs", "archive", "metadata"}
NoRequest == [command |-> "none", state |-> "none"]
NoRoom == [state |-> "none", cid |-> 0, request |-> NoRequest]
Sentinel == [NoRoom EXCEPT !.state = "pending"]
NoIdentity == [cid |-> 0, mine |-> FALSE, contacts |-> {}, holder |-> 0]
NoPacket == [cid |-> 0, owner |-> 0, contacts |-> {}]
NoJob == [at |-> "none", by |-> "operator", goal |-> "none", owner |-> 0, fresh |-> FALSE,
          todo |-> {}, of |-> 0, told |-> FALSE]

VARIABLES
  disk,        \* what the room's directory holds
  room,        \* room.json; the last one once it is deleted
  journal,     \* the archive's close_notice_intent and close_notice_result records
  record,      \* the ledger's owner for this room, 0 for none
  sdk,         \* SDK: the identity of the room's name, its contacts and its lease
  retired,     \* SDK: owners it will never bind again
  registered,  \* the supervisor: owners the worker attached
  packet,      \* the registry's packet of this room
  phase,       \* the worker: down, refused, in a phase of boot, up or stopping
  healthy,     \* boot: the room went through every phase so far
  job,         \* the operation that holds the mutex
  resuming,    \* resumeLifecycleRequest: not running, has read its request, or must mark it
  notices, removed, \* history: removals the SDK made for the room, and those it announced
  cids,        \* how many CIDs were given out
  left         \* what is left of the bounds

files == <<disk, room, journal>>
lease == <<record, sdk, retired, registered>>
flow == <<job, resuming, healthy>>
history == <<notices, removed>>
vars == <<files, lease, packet, phase, flow, history, cids, left>>

FilesOK ==
  /\ disk \subseteq Entries
  /\ room \in [state : {"none", "pending", "open", "closing", "closed"}, cid : Nat,
               request : [command : {"none", "close", "delete"},
                          state : {"none", "pending", "failed", "completed"}]]
  /\ journal \in Seq([peer : Peers, of : Nat, told : BOOLEAN, sure : BOOLEAN])
LeaseOK ==
  /\ sdk \in [cid : Nat, mine : BOOLEAN, contacts : SUBSET Peers, holder : Nat]
  /\ packet \in [cid : Nat, owner : Nat, contacts : SUBSET Peers]
  /\ record \in Nat /\ retired \subseteq Nat /\ registered \subseteq Nat
FlowOK ==
  /\ phase \in {"down", "refused", "restore", "resume", "close", "up", "stopping"}
  /\ healthy \in BOOLEAN /\ resuming \in {"no", "run", "mark"}
  /\ job \in [at : {"none", "store", "mint", "create", "save", "register", "own", "fresh", "bind",
                   "discard", "sentinel", "refresh", "settle", "notify", "remove", "result",
                   "destroy", "release", "forget", "purge", "delete"},
              by : {"operator", "request", "boot"},
              goal : {"none", "create", "recover", "close", "delete", "unhost", "stop"},
              owner : Nat, fresh : BOOLEAN, todo : SUBSET Peers, of : Nat, told : BOOLEAN]
CountsOK ==
  /\ notices \in [Peers -> Nat] /\ removed \in [Peers -> Nat]
  /\ cids \in Nat /\ left \in [faults : Nat, crashes : Nat, moves : Nat]
TypeOK == FilesOK /\ LeaseOK /\ FlowOK /\ CountsOK

Init ==
  /\ disk = {} /\ room = NoRoom /\ journal = <<>>
  /\ record = 0 /\ sdk = NoIdentity /\ retired = {} /\ registered = {}
  /\ packet = NoPacket /\ phase = "down"
  /\ job = NoJob /\ resuming = "no" /\ healthy = FALSE
  /\ notices = [p \in Peers |-> 0] /\ removed = notices
  /\ cids = 0
  /\ left = [faults |-> MaxFaults, crashes |-> MaxCrashes, moves |-> MaxMoves]

-----------------------------------------------------------------------------
(* The mutex and the bounds *)

Exists == "metadata" \in disk
Free == job = NoJob
Start(by, goal, at) == [NoJob EXCEPT !.by = by, !.goal = goal, !.at = at]
Proceed(at) == job' = [job EXCEPT !.at = at] /\ UNCHANGED <<resuming, healthy>>

\* The operation returns.
Finish ==
  /\ job' = NoJob
  /\ resuming' = IF job.by = "request" THEN "no" ELSE resuming
  /\ UNCHANGED healthy

\* The operation throws: a request is then marked failed, a room that boots is unhosted.
Abandon ==
  /\ job' = IF job.by = "boot" /\ packet # NoPacket
            THEN Start("boot", "unhost", "release") ELSE NoJob
  /\ resuming' = IF job.by = "request" THEN "mark" ELSE resuming
  /\ healthy' = (healthy /\ job.by # "boot")

Faulty == left.faults > 0 /\ left' = [left EXCEPT !.faults = @ - 1]
Moves == left.moves > 0 /\ left' = [left EXCEPT !.moves = @ - 1]

-----------------------------------------------------------------------------
(* The SDK *)

Bindable(owner) == sdk.cid # 0 /\ owner \notin retired /\ sdk.holder \in {0, owner}
Bound(owner) == [sdk EXCEPT !.holder = owner]
Freed(owners) == IF sdk.holder \in owners THEN [sdk EXCEPT !.holder = 0] ELSE sdk

\* releaseLease, when the SDK does it: the owner is never accepted again.
Released(owner) == retired' = retired \cup {owner} /\ sdk' = Freed({owner})
Forgotten(owner) == record' = IF record = owner THEN 0 ELSE record

-----------------------------------------------------------------------------
(* Creating the room and its identity *)

CreateRoom ==
  /\ phase = "up" /\ Free /\ disk = {} /\ room = NoRoom
  /\ packet = NoPacket /\ sdk.cid = 0             \* preflightCreate
  /\ job' = Start("operator", "create", "store")
  /\ UNCHANGED <<files, lease, packet, phase, resuming, healthy, history, cids, left>>

StoreCreate ==
  /\ job.at = "store"
  /\ disk' = Entries /\ room' = Sentinel /\ Proceed("mint")
  /\ UNCHANGED <<journal, lease, packet, phase, history, cids, left>>

\* create's preflight finds the name taken; createRoom takes back its sentinel.
NameTaken ==
  /\ job.at = "mint" /\ sdk.cid # 0
  /\ IF job.goal = "create" THEN Proceed("sentinel") ELSE Abandon
  /\ UNCHANGED <<files, lease, packet, phase, history, cids, left>>

Unused == Owners \ {record, sdk.holder, packet.owner, job.owner}
NewOwner == CHOOSE o \in Unused : TRUE

\* RoomOwnerLedger.mint and createClient, for create and for a restore without a record.
Mint ==
  /\ \/ job.at = "mint" /\ sdk.cid = 0
     \/ job.at = "own" /\ sdk.cid # 0 /\ record = 0
     \/ job.at = "fresh"
  /\ Unused # {}
  /\ record' = NewOwner /\ registered' = registered \cup {NewOwner}
  /\ retired' = retired \ {NewOwner}
  /\ job' = [job EXCEPT !.at = IF job.at = "mint" THEN "create" ELSE "bind",
                        !.owner = NewOwner, !.fresh = TRUE]
  /\ UNCHANGED <<files, sdk, packet, phase, resuming, healthy, history, cids, left>>

NewIdentity == [NoIdentity EXCEPT !.cid = cids + 1, !.mine = TRUE, !.holder = job.owner]

CreateIdentity ==
  /\ job.at = "create" /\ sdk.cid = 0
  /\ sdk' = NewIdentity /\ cids' = cids + 1
  /\ packet' = [NoPacket EXCEPT !.cid = cids + 1, !.owner = job.owner]
  /\ Proceed("save")
  /\ UNCHANGED <<files, record, retired, registered, phase, history, left>>

\* The name was taken since (told), or the request failed, perhaps after its effect.
CreateIdentityFails ==
  /\ job.at = "create"
  /\ job' = [job EXCEPT !.at = "discard", !.told = sdk.cid # 0]
  /\ \/ sdk.cid # 0 /\ UNCHANGED <<sdk, cids, left>>
     \/ sdk.cid = 0 /\ Faulty /\ UNCHANGED <<sdk, cids>>
     \/ sdk.cid = 0 /\ Faulty /\ sdk' = NewIdentity /\ cids' = cids + 1
  /\ UNCHANGED <<files, record, retired, registered, packet, phase, resuming, healthy, history>>

\* Mutated: the record is forgotten whether or not the release is acknowledged.
DiscardForgets ==
  /\ job.at = "discard"
  /\ IF job.goal = "create" /\ job.told THEN Proceed("sentinel") ELSE Abandon
  /\ Forgotten(job.owner)
  /\ (Released(job.owner) /\ UNCHANGED left) \/ (Faulty /\ UNCHANGED <<sdk, retired>>)
  /\ UNCHANGED <<files, registered, packet, phase, history, cids>>

\* PacketRegistry.discard: the fresh owner is forgotten only where its release is acknowledged.
Discard ==
  /\ job.at = "discard"
  /\ IF job.goal = "create" /\ job.told THEN Proceed("sentinel") ELSE Abandon
  /\ \/ Released(job.owner) /\ Forgotten(job.owner) /\ UNCHANGED left
     \/ Faulty /\ Released(job.owner) /\ UNCHANGED record
     \/ Faulty /\ UNCHANGED <<record, sdk, retired>>
  /\ UNCHANGED <<files, registered, packet, phase, history, cids>>

DiscardPendingProvisioning ==
  /\ job.at = "sentinel"
  /\ disk' = {} /\ room' = NoRoom /\ Abandon
  /\ UNCHANGED <<journal, lease, packet, phase, history, cids, left>>

SaveCid ==
  /\ job.at = "save"
  /\ room' = [room EXCEPT !.state = "open", !.cid = packet.cid]
  /\ Proceed("register")
  /\ UNCHANGED <<disk, journal, lease, packet, phase, history, cids, left>>

RegisterRuntimeCommands ==
  /\ job.at = "register"
  /\ (Finish /\ UNCHANGED left) \/ (Abandon /\ Faulty)
  /\ UNCHANGED <<files, lease, packet, phase, history, cids>>

-----------------------------------------------------------------------------
(* Recovering the packet: recoverPacketUnlocked *)

\* A sentinel is created, an established CID restored.
Recovering(by) == job' = Start(by, "recover", IF room.state = "pending" THEN "mint" ELSE "own")

RebindIdentity ==
  /\ phase = "up" /\ Free /\ Exists /\ room.state \in {"pending", "open"} /\ packet = NoPacket
  /\ Recovering("operator")
  /\ UNCHANGED <<files, lease, packet, phase, resuming, healthy, history, cids, left>>

RestoreMissing ==
  /\ job.at = "own" /\ sdk.cid = 0 /\ Abandon
  /\ UNCHANGED <<files, lease, packet, phase, history, cids, left>>

\* restore first presents the recorded owner.
Reconnect ==
  /\ job.at = "own" /\ sdk.cid # 0 /\ record # 0
  /\ registered' = registered \cup {record}
  /\ job' = [job EXCEPT !.at = "bind", !.owner = record]
  /\ UNCHANGED <<files, record, sdk, retired, packet, phase, resuming, healthy, history, cids, left>>

Bind ==
  /\ job.at = "bind" /\ Bindable(job.owner) /\ sdk.cid = room.cid
  /\ sdk' = Bound(job.owner)
  /\ packet' = [cid |-> sdk.cid, owner |-> job.owner, contacts |-> sdk.contacts]
  /\ Proceed("register")
  /\ UNCHANGED <<files, record, retired, registered, phase, history, cids, left>>

\* BINDING_REASSIGNED for the recorded owner is the one proof that it is retired.
Reassigned ==
  /\ job.at = "bind" /\ ~job.fresh /\ job.owner \in retired
  /\ Forgotten(job.owner) /\ Proceed("fresh")
  /\ UNCHANGED <<files, sdk, retired, registered, packet, phase, history, cids, left>>

\* A failed reconnect closes its client and keeps lease and record; a fresh owner is discarded.
BindFails ==
  /\ job.at = "bind" /\ (job.fresh \/ job.owner \notin retired)
  /\ \/ ~Bindable(job.owner) /\ UNCHANGED <<sdk, left>>
     \/ Bindable(job.owner) /\ sdk.cid # room.cid /\ sdk' = Bound(job.owner) /\ UNCHANGED left
     \/ Faulty /\ UNCHANGED sdk
     \/ Faulty /\ Bindable(job.owner) /\ sdk' = Bound(job.owner)
  /\ IF job.fresh THEN Proceed("discard") ELSE Abandon
  /\ UNCHANGED <<files, record, retired, registered, packet, phase, history, cids>>

-----------------------------------------------------------------------------
(* Closing: closeRoom, closeUnlocked *)

Intent(p) == [peer |-> p, of |-> 0, told |-> FALSE, sure |-> FALSE]
Result(i, told) == [peer |-> journal[i].peer, of |-> i, told |-> told, sure |-> TRUE]
\* Mutated: a contact that is gone is taken for removed with its notice.
UncertainAssumed(i) == Result(i, TRUE)
Uncertain(i) == [Result(i, FALSE) EXCEPT !.sure = FALSE]
Intents == {i \in DOMAIN journal : journal[i].of = 0}
Unresolved == {i \in Intents : \A k \in DOMAIN journal : journal[k].of # i}
First(ids) == CHOOSE i \in ids : \A k \in ids : i <= k
Last(ids) == CHOOSE i \in ids : \A k \in ids : k <= i

\* Mutated: the request is given the room's state.
CompletedAsRoom(r) ==
  IF r.request.command = "close" THEN [r EXCEPT !.request.state = r.state] ELSE r

Completed(r) ==
  IF r.request.command = "close" THEN [r EXCEPT !.request.state = "completed"] ELSE r

\* closeRoom and deleteRoom under the mutex: closed is saved again, an unproven CID refused.
Closing(by, goal) ==
  /\ Exists /\ room.state \in {"open", "closing", "closed"}
  /\ room' = IF room.state # "closed" THEN [room EXCEPT !.state = "closing"]
             ELSE IF goal = "close" THEN Completed(room) ELSE room
  /\ job' = IF room.state # "closed" THEN Start(by, goal, "refresh")
            ELSE IF goal = "delete" THEN Start(by, goal, "delete") ELSE NoJob
  /\ resuming' = IF by = "request" /\ job' = NoJob THEN "no" ELSE resuming
  /\ UNCHANGED <<disk, journal, lease, packet, phase, healthy, history, cids, left>>

CloseRoom == phase = "up" /\ Free /\ Closing("operator", "close")
DeleteRoom == phase = "up" /\ Free /\ Closing("operator", "delete")

Hosted == packet # NoPacket
\* Mutated: the identity is looked up by name alone.
ReachedByName == Bindable(packet.owner)
Reached == Bindable(packet.owner) /\ sdk.cid = packet.cid

\* refreshContacts, binding again where the lease was lost.
RefreshContacts ==
  /\ job.at = "refresh" /\ Hosted /\ Reached
  /\ sdk' = Bound(packet.owner)
  /\ packet' = [packet EXCEPT !.contacts = sdk.contacts]
  /\ job' = [job EXCEPT !.at = "settle", !.todo = sdk.contacts]
  /\ UNCHANGED <<files, record, retired, registered, phase, resuming, healthy, history, cids, left>>

\* A rebind that meets another identity of the name is left bound to it.
RefreshFails ==
  /\ job.at = "refresh" /\ Hosted
  /\ \/ ~Bindable(packet.owner) /\ UNCHANGED <<sdk, left>>
     \/ Bindable(packet.owner) /\ ~Reached /\ sdk' = Bound(packet.owner) /\ UNCHANGED left
     \/ Faulty /\ UNCHANGED sdk
  /\ Abandon
  /\ UNCHANGED <<files, record, retired, registered, packet, phase, history, cids>>

\* Mutated: only a hosted room can be closed.
CloseUnhostedRefused ==
  /\ job.at = "refresh" /\ ~Hosted /\ Abandon
  /\ UNCHANGED <<files, lease, packet, phase, history, cids, left>>

\* Without a packet there is nothing to remove, and registry.destroy reports no residue.
CloseUnhosted ==
  /\ job.at = "refresh" /\ ~Hosted /\ Proceed("purge")
  /\ UNCHANGED <<files, lease, packet, phase, history, cids, left>>

\* An unresolved intent whose contact is gone gets an uncertain result, in the order of the journal.
SettleAbsent ==
  /\ job.at = "settle"
  /\ LET absent == {i \in Unresolved : journal[i].peer \notin job.todo}
     IN IF absent = {} THEN Proceed("notify") /\ UNCHANGED journal
        ELSE journal' = Append(journal, Uncertain(First(absent))) /\ UNCHANGED flow
  /\ UNCHANGED <<disk, room, lease, packet, phase, history, cids, left>>

\* The intent of the next contact: its last unresolved one, or a new record.
AppendCloseIntent ==
  /\ job.at = "notify"
  /\ \E p \in job.todo :
       LET open == {i \in Unresolved : journal[i].peer = p}
       IN /\ journal' = IF open = {} THEN Append(journal, Intent(p)) ELSE journal
          /\ job' = [job EXCEPT !.at = "remove",
                                !.of = IF open = {} THEN Len(journal) + 1 ELSE Last(open)]
  /\ UNCHANGED <<disk, room, lease, packet, phase, resuming, healthy, history, cids, left>>

Peer == journal[job.of].peer
RemovedFromSdk(told) ==
  /\ sdk' = [sdk EXCEPT !.contacts = @ \ {Peer}]
  /\ removed' = [removed EXCEPT ![Peer] = @ + 1]
  /\ notices' = [notices EXCEPT ![Peer] = IF told THEN @ + 1 ELSE @]

RemoveContact ==
  /\ job.at = "remove" /\ Peer \in sdk.contacts
  /\ \E told \in BOOLEAN :
       RemovedFromSdk(told) /\ job' = [job EXCEPT !.at = "result", !.told = told]
  /\ packet' = [packet EXCEPT !.contacts = @ \ {Peer}]
  /\ UNCHANGED <<files, record, retired, registered, phase, resuming, healthy, cids, left>>

\* The contact is already gone, or the answer is lost: the intent is left without a result.
RemoveContactFails ==
  /\ job.at = "remove"
  /\ \/ Peer \notin sdk.contacts /\ UNCHANGED <<sdk, history, left>>
     \/ Faulty /\ UNCHANGED <<sdk, history>>
     \/ Faulty /\ Peer \in sdk.contacts /\ \E told \in BOOLEAN : RemovedFromSdk(told)
  /\ Abandon
  /\ UNCHANGED <<files, record, retired, registered, packet, phase, cids>>

AppendCloseResult ==
  /\ job.at = "result"
  /\ journal' = Append(journal, Result(job.of, job.told))
  /\ job' = [job EXCEPT !.at = "notify", !.todo = @ \ {Peer}]
  /\ UNCHANGED <<disk, room, lease, packet, phase, resuming, healthy, history, cids, left>>

ContactsRemoved ==
  /\ job.at = "notify" /\ job.todo = {}
  /\ IF packet.contacts = {} THEN Proceed("destroy") ELSE Abandon
  /\ UNCHANGED <<files, lease, packet, phase, history, cids, left>>

\* removeIdentity removes by name.
RemoveIdentity ==
  /\ job.at = "destroy" /\ sdk' = NoIdentity /\ Proceed("release")
  /\ UNCHANGED <<files, record, retired, registered, packet, phase, history, cids, left>>

RemoveIdentityFails ==
  /\ job.at = "destroy" /\ Faulty /\ Abandon
  /\ sdk' \in {sdk, NoIdentity}
  /\ UNCHANGED <<files, record, retired, registered, packet, phase, history, cids>>

\* After the purge every intent that is left gets its uncertain result; then closed is saved.
Purge ==
  /\ job.at = "purge"
  /\ IF Unresolved # {}
     THEN journal' = Append(journal, Uncertain(First(Unresolved))) /\ UNCHANGED <<room, flow>>
     ELSE /\ room' = Completed([room EXCEPT !.state = "closed"])
          /\ IF job.goal = "delete" THEN Proceed("delete") ELSE Finish
          /\ UNCHANGED journal
  /\ UNCHANGED <<disk, lease, packet, phase, history, cids, left>>

\* CoworkStore.delete.
StoreDelete ==
  /\ job.at = "delete"
  /\ disk' = {} /\ journal' = <<>> /\ Finish
  /\ UNCHANGED <<room, lease, packet, phase, history, cids, left>>

-----------------------------------------------------------------------------
(* Letting the packet go: SdkRoomPacket.close *)

\* The worker's end; a supervisor that outlives it retires every owner it had registered.
Ended(supervised) ==
  /\ phase' = "down" /\ packet' = NoPacket
  /\ job' = NoJob /\ resuming' = "no" /\ healthy' = FALSE
  /\ registered' = {}
  /\ retired' = IF supervised THEN retired \cup registered ELSE retired
  /\ sdk' = IF supervised THEN Freed(registered) ELSE sdk

\* Orderly shutdown: the pumps have drained, the packet is closed, the session ends.
Stop ==
  /\ phase = "up" /\ Free /\ resuming = "no"
  /\ IF Hosted
     THEN job' = Start("operator", "stop", "release") ELSE UNCHANGED job
  /\ phase' = "stopping"
  /\ UNCHANGED <<files, lease, packet, resuming, healthy, history, cids, left>>

EndSession ==
  /\ phase = "stopping" /\ Free /\ Ended(TRUE)
  /\ UNCHANGED <<files, record, history, cids, left>>

ReleaseLease ==
  /\ job.at = "release"
  /\ Released(packet.owner) /\ Proceed("forget")
  /\ UNCHANGED <<files, record, registered, packet, phase, history, cids, left>>

\* A failed release keeps the record.  destroy throws and keeps the packet, the others drop it.
ReleaseLeaseFails ==
  /\ job.at = "release" /\ Faulty
  /\ \/ job.goal \in {"close", "delete"} /\ Abandon /\ UNCHANGED packet
     \/ job.goal \in {"unhost", "stop"} /\ packet' = NoPacket /\ Finish
  /\ (Released(packet.owner) \/ UNCHANGED <<sdk, retired>>)
  /\ UNCHANGED <<files, record, registered, phase, history, cids>>

ForgetOwner ==
  /\ job.at = "forget"
  /\ Forgotten(packet.owner) /\ packet' = NoPacket
  /\ IF job.goal \in {"close", "delete"} THEN Proceed("purge") ELSE Finish
  /\ UNCHANGED <<files, sdk, retired, registered, phase, history, cids, left>>

\* What a crash within a store call leaves of what is there: the files come and go in this order.
Stages ==
  CASE job.at = "store" -> {{}, {"dir"}, {"dir", "blobs"}, {"dir", "blobs", "archive"}, Entries}
    [] job.at = "sentinel" -> {disk, disk \ {"archive"}, disk \cap {"dir", "blobs"}, {"dir"}, {}}
    [] job.at = "delete" -> {disk, disk \ {"archive"}, disk \cap {"dir", "metadata"}, {"dir"}, {}}
    [] OTHER -> {disk}

Crash ==
  /\ phase # "down" /\ left.crashes > 0 /\ left' = [left EXCEPT !.crashes = @ - 1]
  /\ \E supervised \in BOOLEAN : Ended(supervised)
  /\ disk' \in Stages
  /\ room' = IF job.at = "store" /\ "metadata" \in disk' THEN Sentinel ELSE room
  /\ journal' = IF "archive" \in disk' THEN journal ELSE <<>>
  /\ UNCHANGED <<record, history, cids>>

-----------------------------------------------------------------------------
(* Accepted requests: sharedCommandUnlocked, resumeLifecycleRequest *)

AcceptRequest ==
  /\ phase = "up" /\ Free /\ Hosted
  /\ room.state = "open" /\ room.request = NoRequest /\ packet.contacts # {}
  /\ \E c \in {"close", "delete"} :
       room' = [room EXCEPT !.request = [command |-> c, state |-> "pending"]]
  /\ UNCHANGED <<disk, journal, lease, packet, phase, flow, history, cids, left>>

\* The pump's afterPump reads the request outside the mutex.
ResumeRequest ==
  /\ phase = "up" /\ Hosted /\ resuming = "no"
  /\ Exists /\ room.request.state = "pending"
  /\ resuming' = "run"
  /\ UNCHANGED <<files, lease, packet, phase, job, healthy, history, cids, left>>

RunRequest ==
  /\ resuming = "run" /\ Free
  /\ \/ Exists /\ Closing("request", room.request.command)
     \/ /\ ~Exists /\ resuming' = "no"
        /\ UNCHANGED <<files, lease, packet, phase, job, healthy, history, cids, left>>

\* Mutated: the room as it was read with the request is saved again.
MarkFailedStale ==
  /\ resuming = "mark" /\ Free
  /\ room' = IF Exists THEN [room EXCEPT !.state = "open", !.request.state = "failed"] ELSE room
  /\ resuming' = "no"
  /\ UNCHANGED <<disk, journal, lease, packet, phase, job, healthy, history, cids, left>>

\* The request failed: marked so under the mutex, unless the room is gone.
MarkFailed ==
  /\ resuming = "mark" /\ Free
  /\ room' = IF Exists THEN [room EXCEPT !.request.state = "failed"] ELSE room
  /\ resuming' = "no"
  /\ UNCHANGED <<disk, journal, lease, packet, phase, job, healthy, history, cids, left>>

-----------------------------------------------------------------------------
(* Boot: CoworkDaemon.bootUnlocked *)

\* store.list; a directory without metadata is the last stage of a deletion.
ListRooms ==
  /\ phase \in {"down", "refused"} /\ (Exists \/ disk \in {{}, {"dir"}})
  /\ disk' = IF Exists THEN disk ELSE {}
  /\ healthy' = (Exists /\ room.state # "closed")
  /\ phase' = "restore"
  /\ UNCHANGED <<room, journal, lease, packet, job, resuming, history, cids, left>>

\* Any other directory without metadata makes store.list, and so the boot, throw.
ListThrows ==
  /\ phase = "down" /\ ~Exists /\ disk \cap {"blobs", "archive"} # {}
  /\ phase' = "refused"
  /\ UNCHANGED <<files, lease, packet, flow, history, cids, left>>

Phase(from, to) == phase = from /\ Free /\ resuming = "no" /\ phase' = to

BootRestore ==
  /\ Phase("restore", "resume")
  /\ IF healthy THEN Recovering("boot") ELSE UNCHANGED job
  /\ UNCHANGED <<files, lease, packet, resuming, healthy, history, cids, left>>

BootResume ==
  /\ Phase("resume", "close")
  /\ IF Exists /\ (room.state = "closed" \/ healthy) /\ room.request.state = "pending"
     THEN resuming' = "run" /\ healthy' = FALSE
     ELSE UNCHANGED <<resuming, healthy>>
  /\ UNCHANGED <<files, lease, packet, job, history, cids, left>>

\* A room listed as closing is closed before the transports start.
BootClose ==
  /\ Phase("close", "up")
  /\ job' = IF healthy /\ room.state = "closing" THEN Start("boot", "close", "refresh") ELSE NoJob
  /\ UNCHANGED <<files, lease, packet, resuming, healthy, history, cids, left>>

-----------------------------------------------------------------------------
(* What happens without the room *)

\* The SDK accepts contacts by outstanding invites, and peers remove the room.
ContactsChange ==
  /\ sdk.mine /\ Moves
  /\ \E c \in SUBSET Peers : sdk' = [sdk EXCEPT !.contacts = c]
  /\ UNCHANGED <<files, record, retired, registered, packet, phase, flow, history, cids>>

\* A notification refreshes the packet's cache.
PacketRefresh ==
  /\ phase # "down" /\ Hosted /\ Reached /\ packet.contacts # sdk.contacts
  /\ packet' = [packet EXCEPT !.contacts = sdk.contacts]
  /\ UNCHANGED <<files, lease, phase, flow, history, cids, left>>

\* Another program holds the identity for a while.
StrangerBinds ==
  /\ sdk.cid # 0 /\ sdk.holder = 0 /\ Moves /\ sdk' = Bound(Stranger)
  /\ UNCHANGED <<files, record, retired, registered, packet, phase, flow, history, cids>>
StrangerLeaves ==
  /\ sdk.holder = Stranger /\ sdk' = Freed({Stranger})
  /\ UNCHANGED <<files, record, retired, registered, packet, phase, flow, history, cids, left>>

\* Another program takes the name, and gives it up.
NameUsed ==
  /\ sdk.cid = 0 /\ Moves
  /\ sdk' = [NoIdentity EXCEPT !.cid = cids + 1] /\ cids' = cids + 1
  /\ UNCHANGED <<files, record, retired, registered, packet, phase, flow, history>>
NameFreed ==
  /\ sdk.cid # 0 /\ ~sdk.mine /\ sdk' = NoIdentity
  /\ UNCHANGED <<files, record, retired, registered, packet, phase, flow, history, cids, left>>

\* The operator removes an identity of the room that no room.json names.
RemoveOrphan ==
  /\ sdk.mine /\ Free /\ ~(Exists /\ room.cid = sdk.cid) /\ sdk' = NoIdentity
  /\ UNCHANGED <<files, record, retired, registered, packet, phase, flow, history, cids, left>>

Worker ==  \* what the holder of the mutex does next
  \/ StoreCreate \/ NameTaken \/ Mint \/ CreateIdentity \/ CreateIdentityFails \/ Discard
  \/ DiscardPendingProvisioning \/ SaveCid \/ RegisterRuntimeCommands
  \/ RestoreMissing \/ Reconnect \/ Bind \/ Reassigned \/ BindFails
  \/ RefreshContacts \/ RefreshFails \/ CloseUnhosted \/ SettleAbsent \/ AppendCloseIntent
  \/ RemoveContact \/ RemoveContactFails \/ AppendCloseResult \/ ContactsRemoved
  \/ RemoveIdentity \/ RemoveIdentityFails \/ Purge \/ StoreDelete
  \/ ReleaseLease \/ ReleaseLeaseFails \/ ForgetOwner \/ EndSession
Requests == ResumeRequest \/ RunRequest \/ MarkFailed
Boot == ListRooms \/ ListThrows \/ BootRestore \/ BootResume \/ BootClose
Operator == CreateRoom \/ RebindIdentity \/ CloseRoom \/ DeleteRoom \/ Stop
World ==
  \/ AcceptRequest \/ ContactsChange \/ PacketRefresh \/ StrangerBinds \/ StrangerLeaves
  \/ NameUsed \/ NameFreed \/ RemoveOrphan \/ Crash

Next == Worker \/ Requests \/ Boot \/ Operator \/ World
Spec == Init /\ [][Next]_vars

\* The process runs what it has begun and is started again, the mutex is a queue, and other
\* programs let go in the end.
SystemFairness ==
  /\ WF_vars(Worker) /\ SF_vars(Requests) /\ WF_vars(Boot)
  /\ WF_vars(StrangerLeaves) /\ WF_vars(NameFreed)
SystemSpec == Spec /\ SystemFairness

\* An operator does not give up: a close that was thrown back, a rebind and a restart are tried
\* again and again; nobody must close an open room.
Retry == room.state = "closing" /\ CloseRoom
FairSpec == SystemSpec /\ SF_vars(Retry) /\ SF_vars(RebindIdentity) /\ SF_vars(Stop)

-----------------------------------------------------------------------------
(* Properties *)

\* A lease that an owner of the room holds is named by the ledger (mint saves before the client
\* attaches, forget follows an acknowledged release), so that a later boot can present it.
LeaseIsRecorded == sdk.holder \in Owners => record = sdk.holder

Results(of) == {k \in DOMAIN journal : journal[k].of = of}
Of(p) == {k \in DOMAIN journal : journal[k].peer = p /\ journal[k].of # 0}

\* The journal of a close says what happened, whatever it was interrupted by: an intent has
\* one result at most, no result claims a removal or a notice that was not made, a removal
\* has an intent, and a room that is closed has no packet and no intent without a result.
CloseIsAccounted ==
  "archive" \in disk =>
    /\ \A i \in Intents : Cardinality(Results(i)) <= 1
    /\ \A p \in Peers :
         /\ Cardinality({k \in Of(p) : journal[k].told}) <= notices[p]
         /\ Cardinality({k \in Of(p) : journal[k].sure}) <= removed[p]
         /\ removed[p] > 0 => \E i \in Intents : journal[i].peer = p
    /\ room.state = "closed" => ~Hosted /\ Unresolved = {}

\* removeIdentity goes by name; the worker removes only the identity this room was given, and
\* only once it is closing, however often the name changed hands.
RemovesOnlyItsOwn ==
  [][sdk.cid # 0 /\ sdk'.cid # sdk.cid /\ job' # job
     => sdk.mine /\ sdk.cid = room.cid /\ room.state = "closing"]_vars

\* The room answers for what it owns and for nothing else: the ledger names the owner of every
\* lease it holds (packets.ts:226), and no identity but its own is removed (packets.ts:804).
OwnershipIsExact == []LeaseIsRecorded /\ RemovesOnlyItsOwn

Rank == [none |-> 0, pending |-> 1, open |-> 2, closing |-> 3, closed |-> 4]

\* Closing is forward-only, and a room that was deleted does not come back: no late request,
\* restart or torn deletion reopens it.
ClosingIsForward ==
  [][/\ Exists /\ Exists' => Rank[room.state] <= Rank[room'.state]
     /\ ~Exists /\ Exists' => room.state = "none"]_vars

\* A crash never keeps the worker from starting: the rooms that cannot be restored are left out.
StartupServes == phase # "refused"

\* A room that began to close is closed in the end, from whatever step it was thrown back.
ClosingConcludes == Exists /\ room.state = "closing" ~> room.state = "closed"

\* An open room that lost its packet gets it back, with the recorded owner or a fresh one.
RoomComesBack == Exists /\ room.state = "open" ~> Hosted \/ room.state # "open"

\* No failure or crash leaves a room where neither closing nor serving it can go on.
NoDeadEnd == ClosingConcludes /\ RoomComesBack

=============================================================================

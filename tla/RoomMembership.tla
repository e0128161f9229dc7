--------------------------- MODULE RoomMembership ---------------------------
(***************************************************************************)
(* The membership of one hosted room (src/service.ts): its invites, seats, *)
(* epoch and briefings, in room.json and the archive, against the contacts *)
(* and invite secrets that the SDK keeps for the room's identity and that  *)
(* its peers change at any time.  Reconciliation brings the two together.  *)
(* The room mutex serialises the operations: op says which SDK call or     *)
(* which append the operation that holds it has come to.  Storage answers  *)
(* synchronously, so what lies between two such points is one step.        *)
(***************************************************************************)
EXTENDS Integers, Sequences, FiniteSets

CONSTANTS
  Peers,       \* SDK identities
  Roles,       \* roles of seats
  Texts,       \* texts of role briefings
  Offers,      \* what an operator may invite with: [mode, role, min]
  Planned,     \* activation_requirements: a count for each role
  MaxInvites,  \* secrets ever generated
  MaxSeats,    \* seats one peer ever has
  MaxClock,    \* distinct values of now()
  Budgets      \* bounds of a behaviour: operators' requests, changes in the SDK that the
               \* room does not make, calls that throw and crashes

ASSUME MembershipConstants ==
  /\ IsFiniteSet(Peers)  \* a room has finitely many contacts
  /\ "common" \notin Roles /\ Roles # {} /\ Planned \in [Roles -> Nat]
  /\ Offers \subseteq [mode : {"one_time", "public"}, role : Roles, min : Nat \ {0}]
  /\ Budgets \subseteq [ops : Nat, moves : Nat, errs : Nat]
  /\ {MaxInvites, MaxSeats, MaxClock} \subseteq Nat

Ids == 1..MaxInvites
Slots == Peers \X (1..MaxSeats)
Absent == -1        \* the peer is not a contact
External == 0       \* not one of the room's own invites

VARIABLES
  room,       \* room.json: state, epoch, seats, invites, version of the briefing, roles
  clock,      \* the latest value of now()
  via,        \* SDK: the invite each contact came by
  secrets, minted,  \* SDK: usable secrets, and how many were generated
  redeemed,   \* SDK: inviters of redeemed external invites, not yet contacts
  known, listed,    \* the packet's cached contacts and secrets
  briefs,     \* briefings in the archive, one for each recipient
  op,         \* the operation that holds the mutex
  follower, news,   \* the identity's follower; whether it has a change to announce
  outlived,   \* history: <<p, i>> when a seat of p was removed and i existed
  budget      \* what is left of the bounds

core == <<via, secrets, minted, redeemed>>
cache == <<known, listed>>
file == <<room, clock, outlived>>
watch == <<follower, news>>
vars == <<file, core, cache, briefs, op, watch, budget>>

contacts == {p \in Peers : via[p] # Absent}

NoRole == CHOOSE r \in Roles : TRUE
NoSeat == [state |-> "none", invite |-> External, role |-> NoRole, at |-> 0]
NoInvite == [state |-> "none", mode |-> "public", role |-> NoRole, min |-> 1, created |-> 0,
             of |-> 0, accepted |-> {}]
NoBriefing == [version |-> 0, text |-> ""]
NewRoom ==
  [state |-> "provisioning", epoch |-> 0, version |-> 1, seats |-> [x \in Slots |-> NoSeat],
   invites |-> [i \in Ids |-> NoInvite], roles |-> [r \in Roles |-> NoBriefing]]

\* after: what follows the reconciliation; next: what it will save; todo and brief: invites
\* and briefings still to handle; target, seat: the invite and the seat of the request.
Idle == [pc |-> "idle", after |-> "idle", next |-> NewRoom, todo |-> {}, brief |-> {},
         target |-> 0, seat |-> <<>>, offer |-> NoInvite]
At(pc) == op.pc = pc

Init ==
  /\ room = NewRoom /\ clock = 0 /\ outlived = {}
  /\ via = [p \in Peers |-> Absent] /\ secrets = {} /\ minted = 0 /\ redeemed = {}
  /\ known = {} /\ listed = {} /\ briefs = {} /\ op = Idle
  /\ follower = "waiting" /\ news = FALSE
  /\ budget \in Budgets

-----------------------------------------------------------------------------
(* Rooms as values                                                         *)

SeatsIn(r, states) == {x \in Slots : r.seats[x].state \in states}
Active(r) == SeatsIn(r, {"active"})
Gone(r) == SeatsIn(r, {"removed", "cancelled"})  \* cancelled: removed before it was accepted
Seated(r, p) == \E x \in SeatsIn(r, {"pending", "active"}) : x[1] = p
Recorded(r) == {i \in Ids : r.invites[i].state # "none"}
InState(r, state) == {i \in Ids : r.invites[i].state = state}
Replacing(r, i) == {j \in InState(r, "receipt_pending") : r.invites[j].of = i}

Marked(r, is, state) ==
  [r EXCEPT !.invites = [i \in Ids |-> IF i \in is THEN [@[i] EXCEPT !.state = state] ELSE @[i]]]
NextSlot(r, p) == <<p, 1 + Cardinality({x \in Slots : x[1] = p /\ r.seats[x].state # "none"})>>
Seat(state, invite, role) == [state |-> state, invite |-> invite, role |-> role, at |-> 0]

Vacated(seat, t) ==
  [seat EXCEPT !.at = t, !.state = IF seat.state = "pending" THEN "cancelled" ELSE "removed"]
(* The seats xs are removed at time t, and no longer hold what they held.  A *)
(* seat that was active counts as a change of the membership.              *)
Removed(r, xs, t) ==
  [r EXCEPT !.seats = [x \in Slots |-> IF x \in xs THEN Vacated(@[x], t) ELSE @[x]],
            !.epoch = @ + Cardinality(xs \cap Active(r))]
Departed(r) == {x \in Active(r) : x[1] \notin contacts}

BlockedLater(r, p, i) == \E x \in Gone(r) : x[1] = p /\ r.invites[i].created < r.seats[x].at
(* A seat of the peer was removed, and the invite is not newer than that.  *)
Blocked(r, p, i) == \E x \in Gone(r) : x[1] = p /\ r.invites[i].created <= r.seats[x].at
Admits(r, p, i) == i \in InState(r, "live") /\ ~Seated(r, p) /\ ~Blocked(r, p, i)

(* Pending seats whose contact is established become active, and contacts  *)
(* that came by a live invite get an active seat.                          *)
Completed(r) == {x \in SeatsIn(r, {"pending"}) : x[1] \in contacts}
EnteringKnown(r) == {NextSlot(r, p) : p \in {q \in known : Admits(r, q, via[q])}}
Entering(r) == {NextSlot(r, p) : p \in {q \in contacts : Admits(r, q, via[q])}}
Admitted(r) ==
  [r EXCEPT
    !.seats = [x \in Slots |->
       IF x \in Completed(r) THEN [@[x] EXCEPT !.state = "active"]
       ELSE IF x \in Entering(r) THEN Seat("active", via[x[1]], r.invites[via[x[1]]].role)
       ELSE @[x]],
    !.epoch = @ + Cardinality(Completed(r)) + Cardinality(Entering(r))]

(* A live one-time invite that was accepted is consumed; any other live one *)
(* that the SDK does not list has to be replaced.                          *)
AcceptedBy(r, i) == {x[1] : x \in {y \in SeatsIn(r, {"active", "removed"}) : r.seats[y].invite = i}}
Settled(r) ==
  LET Accepted(i) == IF AcceptedBy(r, i) = {} THEN r.invites[i].accepted ELSE AcceptedBy(r, i)
      State(v, accepted, i) == IF v.state # "live" THEN v.state
                               ELSE IF v.mode = "one_time" /\ accepted # {} THEN "consumed"
                               ELSE IF i \in listed THEN "live" ELSE "replacement_required"
  IN [r EXCEPT !.invites = [i \in Ids |->
        [@[i] EXCEPT !.accepted = Accepted(i), !.state = State(r.invites[i], Accepted(i), i)]]]

RequirementsMet(r) ==
  /\ Active(r) # {}
  /\ \A i \in Recorded(r) \ InState(r, "revoked") :
       Cardinality(r.invites[i].accepted) >= r.invites[i].min
  /\ \A o \in Roles : Cardinality({x \in Active(r) : r.seats[x].role = o}) >= Planned[o]
Activated(r) ==
  IF r.state = "provisioning" /\ RequirementsMet(r) THEN [r EXCEPT !.state = "active"] ELSE r

CommonSeats(xs) == IF xs = {} THEN {} ELSE {[kind |-> "common", to |-> xs]}
(* The common briefing for the seats xs; then also one for each of them    *)
(* whose role has one.                                                     *)
Common(xs) == IF xs = {} THEN {} ELSE {[kind |-> "common", to |-> {x[1] : x \in xs}]}
BriefingsCommon(r, xs) == Common(xs)
Briefings(r, xs) ==
  Common(xs) \cup {[kind |-> r.seats[x].role, to |-> {x[1]}] :
                     x \in {y \in xs : r.roles[r.seats[y].role].version > 0}}

-----------------------------------------------------------------------------
(* The packet.  Every change the SDK commits is news for the follower.     *)

RefreshCaches == known' = contacts' /\ listed' = secrets'
Spend(of) == budget[of] > 0 /\ budget' = [budget EXCEPT ![of] = @ - 1]
Request == At("idle") /\ Spend("ops")
Now(t) == t \in {clock, clock + 1} /\ t <= MaxClock /\ clock' = t
Done == op' = Idle
Remember(xs) == outlived' = outlived \cup {<<x[1], i>> : x \in xs, i \in Recorded(room)}

Generate ==  \* the next secret, refused when the bound is reached
  /\ minted < MaxInvites
  /\ minted' = minted + 1 /\ news' = TRUE

(* The follower has a commit to announce: it reads the contacts, then the  *)
(* invites, and has the room reconciled.                                   *)
ReadContacts ==
  /\ follower = "waiting" /\ news
  /\ follower' = "listing" /\ news' = FALSE /\ known' = contacts
  /\ UNCHANGED <<file, core, listed, briefs, op, budget>>
ReadInvites ==
  /\ follower = "listing"
  /\ follower' = "due" /\ listed' = secrets
  /\ UNCHANGED <<file, core, known, briefs, op, news, budget>>

-----------------------------------------------------------------------------
(* Reconciliation                                                          *)

Advance(o) ==  \* the point that a reconciliation has come to
  [o EXCEPT !.pc = IF o.todo # {} THEN "orphans" ELSE IF o.brief # {} THEN "brief" ELSE "save"]

(* The contacts are read again and the departures saved; the rest of the   *)
(* new room is made of what was read, and saved at the end.                *)
Reconcile(o, t) ==
  \E left \in {Removed(room, Departed(room), t)} : \E entered \in {Admitted(left)} :
  \E next \in {Activated(Settled(entered))} :
    LET new == IF next.state = "provisioning" THEN {}
               ELSE IF left.state = "provisioning" THEN Active(next)
               ELSE Active(next) \ Active(left)
    IN /\ known' = contacts /\ UNCHANGED listed
       /\ IF Departed(room) = {} THEN UNCHANGED file
          ELSE room' = left /\ Now(t) /\ Remember(Departed(room))
       /\ op' = Advance([o EXCEPT !.next = next, !.todo = listed \ Recorded(room),
                                  !.brief = Briefings(next, new)])

Look(t) ==  \* within an operation
  /\ At("look") /\ Reconcile(op, t)
  /\ UNCHANGED <<core, briefs, watch, budget>>
Announce(t) ==  \* for the follower
  /\ follower = "due" /\ At("idle") /\ follower' = "running"
  /\ Reconcile(Idle, t)
  /\ UNCHANGED <<core, briefs, news, budget>>

(* An invite the room has no record of is revoked; likewise those that an  *)
(* operator revokes, the replacement of one before itself.                 *)
RevokeSecret(i) ==
  /\ op.pc \in {"orphans", "revoking"} /\ i \in op.todo
  /\ At("revoking") /\ op.todo # {op.target} => i # op.target
  /\ secrets' = secrets \ {i} /\ news' = TRUE /\ UNCHANGED <<via, minted, redeemed>>
  /\ RefreshCaches
  /\ LET o == [op EXCEPT !.todo = @ \ {i}]
     IN op' = IF At("orphans") THEN Advance(o)
              ELSE [o EXCEPT !.pc = IF o.todo = {} THEN "revoked" ELSE @]
  /\ UNCHANGED <<file, briefs, follower, budget>>

(* One message for those who have none of this kind and version yet; the   *)
(* common briefing comes first.                                            *)
Brief(b) ==
  /\ At("brief") /\ b \in op.brief
  /\ b.kind = "common" \/ \A c \in op.brief : c.kind # "common"
  /\ LET v == IF b.kind = "common" THEN [version |-> op.next.version, text |-> ""]
              ELSE op.next.roles[b.kind]
         Has(p) == \E c \in briefs : c.to = p /\ c.kind = b.kind /\ c.version = v.version
         rest == [op EXCEPT !.brief = @ \ {b}]
     IN /\ briefs' = briefs \cup
                        {[to |-> p, kind |-> b.kind, version |-> v.version, text |-> v.text] :
                           p \in {q \in b.to : ~Has(q)}}
        /\ op' = IF rest.brief # {} THEN rest
                 ELSE IF op.after = "edited" THEN Idle ELSE Advance(rest)
  /\ UNCHANGED <<file, core, cache, watch, budget>>

SaveForgets ==
  /\ At("save") /\ room' = op.next
  /\ op' = IF op.after = "recover"
           THEN [Idle EXCEPT !.pc = "rotate", !.todo = InState(room', "replacement_required")]
           ELSE Idle
  /\ follower' = IF follower = "running" THEN "waiting" ELSE follower
  /\ news' = (news /\ follower # "running")
  /\ UNCHANGED <<clock, outlived, core, cache, briefs, budget>>
Save ==
  /\ At("save") /\ room' = op.next
  /\ op' = IF op.after = "recover"
           THEN [Idle EXCEPT !.pc = "rotate", !.todo = InState(room', "replacement_required")]
           ELSE Idle
  /\ follower' = IF follower = "running" THEN "waiting" ELSE follower
  /\ UNCHANGED <<clock, outlived, core, cache, briefs, news, budget>>

ReconcileRoom ==
  /\ Request /\ op' = [Idle EXCEPT !.pc = "look"]
  /\ UNCHANGED <<file, core, cache, briefs, watch>>

-----------------------------------------------------------------------------
(* Invites                                                                 *)

CreateInvite(o) ==
  /\ Request /\ Generate
  /\ secrets' = secrets \cup {minted'} /\ UNCHANGED <<via, redeemed>> /\ RefreshCaches
  /\ op' = [Idle EXCEPT !.pc = "record", !.target = minted', !.offer =
              [NoInvite EXCEPT !.state = "live", !.mode = o.mode, !.role = o.role, !.min = o.min]]
  /\ UNCHANGED <<file, briefs, follower>>

Record(t) ==
  /\ op.pc \in {"record", "replaced"} /\ Now(t)
  /\ room' = [room EXCEPT !.invites[op.target] = [op.offer EXCEPT !.created = t]]
  /\ op' = IF At("record") THEN Idle ELSE [op EXCEPT !.pc = "rotate", !.todo = @ \ {op.offer.of}]
  /\ UNCHANGED <<outlived, core, cache, briefs, watch, budget>>
RecordFails ==  \* the save is refused, and the secret revoked
  /\ op.pc \in {"record", "replaced"} /\ Spend("errs")
  /\ secrets' = secrets \ {op.target} /\ news' = TRUE /\ UNCHANGED <<via, minted, redeemed>>
  /\ RefreshCaches /\ Done
  /\ UNCHANGED <<file, briefs, follower>>

WithoutReplacement(i) == {i}
WithReplacement(i) ==
  {i} \cup IF room.invites[i].state = "replacement_required" THEN Replacing(room, i) ELSE {}
RevokeInvite(i) ==
  /\ Request /\ i \in Recorded(room) \ InState(room, "revoked")
  /\ op' = [Idle EXCEPT !.pc = "revoking", !.target = i, !.todo = WithReplacement(i)]
  /\ UNCHANGED <<file, core, cache, briefs, watch>>
SaveRevoked ==
  /\ At("revoked") /\ Done
  /\ room' = Marked(room, WithReplacement(op.target), "revoked")
  /\ UNCHANGED <<clock, outlived, core, cache, briefs, watch, budget>>

(* Recovery: for each invite without a secret, the replacement it may have  *)
(* is revoked and recorded so, and another is generated and recorded.      *)
RecoverInvites ==
  /\ Request /\ op' = [Idle EXCEPT !.pc = "look", !.after = "recover"]
  /\ UNCHANGED <<file, core, cache, briefs, watch>>
Rotate(i) ==
  /\ At("rotate") /\ i \in op.todo
  /\ secrets' = secrets \ Replacing(room, i) /\ UNCHANGED <<via, minted, redeemed>>
  /\ IF Replacing(room, i) = {} THEN UNCHANGED <<cache, news>> ELSE RefreshCaches /\ news' = TRUE
  /\ op' = [op EXCEPT !.pc = IF Replacing(room, i) = {} THEN "replace" ELSE "rotated", !.target = i]
  /\ UNCHANGED <<file, briefs, follower, budget>>
SaveRotated ==
  /\ At("rotated") /\ room' = Marked(room, Replacing(room, op.target), "revoked")
  /\ op' = [op EXCEPT !.pc = "replace"]
  /\ UNCHANGED <<clock, outlived, core, cache, briefs, watch, budget>>
Replace ==
  /\ At("replace") /\ Generate
  /\ secrets' = (secrets \ {op.target}) \cup {minted'} /\ UNCHANGED <<via, redeemed>>
  /\ RefreshCaches
  /\ op' = [op EXCEPT !.pc = "replaced", !.target = minted', !.offer =
              [room.invites[op.target] EXCEPT !.state = "receipt_pending", !.of = op.target,
                                              !.accepted = {}]]
  /\ UNCHANGED <<file, briefs, follower, budget>>
Recovered ==
  /\ \/ At("rotate") /\ op.todo = {}
     \/ At("replace") /\ minted = MaxInvites
  /\ Done /\ UNCHANGED <<file, core, cache, briefs, watch, budget>>

(* The operator has the replacement j of the invite i.                     *)
ConfirmRecovered(i, j) ==
  /\ Request /\ i \in InState(room, "replacement_required")
  /\ j \in Replacing(room, i) /\ j \in listed
  /\ room' = Marked(Marked(room, {i}, "revoked"), {j}, "live")
  /\ op' = [Idle EXCEPT !.pc = "look"]
  /\ UNCHANGED <<clock, outlived, core, cache, briefs, watch>>

-----------------------------------------------------------------------------
(* Seats                                                                   *)

(* An invite made by p is redeemed.  Whether p was a contact before is     *)
(* looked up in the cache.                                                 *)
AcceptExternal(p, role) ==
  /\ Request /\ p \notin redeemed /\ NextSlot(room, p) \in Slots
  /\ redeemed' = redeemed \cup ({p} \ contacts) /\ UNCHANGED <<via, secrets, minted>>
  /\ RefreshCaches /\ news' = TRUE
  /\ op' = IF p \in known \/ Seated(room, p) THEN Idle
           ELSE [Idle EXCEPT !.pc = "pend", !.seat = NextSlot(room, p), !.offer.role = role]
  /\ UNCHANGED <<file, briefs, follower>>
SavePending ==
  /\ At("pend") /\ room' = [room EXCEPT !.seats[op.seat] = Seat("pending", External, op.offer.role)]
  /\ op' = [Idle EXCEPT !.pc = "look"]
  /\ UNCHANGED <<clock, outlived, core, cache, briefs, watch, budget>>

(* The contact of the seat x is removed, that of a seat that was never     *)
(* active only if the cache has it.                                        *)
RemoveContact(x) ==
  LET p == x[1] IN
  /\ Request /\ x \in SeatsIn(room, {"active", "pending", "cancelled"})
  /\ IF x \in Active(room) \/ p \in known
     THEN /\ via' = [via EXCEPT ![p] = Absent] /\ UNCHANGED <<secrets, minted, redeemed>>
          /\ known' = known \ ({p} \cap contacts) /\ news' = (news \/ p \in contacts)
     ELSE UNCHANGED <<core, known, news>>
  /\ op' = IF room.seats[x].state = "cancelled" THEN Idle
           ELSE [Idle EXCEPT !.pc = "unseat", !.seat = x]
  /\ UNCHANGED <<file, listed, briefs, follower>>
Unseat(t) ==
  /\ At("unseat") /\ Now(t) /\ Done
  /\ room' = Removed(room, {op.seat}, t) /\ Remember({op.seat})
  /\ UNCHANGED <<core, cache, briefs, watch, budget>>

-----------------------------------------------------------------------------
(* Briefings.  An active room sends what was edited to those it is for.    *)

Send(kind, to, next) ==
  op' = IF next.state # "active" \/ to = {} THEN Idle
        ELSE [Idle EXCEPT !.pc = "brief", !.after = "edited", !.next = next,
                          !.brief = {[kind |-> kind, to |-> to]}]

UpdateBriefing ==
  /\ Request /\ room' = [room EXCEPT !.version = @ + 1]
  /\ Send("common", {x[1] : x \in Active(room)}, room')
  /\ UNCHANGED <<clock, outlived, core, cache, briefs, watch>>
SetRoleBriefing(role, text) ==
  /\ Request /\ room.roles[role].text # text
  /\ room' = [room EXCEPT !.roles[role] = [version |-> @.version + 1, text |-> text]]
  /\ Send(role, {x[1] : x \in {y \in Active(room) : room.seats[y].role = role}}, room')
  /\ UNCHANGED <<clock, outlived, core, cache, briefs, watch>>
DeleteRoleBriefing(role) ==
  /\ Request /\ room.roles[role].version > 0
  /\ room' = [room EXCEPT !.roles[role] = NoBriefing] /\ Done
  /\ UNCHANGED <<clock, outlived, core, cache, briefs, watch>>

-----------------------------------------------------------------------------
(* What the room does not do itself.  Peers, and whoever restores the SDK's  *)
(* state, change it; calls throw, and the process crashes.                 *)

Move == Spend("moves") /\ news' = TRUE /\ UNCHANGED <<file, cache, briefs, op, follower, minted>>
HasRoom(p) == {NextSlot(room, p), NextSlot(op.next, p)} \subseteq Slots  \* bound

Recovering == op.pc \in {"rotate", "rotated", "replace", "replaced"}
HandedOut == {i \in Recorded(room) : Recovering => room.invites[i].state # "receipt_pending"}

Join(p, i) ==  \* p redeems an invite of the room, and becomes a contact
  /\ Move /\ p \notin contacts /\ i \in secrets \cap HandedOut /\ HasRoom(p)
  /\ via' = [via EXCEPT ![p] = i] /\ redeemed' = redeemed \ {p}
  /\ secrets' = IF room.invites[i].mode = "one_time" THEN secrets \ {i} ELSE secrets
Establish(p) ==  \* the redemption of p's invite completes
  /\ Move /\ p \in redeemed
  /\ via' = [via EXCEPT ![p] = External] /\ redeemed' = redeemed \ {p} /\ UNCHANGED secrets
Leave(p) ==
  /\ Move /\ p \in contacts
  /\ via' = [via EXCEPT ![p] = Absent] /\ UNCHANGED <<secrets, redeemed>>
LoseSecret(i) ==  \* restored state lacks it
  /\ Move /\ i \in secrets
  /\ secrets' = secrets \ {i} /\ UNCHANGED <<via, redeemed>>

(* The call that the operation has come to throws, its effect or its answer *)
(* lost.  A follower whose pass failed starts over.                        *)
Throws ==
  /\ ~At("idle") /\ Spend("errs") /\ Done
  /\ IF follower = "running" THEN follower' = "waiting" /\ news' = TRUE ELSE UNCHANGED watch
  /\ UNCHANGED <<file, core, cache, briefs>>

(* A restart restores the packet and reconciles the room.                  *)
Crash ==
  /\ Spend("errs") /\ Done /\ follower' = "waiting" /\ news' = TRUE
  /\ UNCHANGED <<file, core, briefs>> /\ RefreshCaches

-----------------------------------------------------------------------------
Follow == ReadContacts \/ ReadInvites \/ \E t \in 0..MaxClock : Announce(t)
Continue ==  \* the operation goes on
  \/ \E t \in 0..MaxClock : Look(t) \/ Record(t) \/ Unseat(t)
  \/ \E i \in Ids : RevokeSecret(i) \/ Rotate(i)
  \/ \E b \in op.brief : Brief(b)
  \/ Save \/ SaveRevoked \/ SaveRotated \/ Replace \/ Recovered \/ SavePending
Requests ==
  \/ ReconcileRoom \/ RecoverInvites \/ UpdateBriefing
  \/ \E o \in Offers : CreateInvite(o)
  \/ \E i, j \in Ids : RevokeInvite(i) \/ ConfirmRecovered(i, j)
  \/ \E x \in Slots : RemoveContact(x)
  \/ \E p \in Peers, role \in Roles : AcceptExternal(p, role)
  \/ \E role \in Roles, text \in Texts : SetRoleBriefing(role, text) \/ DeleteRoleBriefing(role)
Environment ==
  \/ \E p \in Peers, i \in Ids : Join(p, i) \/ LoseSecret(i)
  \/ \E p \in Peers : Establish(p) \/ Leave(p)
  \/ RecordFails \/ Throws \/ Crash

Next == Follow \/ Continue \/ Requests \/ Environment

(* The follower's reads return, and what holds the mutex goes on.          *)
Spec == Init /\ [][Next]_vars /\ WF_vars(Follow) /\ WF_vars(Continue)

-----------------------------------------------------------------------------
(* Properties                                                              *)

InviteType ==
  [state : {"none", "live", "receipt_pending", "replacement_required", "consumed", "revoked"},
   mode : {"one_time", "public"}, role : Roles, min : Nat, created : 0..MaxClock, of : {0} \cup Ids,
   accepted : SUBSET Peers]
SeatType == [state : {"none", "pending", "active", "removed", "cancelled"},
             invite : {External} \cup Ids, role : Roles, at : 0..MaxClock]
RoomType ==
  [state : {"provisioning", "active"}, epoch : Nat, version : Nat, seats : [Slots -> SeatType],
   invites : [Ids -> InviteType], roles : [Roles -> [version : Nat, text : {""} \cup Texts]]]

(* The room, the SDK's state and the caches have the shapes that the code gives them. *)
TypeOK ==
  /\ room \in RoomType /\ op.next \in RoomType /\ clock \in 0..MaxClock
  /\ outlived \subseteq Peers \X Ids
  /\ via \in [Peers -> {Absent, External} \cup Ids] /\ minted \in 0..MaxInvites
  /\ secrets \subseteq 1..minted /\ listed \subseteq 1..minted
  /\ redeemed \subseteq Peers /\ known \subseteq Peers
  /\ op.todo \subseteq Ids /\ op.target \in 0..minted
  /\ op.brief \subseteq [kind : {"common"} \cup Roles, to : SUBSET Peers]
  /\ \A b \in briefs : b.to \in Peers /\ b.kind \in {"common"} \cup Roles
  /\ follower \in {"waiting", "listing", "due", "running"} /\ news \in BOOLEAN
  /\ budget \in [ops : Nat, moves : Nat, errs : Nat]

(* What RoomSchema demands (contracts.ts:400-430 and 549-565) of every room that is *)
(* saved: a peer has one seat that is pending or active; the source of a replacement *)
(* is in the state its lineage requires, and it has one pending replacement.  Were it *)
(* otherwise, the save would throw and the room stay as it is.               *)
Legal(r) ==
  /\ \A x, y \in SeatsIn(r, {"pending", "active"}) : x[1] = y[1] => x = y
  /\ \A i \in Recorded(r) :
       LET v == r.invites[i]
           source == IF v.of = 0 THEN "none" ELSE r.invites[v.of].state
       IN /\ v.state = "receipt_pending" =>
               source = "replacement_required" /\ Replacing(r, v.of) = {i}
          /\ v.state \in {"live", "consumed", "replacement_required"} =>
               source \in {"none", "revoked"}
          /\ v.state = "revoked" => source \in {"none", "revoked", "replacement_required"}
NoSaveIsRefused == Legal(room) /\ Legal(op.next)

(* The membership epoch is the number of seats that became active and of active seats *)
(* that were removed, whatever crashed or was retried between the saves: two rosters *)
(* of a room never have the same epoch (service.ts:946, 1731, 1833).         *)
EpochCountsChanges ==
  room.epoch = Cardinality(Active(room)) + 2 * Cardinality(SeatsIn(room, {"removed"}))

(* An invite whose secret is gone is only given up, to be replaced, when no contact *)
(* that came by it was still to be admitted: the contacts that admission is decided *)
(* by are never older than the invites that are settled with them (service.ts:1718). *)
NobodyStranded ==
  \A p \in contacts :
    via[p] \in InState(room, "replacement_required") => Seated(room, p) \/ Blocked(room, p, via[p])

(* A peer whose seat was removed gets no other by an invite that existed then, even *)
(* when both are recorded at the same time of the clock (service.ts:1788).    *)
RemovedStaysOut ==
  [][\A x \in Active(room)' \ Active(room) : <<x[1], room'.seats[x].invite>> \notin outlived]_vars

(* Whoever is active in an active room had, when that was saved, the briefing of that *)
(* version in the archive, and that of the role if it has one (service.ts:1845-1852). *)
Briefed(r, x) ==
  LET seat == r.seats[x]
      Has(kind, version) == \E b \in briefs : b.to = x[1] /\ b.kind = kind /\ b.version = version
      role == r.roles[seat.role]
  IN Has("common", r.version) /\ (role.version > 0 => Has(seat.role, role.version))
NobodySeatedUnbriefed ==
  [][room'.state = "active" =>
       \A x \in Active(room)' :
         Briefed(room', x) \/ (room.state = "active" /\ x \in Active(room))]_vars

(* Each change of the roster is counted once, and whoever it seats is briefed in it, *)
(* though the save, the briefings and the SDK's contacts are separate writes *)
(* (reconcileUnlocked).                                                      *)
ChangesAreRecorded == []EpochCountsChanges /\ NobodySeatedUnbriefed

(* What a commit in the SDK leaves to be done is done: contacts that came by a live *)
(* invite and may be admitted have a seat, those that left have none, and a secret that *)
(* the room has no record of, because the process stopped or the answer was lost in *)
(* between, is revoked (service.ts:1813-1819).  No notification is lost to a pass that *)
(* is under way, to a failure or to a crash.                                 *)
Unsettled ==
  \/ \E p \in contacts : Admits(room, p, via[p])
  \/ Departed(room) # {}
  \/ secrets \ Recorded(room) # {}
ChangesAreSettled == (news /\ Unsettled) ~> ~Unsettled

=============================================================================

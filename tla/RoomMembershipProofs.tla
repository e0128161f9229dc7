------------------------ MODULE RoomMembershipProofs ------------------------
(* Theorems about RoomMembership, for any peers, roles, offers and bounds: first its *)
(* types, what each step makes of the room, and who stays out; then the room's books. *)
EXTENDS RoomMembership, FiniteSetTheorems, TLAPS

(* The operation that holds the mutex; TypeOK types only what it will save.  The *)
(* invites that it handles, like those in the room, are of secrets that were     *)
(* generated.                                                                    *)
Steps == {"idle", "look", "orphans", "brief", "save", "record", "revoking", "revoked", "rotate",
          "rotated", "replace", "replaced", "pend", "unseat"}
OpType ==
  [pc : Steps, after : {"idle", "recover", "edited"}, next : RoomType, todo : SUBSET Ids,
   brief : SUBSET [kind : {"common"} \cup Roles, to : SUBSET Peers], target : 0..MaxInvites,
   seat : Slots \cup {<<>>}, offer : InviteType]
Targeted == {"record", "replaced", "replace", "rotated", "revoking", "revoked"}
OpOK ==
  /\ op \in OpType /\ op.todo \subseteq 1..minted /\ Recorded(op.next) \subseteq 1..minted
  /\ op.target \in 0..minted /\ (op.pc \in Targeted => op.target # 0)
  /\ op.pc \in {"pend", "unseat"} => op.seat \in Slots
RoomOK == room \in RoomType /\ Recorded(room) \subseteq 1..minted
ClockOK == clock \in 0..MaxClock /\ outlived \subseteq Peers \X Ids
CoreOK ==
  /\ via \in [Peers -> {Absent, External} \cup Ids] /\ minted \in 0..MaxInvites
  /\ secrets \subseteq 1..minted /\ redeemed \subseteq Peers
CacheOK == listed \subseteq 1..minted /\ known \subseteq Peers
RestOK ==
  /\ \A b \in briefs : b.to \in Peers /\ b.kind \in {"common"} \cup Roles
  /\ follower \in {"waiting", "listing", "due", "running"} /\ news \in BOOLEAN
  /\ budget \in [ops : Nat, moves : Nat, errs : Nat]
Types == OpOK /\ RoomOK /\ ClockOK /\ CoreOK /\ CacheOK /\ RestOK

-----------------------------------------------------------------------------
(* The values that rooms are made of.                                      *)

LEMMA Constants ==
  /\ IsFiniteSet(Peers) /\ IsFiniteSet(Slots) /\ NoRole \in Roles
  /\ MaxInvites \in Nat /\ MaxSeats \in Nat /\ MaxClock \in Nat
<1>1. MaxInvites \in Nat /\ MaxSeats \in Nat /\ MaxClock \in Nat BY MembershipConstants
<1>2. IsFiniteSet(1..MaxSeats) BY <1>1, FS_Interval
<1>3. IsFiniteSet(Slots) BY <1>2, MembershipConstants, FS_Product DEF Slots
<1>. QED BY <1>1, <1>3, MembershipConstants DEF NoRole

LEMMA InitialValues ==
  /\ NoSeat \in SeatType /\ NoInvite \in InviteType
  /\ NewRoom \in RoomType /\ Recorded(NewRoom) = {}
<1>. USE Constants DEF SeatType, InviteType, NoSeat, NoInvite, NoBriefing, External
<1>. QED BY DEF NewRoom, RoomType, Recorded

LEMMA IdleType ==
  /\ Idle \in OpType /\ Idle.pc = "idle" /\ Idle.todo = {} /\ Idle.target = 0
  /\ Recorded(Idle.next) = {}
BY Constants, InitialValues DEF Idle, OpType, Steps

(* Numbers of seats are natural numbers.                                   *)
LEMMA SeatCount == ASSUME NEW xs, xs \subseteq Slots PROVE IsFiniteSet(xs) /\ Cardinality(xs) \in Nat
BY Constants, FS_Subset, FS_CardinalityType

LEMMA Fields ==
  ASSUME NEW r \in RoomType
  PROVE  /\ r.seats \in [Slots -> SeatType] /\ \A x \in Slots : r.seats[x] \in SeatType
         /\ r.invites \in [Ids -> InviteType] /\ \A i \in Ids : r.invites[i] \in InviteType
         /\ r.epoch \in Nat /\ r.version \in Nat
         /\ \A role \in Roles : r.roles[role] \in [version : Nat, text : {""} \cup Texts]
BY DEF RoomType

(* A room with other seats and epoch, and one with other invites.          *)
WithSeats(r, f, e) == [r EXCEPT !.seats = f, !.epoch = e]
WithInvites(r, f) == [r EXCEPT !.invites = f]

LEMMA Reseated ==
  ASSUME NEW r \in RoomType, NEW f \in [Slots -> SeatType], NEW e \in Nat
  PROVE  /\ WithSeats(r, f, e) \in RoomType
         /\ WithSeats(r, f, e).seats = f /\ WithSeats(r, f, e).invites = r.invites
BY DEF RoomType, WithSeats
LEMMA Reinvited ==
  ASSUME NEW r \in RoomType, NEW f \in [Ids -> InviteType]
  PROVE  /\ WithInvites(r, f) \in RoomType
         /\ WithInvites(r, f).invites = f /\ WithInvites(r, f).seats = r.seats
BY DEF RoomType, WithInvites

LEMMA RemovedType ==
  ASSUME NEW r \in RoomType, NEW xs, xs \subseteq Slots, NEW t \in 0..MaxClock
  PROVE  /\ Removed(r, xs, t) \in RoomType /\ Recorded(Removed(r, xs, t)) = Recorded(r)
         /\ \E f \in [Slots -> SeatType], e \in Nat :
              /\ Removed(r, xs, t) = WithSeats(r, f, e)
              /\ \A x \in Slots : f[x] = IF x \in xs THEN Vacated(r.seats[x], t) ELSE r.seats[x]
<1>. DEFINE f == [x \in Slots |-> IF x \in xs THEN Vacated(r.seats[x], t) ELSE r.seats[x]]
            e == r.epoch + Cardinality(xs \cap Active(r))
<1>1. e \in Nat
  <2>1. Cardinality(xs \cap Active(r)) \in Nat BY SeatCount
  <2>2. r.epoch \in Nat BY Fields
  <2>. QED BY <2>1, <2>2
<1>2. ASSUME NEW x \in Slots PROVE f[x] \in SeatType
  <2>1. ASSUME NEW s \in SeatType PROVE Vacated(s, t) \in SeatType BY DEF Vacated, SeatType
  <2>. QED BY <2>1, Fields
<1>3. f \in [Slots -> SeatType] BY <1>2
<1>4. Removed(r, xs, t) = WithSeats(r, f, e) BY DEF Removed, WithSeats
<1>5. \A x \in Slots : f[x] = IF x \in xs THEN Vacated(r.seats[x], t) ELSE r.seats[x] OBVIOUS
<1>. HIDE DEF f, e
<1>6. Removed(r, xs, t) \in RoomType /\ Removed(r, xs, t).invites = r.invites
  BY <1>1, <1>3, <1>4, Reseated
<1>. QED BY <1>1, <1>3, <1>4, <1>5, <1>6 DEF Recorded

LEMMA EnteringFinite ==
  ASSUME NEW r \in RoomType PROVE IsFiniteSet(Entering(r)) /\ Cardinality(Entering(r)) \in Nat
<1>. DEFINE S == {q \in contacts : Admits(r, q, via[q])}
            f == [p \in S |-> NextSlot(r, p)]
<1>1. IsFiniteSet(S) BY Constants, FS_Subset DEF contacts
<1>2. f \in Surjection(S, Entering(r)) BY DEF Entering, Surjection
<1>. QED BY <1>1, <1>2, FS_Surjection, FS_CardinalityType DEF ExistsSurjection

(* Who enters has the next seat of a peer that an invite of the room admits. *)
LEMMA EnteringSeat ==
  ASSUME NEW r \in RoomType, NEW x \in Entering(r), via \in [Peers -> {Absent, External} \cup Ids]
  PROVE  /\ x[1] \in contacts /\ x = NextSlot(r, x[1]) /\ via[x[1]] \in Ids
         /\ Admits(r, x[1], via[x[1]])
<1>1. PICK p \in {q \in contacts : Admits(r, q, via[q])} : x = NextSlot(r, p) BY DEF Entering
<1>2. x[1] = p BY <1>1 DEF NextSlot
<1>3. via[p] \in Ids BY <1>1 DEF Admits, InState
<1>. QED BY <1>1, <1>2, <1>3

LEMMA AdmittedType ==
  ASSUME NEW r \in RoomType, via \in [Peers -> {Absent, External} \cup Ids]
  PROVE  /\ Admitted(r) \in RoomType /\ Recorded(Admitted(r)) = Recorded(r)
         /\ \E f \in [Slots -> SeatType], e \in Nat :
              /\ Admitted(r) = WithSeats(r, f, e)
              /\ \A x \in Slots :
                   f[x] = IF x \in Completed(r) THEN [r.seats[x] EXCEPT !.state = "active"]
                          ELSE IF x \in Entering(r)
                          THEN Seat("active", via[x[1]], r.invites[via[x[1]]].role)
                          ELSE r.seats[x]
<1>. DEFINE Invited(x) == Seat("active", via[x[1]], r.invites[via[x[1]]].role)
            f == [x \in Slots |-> IF x \in Completed(r) THEN [r.seats[x] EXCEPT !.state = "active"]
                                  ELSE IF x \in Entering(r) THEN Invited(x) ELSE r.seats[x]]
            e == r.epoch + Cardinality(Completed(r)) + Cardinality(Entering(r))
<1>1. e \in Nat
  <2>1. Completed(r) \subseteq Slots BY DEF Completed, SeatsIn
  <2>2. Cardinality(Completed(r)) \in Nat BY <2>1, SeatCount
  <2>3. Cardinality(Entering(r)) \in Nat BY EnteringFinite
  <2>4. r.epoch \in Nat BY Fields
  <2>. QED BY <2>2, <2>3, <2>4
<1>2. ASSUME NEW s \in SeatType PROVE [s EXCEPT !.state = "active"] \in SeatType BY DEF SeatType
<1>3. ASSUME NEW x \in Entering(r) PROVE Invited(x) \in SeatType
  <2>1. via[x[1]] \in Ids BY EnteringSeat
  <2>2. r.invites[via[x[1]]].role \in Roles BY <2>1, Fields DEF InviteType
  <2>. QED BY <2>1, <2>2, Constants DEF Seat, SeatType
<1>4. ASSUME NEW x \in Slots PROVE f[x] \in SeatType
  <2>. HIDE DEF Invited
  <2>. QED BY <1>2, <1>3, Fields
<1>5. f \in [Slots -> SeatType] BY <1>4
<1>6. Admitted(r) = WithSeats(r, f, e) BY DEF Admitted, WithSeats
<1>7. \A x \in Slots :
        f[x] = IF x \in Completed(r) THEN [r.seats[x] EXCEPT !.state = "active"]
               ELSE IF x \in Entering(r) THEN Invited(x) ELSE r.seats[x]
  OBVIOUS
<1>. HIDE DEF f, e
<1>8. Admitted(r) \in RoomType /\ Admitted(r).invites = r.invites BY <1>1, <1>5, <1>6, Reseated
<1>. QED BY <1>1, <1>5, <1>6, <1>7, <1>8 DEF Recorded

(* Settling changes only who accepted the invites, and their state.        *)
LEMMA SettledType ==
  ASSUME NEW r \in RoomType
  PROVE  /\ Settled(r) \in RoomType /\ Settled(r).seats = r.seats
         /\ Recorded(Settled(r)) = Recorded(r)
         /\ \A i \in Ids : Settled(r).invites[i].created = r.invites[i].created
<1>. DEFINE A(i) == IF AcceptedBy(r, i) = {} THEN r.invites[i].accepted ELSE AcceptedBy(r, i)
            State(i) == IF r.invites[i].state # "live" THEN r.invites[i].state
                        ELSE IF r.invites[i].mode = "one_time" /\ A(i) # {} THEN "consumed"
                        ELSE IF i \in listed THEN "live" ELSE "replacement_required"
            f == [i \in Ids |-> [r.invites[i] EXCEPT !.accepted = A(i), !.state = State(i)]]
<1>1. ASSUME NEW i \in Ids PROVE A(i) \in SUBSET Peers
  <2>1. AcceptedBy(r, i) \subseteq Peers BY DEF AcceptedBy, SeatsIn, Slots
  <2>2. r.invites[i].accepted \subseteq Peers BY Fields DEF InviteType
  <2>. QED BY <2>1, <2>2
<1>2. ASSUME NEW i \in Ids
      PROVE  /\ f[i] \in InviteType /\ f[i].created = r.invites[i].created
             /\ f[i].state = "none" <=> r.invites[i].state = "none"
  <2>1. r.invites[i] \in InviteType BY Fields
  <2>2. State(i) \in {"none", "live", "receipt_pending", "replacement_required", "consumed", "revoked"}
    BY <2>1 DEF InviteType
  <2>3. State(i) = "none" <=> r.invites[i].state = "none" OBVIOUS
  <2>4. f[i] = [r.invites[i] EXCEPT !.accepted = A(i), !.state = State(i)] OBVIOUS
  <2>. HIDE DEF State, A, f
  <2>. QED BY <1>1, <2>1, <2>2, <2>3, <2>4 DEF InviteType
<1>3. f \in [Ids -> InviteType] BY <1>2
<1>4. Settled(r) = WithInvites(r, f) BY DEF Settled, WithInvites
<1>. HIDE DEF f
<1>5. /\ Settled(r) \in RoomType /\ Settled(r).seats = r.seats /\ Settled(r).invites = f
  BY <1>3, <1>4, Reinvited
<1>. QED BY <1>2, <1>5 DEF Recorded

LEMMA ActivatedType ==
  ASSUME NEW r \in RoomType
  PROVE  /\ Activated(r) \in RoomType /\ Activated(r).seats = r.seats
         /\ Activated(r).invites = r.invites /\ Recorded(Activated(r)) = Recorded(r)
BY DEF Activated, RoomType, Recorded

LEMMA MarkedType ==
  ASSUME NEW r \in RoomType, NEW is, is \subseteq Ids, NEW state \in {"live", "revoked"}
  PROVE  /\ Marked(r, is, state) \in RoomType /\ Marked(r, is, state).seats = r.seats
         /\ Recorded(Marked(r, is, state)) = Recorded(r) \cup is
         /\ \A i \in Ids : Marked(r, is, state).invites[i].created = r.invites[i].created
<1>. DEFINE f == [i \in Ids |-> IF i \in is THEN [r.invites[i] EXCEPT !.state = state] ELSE r.invites[i]]
<1>1. ASSUME NEW v \in InviteType
      PROVE  LET w == [v EXCEPT !.state = state]
             IN w \in InviteType /\ w.created = v.created /\ w.state = state
  BY DEF InviteType
<1>2. \A i \in Ids : /\ f[i] \in InviteType /\ f[i].created = r.invites[i].created
                    /\ f[i].state = IF i \in is THEN state ELSE r.invites[i].state
  <2>1. ASSUME NEW i \in Ids PROVE r.invites[i] \in InviteType BY <2>1, Fields
  <2>2. ASSUME NEW i \in Ids, i \in is
        PROVE  /\ f[i] \in InviteType /\ f[i].created = r.invites[i].created /\ f[i].state = state
    BY <1>1, <2>1, <2>2
  <2>3. ASSUME NEW i \in Ids, i \notin is PROVE f[i] = r.invites[i] BY <2>3
  <2>. QED BY <2>1, <2>2, <2>3
<1>3. f \in [Ids -> InviteType] BY <1>2
<1>4. Marked(r, is, state) = WithInvites(r, f) BY DEF Marked, WithInvites
<1>. HIDE DEF f
<1>5. /\ Marked(r, is, state) \in RoomType /\ Marked(r, is, state).seats = r.seats
      /\ Marked(r, is, state).invites = f
  BY <1>3, <1>4, Reinvited
<1>. QED BY <1>2, <1>5 DEF Recorded

LEMMA BriefingsType ==
  ASSUME NEW r \in RoomType, NEW xs, xs \subseteq Slots
  PROVE  Briefings(r, xs) \subseteq [kind : {"common"} \cup Roles, to : SUBSET Peers]
<1>1. \A x \in xs : x[1] \in Peers /\ r.seats[x].role \in Roles
  BY Fields DEF Slots, SeatType
<1>. QED BY <1>1 DEF Briefings, Common

-----------------------------------------------------------------------------
(* Types: one step for each action.                                        *)

LEMMA TypesImplyTypeOK == Types => TypeOK
<1>. SUFFICES ASSUME Types PROVE TypeOK OBVIOUS
<1>1. op.next \in RoomType /\ op.brief \subseteq [kind : {"common"} \cup Roles, to : SUBSET Peers]
  BY DEF Types, OpOK, OpType
<1>2. op.todo \subseteq Ids /\ op.target \in 0..minted BY DEF Types, OpOK, OpType
<1>. QED BY <1>1, <1>2 DEF Types, RoomOK, ClockOK, CoreOK, CacheOK, RestOK, TypeOK

LEMMA TypesInit == Init => Types
<1>. SUFFICES ASSUME Init PROVE Types OBVIOUS
<1>1. OpOK BY IdleType, InitialValues, Constants DEF Init, OpOK, Targeted
<1>2. RoomOK BY InitialValues DEF Init, RoomOK
<1>3. ClockOK BY Constants DEF Init, ClockOK
<1>4. CoreOK BY Constants DEF Init, CoreOK
<1>5. CacheOK BY DEF Init, CacheOK
<1>6. RestOK BY MembershipConstants DEF Init, RestOK
<1>. QED BY <1>1, <1>2, <1>3, <1>4, <1>5, <1>6 DEF Types

(* What a step leaves alone keeps its type, and so does what only grows.   *)
LEMMA Untouched ==
  ASSUME Types
  PROVE  /\ UNCHANGED <<op, minted>> => OpOK'
         /\ UNCHANGED <<room, minted>> => RoomOK'
         /\ UNCHANGED <<clock, outlived>> => ClockOK'
         /\ UNCHANGED core => CoreOK'
         /\ UNCHANGED <<cache, minted>> => CacheOK'
         /\ UNCHANGED <<briefs, watch, budget>> => RestOK'
<1>. USE DEF Types
<1>1. UNCHANGED <<op, minted>> => OpOK' BY DEF OpOK
<1>2. UNCHANGED <<room, minted>> => RoomOK' BY DEF RoomOK, Recorded
<1>3. UNCHANGED <<clock, outlived>> => ClockOK' BY DEF ClockOK
<1>4. UNCHANGED core => CoreOK' BY DEF CoreOK, core
<1>5. UNCHANGED <<cache, minted>> => CacheOK' BY DEF CacheOK, cache
<1>6. UNCHANGED <<briefs, watch, budget>> => RestOK' BY DEF RestOK, watch
<1>. QED BY <1>1, <1>2, <1>3, <1>4, <1>5, <1>6

(* Steps of the SDK and the packet that keep the number of secrets.        *)
LEMMA SpendType == ASSUME RestOK, NEW of \in {"ops", "moves", "errs"}, Spend(of)
                   PROVE  budget' \in [ops : Nat, moves : Nat, errs : Nat]
BY DEF RestOK, Spend

LEMMA RefreshType == ASSUME CoreOK', RefreshCaches PROVE CacheOK'
BY DEF CoreOK, RefreshCaches, CacheOK, contacts

LEMMA IdleOK == ASSUME Types, CoreOK', op' = Idle PROVE OpOK'
BY IdleType DEF OpOK, Targeted, CoreOK

LEMMA AdvanceType ==
  ASSUME NEW o \in OpType
  PROVE  /\ Advance(o) \in OpType /\ Advance(o).pc \in {"orphans", "brief", "save"}
         /\ Advance(o).next = o.next /\ Advance(o).todo = o.todo /\ Advance(o).brief = o.brief
         /\ Advance(o).target = o.target /\ Advance(o).after = o.after
BY DEF Advance, OpType, Steps

LEMMA FollowTypes == ASSUME Types, ReadContacts \/ ReadInvites PROVE Types'
<1>1. OpOK' /\ RoomOK' /\ ClockOK' /\ CoreOK'
  BY Untouched DEF ReadContacts, ReadInvites, file, core
<1>2. CacheOK' BY DEF ReadContacts, ReadInvites, Types, CacheOK, CoreOK, contacts, core
<1>3. RestOK' BY DEF ReadContacts, ReadInvites, Types, RestOK
<1>. QED BY <1>1, <1>2, <1>3 DEF Types

(* The rooms that edits make.                                              *)
LEMMA EditedType ==
  ASSUME NEW r \in RoomType
  PROVE  LET s == [r EXCEPT !.version = @ + 1]
         IN s \in RoomType /\ s.seats = r.seats /\ s.invites = r.invites
<1>. DEFINE v == r.version + 1
<1>1. r.version \in Nat BY Fields
<1>2. v \in Nat BY <1>1
<1>3. [r EXCEPT !.version = @ + 1] = [r EXCEPT !.version = v] OBVIOUS
<1>. HIDE DEF v
<1>4. LET s == [r EXCEPT !.version = v]
      IN s \in RoomType /\ s.seats = r.seats /\ s.invites = r.invites
  BY <1>2 DEF RoomType
<1>. QED BY <1>3, <1>4
LEMMA RoleEditedType ==
  ASSUME NEW r \in RoomType, NEW role \in Roles,
         NEW text \in [version : Nat, text : {""} \cup Texts]
  PROVE  LET s == [r EXCEPT !.roles[role] = text]
         IN s \in RoomType /\ s.seats = r.seats /\ s.invites = r.invites
<1>. DEFINE g == [r.roles EXCEPT ![role] = text]
<1>1. g \in [Roles -> [version : Nat, text : {""} \cup Texts]] BY DEF RoomType
<1>2. [r EXCEPT !.roles[role] = text] = [r EXCEPT !.roles = g] OBVIOUS
<1>. HIDE DEF g
<1>3. LET s == [r EXCEPT !.roles = g]
      IN s \in RoomType /\ s.seats = r.seats /\ s.invites = r.invites
  BY <1>1 DEF RoomType
<1>. QED BY <1>2, <1>3

LEMMA SendType ==
  ASSUME NEW kind \in {"common"} \cup Roles, NEW to \in SUBSET Peers, NEW next \in RoomType,
         Recorded(next) \subseteq 1..minted, Send(kind, to, next), Types, UNCHANGED core
  PROVE  OpOK'
<1>1. {[kind |-> kind, to |-> to]} \subseteq [kind : {"common"} \cup Roles, to : SUBSET Peers] OBVIOUS
<1>2. CASE op' = Idle BY <1>2, IdleOK, Untouched
<1>3. CASE op' = [Idle EXCEPT !.pc = "brief", !.after = "edited", !.next = next,
                              !.brief = {[kind |-> kind, to |-> to]}]
  <2>1. op' \in OpType BY <1>1, <1>3, IdleType DEF OpType, Steps
  <2>2. op'.todo = {} /\ op'.target = 0 /\ op'.pc = "brief" /\ op'.next = next
    BY <1>3 DEF Idle
  <2>3. minted' = minted /\ minted \in Nat BY DEF core, Types, CoreOK
  <2>. QED BY <2>1, <2>2, <2>3 DEF OpOK, Targeted
<1>. QED BY <1>2, <1>3 DEF Send

(* An operation that starts.                                               *)
LEMMA Starts ==
  ASSUME Types, UNCHANGED core, NEW pc \in Steps \ {"pend", "unseat"},
         NEW after \in {"idle", "recover"}, NEW target \in {0} \cup Recorded(room),
         NEW todo \in SUBSET Recorded(room), pc \in Targeted => target # 0,
         op'.pc = pc, op'.after = after, op'.target = target, op'.todo = todo,
         op' = [Idle EXCEPT !.pc = op'.pc, !.after = op'.after, !.target = op'.target,
                            !.todo = op'.todo]
  PROVE  OpOK'
<1>1. Recorded(room) \subseteq 1..minted /\ minted \in Nat /\ minted' = minted /\ minted <= MaxInvites
  BY Constants DEF Types, RoomOK, CoreOK, core
<1>2. target \in 0..MaxInvites /\ todo \in SUBSET Ids BY <1>1, Constants DEF Ids
<1>3. op' \in OpType BY <1>2, IdleType DEF OpType
<1>4. op'.next = NewRoom BY DEF Idle
<1>. QED BY <1>1, <1>3, <1>4, InitialValues DEF OpOK

LEMMA RequestTypes ==
  ASSUME Types, \/ ReconcileRoom \/ RecoverInvites \/ UpdateBriefing
                \/ \E i \in Ids : RevokeInvite(i)
                \/ \E i, j \in Ids : ConfirmRecovered(i, j)
                \/ \E role \in Roles : DeleteRoleBriefing(role)
                \/ \E role \in Roles, text \in Texts : SetRoleBriefing(role, text)
  PROVE Types'
<1>1. UNCHANGED <<core, cache, clock, outlived, briefs, watch>> /\ Spend("ops")
  BY DEF ReconcileRoom, RecoverInvites, UpdateBriefing, RevokeInvite, ConfirmRecovered,
     DeleteRoleBriefing, SetRoleBriefing, file, Request
<1>2. ClockOK' /\ CoreOK' /\ CacheOK' BY <1>1, Untouched DEF core
<1>3. RestOK' BY <1>1, SpendType DEF Types, RestOK, watch
<1>4. OpOK' /\ RoomOK'
  <2>1. CASE ReconcileRoom
    <3>1. RoomOK' BY <1>1, <2>1, Untouched DEF ReconcileRoom, file, core
    <3>2. /\ op'.pc = "look" /\ op'.after = "idle" /\ op'.target = 0 /\ op'.todo = {}
          /\ op' = [Idle EXCEPT !.pc = op'.pc, !.after = op'.after, !.target = op'.target,
                                !.todo = op'.todo]
      BY <2>1 DEF ReconcileRoom, Idle
    <3>. QED BY <1>1, <3>1, <3>2, Starts DEF Steps, Targeted
  <2>2. CASE RecoverInvites
    <3>1. RoomOK' BY <1>1, <2>2, Untouched DEF RecoverInvites, file, core
    <3>2. /\ op'.pc = "look" /\ op'.after = "recover" /\ op'.target = 0 /\ op'.todo = {}
          /\ op' = [Idle EXCEPT !.pc = op'.pc, !.after = op'.after, !.target = op'.target,
                                !.todo = op'.todo]
      BY <2>2 DEF RecoverInvites, Idle
    <3>. QED BY <1>1, <3>1, <3>2, Starts DEF Steps, Targeted
  <2>3. CASE UpdateBriefing
    <3>1. room' \in RoomType /\ Recorded(room)' = Recorded(room)
      BY <2>3, EditedType DEF UpdateBriefing, Recorded, Types, RoomOK
    <3>2. {x[1] : x \in Active(room)} \in SUBSET Peers BY DEF Active, SeatsIn, Slots
    <3>3. RoomOK' /\ Recorded(room') \subseteq 1..minted
      BY <1>1, <3>1 DEF RoomOK, Types, core, Recorded
    <3>. QED BY <1>1, <2>3, <3>1, <3>2, <3>3, SendType DEF UpdateBriefing
  <2>4. ASSUME NEW i \in Ids, RevokeInvite(i) PROVE OpOK' /\ RoomOK'
    <3>1. i \in Recorded(room) /\ WithReplacement(i) \subseteq Recorded(room)
      BY <2>4 DEF RevokeInvite, WithReplacement, Replacing, InState, Recorded
    <3>2. RoomOK' BY <1>1, <2>4, Untouched DEF RevokeInvite, file, core
    <3>3. /\ op'.pc = "revoking" /\ op'.after = "idle" /\ op'.target = i
          /\ op'.todo = WithReplacement(i)
          /\ op' = [Idle EXCEPT !.pc = op'.pc, !.after = op'.after, !.target = op'.target,
                                !.todo = op'.todo]
      BY <2>4 DEF RevokeInvite, Idle
    <3>. QED BY <1>1, <3>1, <3>2, <3>3, Starts DEF Steps, Targeted, Ids
  <2>5. ASSUME NEW i \in Ids, NEW j \in Ids, ConfirmRecovered(i, j) PROVE OpOK' /\ RoomOK'
    <3>1. {i} \subseteq Recorded(room) /\ {j} \subseteq Recorded(room)
      BY <2>5 DEF ConfirmRecovered, Replacing, InState, Recorded
    <3>2. room' \in RoomType /\ Recorded(room') = Recorded(room)
      <4>. DEFINE r == Marked(room, {i}, "revoked")
      <4>1. r \in RoomType /\ Recorded(r) = Recorded(room) \cup {i}
        <5>1. room \in RoomType /\ {i} \subseteq Ids BY DEF Types, RoomOK
        <5>. QED BY <5>1, MarkedType
      <4>2. room' = Marked(r, {j}, "live") BY <2>5 DEF ConfirmRecovered
      <4>. HIDE DEF r
      <4>3. {j} \subseteq Ids OBVIOUS
      <4>4. room' \in RoomType /\ Recorded(room') = Recorded(r) \cup {j}
        BY <4>1, <4>2, <4>3, MarkedType
      <4>. QED BY <3>1, <4>1, <4>4
    <3>3. RoomOK' BY <1>1, <3>2 DEF RoomOK, Types, core
    <3>4. /\ op'.pc = "look" /\ op'.after = "idle" /\ op'.target = 0 /\ op'.todo = {}
          /\ op' = [Idle EXCEPT !.pc = op'.pc, !.after = op'.after, !.target = op'.target,
                                !.todo = op'.todo]
      BY <2>5 DEF ConfirmRecovered, Idle
    <3>. QED BY <1>1, <3>3, <3>4, Starts DEF Steps, Targeted
  <2>6. ASSUME NEW role \in Roles, DeleteRoleBriefing(role) PROVE OpOK' /\ RoomOK'
    <3>1. room' \in RoomType /\ Recorded(room') = Recorded(room)
      BY <2>6, RoleEditedType DEF DeleteRoleBriefing, NoBriefing, Recorded, Types, RoomOK
    <3>. QED BY <1>1, <1>2, <2>6, <3>1, IdleOK DEF DeleteRoleBriefing, Done, RoomOK, Types, core
  <2>7. ASSUME NEW role \in Roles, NEW text \in Texts, SetRoleBriefing(role, text)
        PROVE  OpOK' /\ RoomOK'
    <3>1. [version |-> room.roles[role].version + 1, text |-> text]
            \in [version : Nat, text : {""} \cup Texts]
      <4>1. room \in RoomType BY DEF Types, RoomOK
      <4>2. room.roles[role] \in [version : Nat, text : {""} \cup Texts] BY <4>1, Fields
      <4>. DEFINE v == room.roles[role].version + 1
      <4>3. room.roles[role].version \in Nat BY <4>2
      <4>4. v \in Nat BY <4>3
      <4>. HIDE DEF v
      <4>5. [version |-> v, text |-> text] \in [version : Nat, text : {""} \cup Texts] BY <4>4
      <4>. QED BY <4>5 DEF v
    <3>2. room' \in RoomType /\ Recorded(room') = Recorded(room)
      BY <2>7, <3>1, RoleEditedType DEF SetRoleBriefing, Recorded, Types, RoomOK
    <3>3. {x[1] : x \in {y \in Active(room) : room.seats[y].role = role}} \in SUBSET Peers
      BY DEF Active, SeatsIn, Slots
    <3>4. RoomOK' /\ Recorded(room') \subseteq 1..minted
      BY <1>1, <3>2 DEF RoomOK, Types, core
    <3>. QED BY <1>1, <2>7, <3>2, <3>3, <3>4, SendType DEF SetRoleBriefing
  <2>. QED BY <2>1, <2>2, <2>3, <2>4, <2>5, <2>6, <2>7
<1>. QED BY <1>2, <1>3, <1>4 DEF Types

(* The rooms of a reconciliation: the departures, the admissions, the rest. *)
Left(t) == Removed(room, Departed(room), t)
Entered(t) == Admitted(Left(t))
Reconciled(t) == Activated(Settled(Entered(t)))

LEMMA ReconciledType ==
  ASSUME Types, NEW t \in 0..MaxClock
  PROVE  /\ Left(t) \in RoomType /\ Entered(t) \in RoomType /\ Reconciled(t) \in RoomType
         /\ Recorded(Left(t)) = Recorded(room) /\ Recorded(Reconciled(t)) = Recorded(room)
<1>1. room \in RoomType /\ Departed(room) \subseteq Slots
  BY DEF Types, RoomOK, Departed, Active, SeatsIn
<1>2. Left(t) \in RoomType /\ Recorded(Left(t)) = Recorded(room) BY <1>1, RemovedType DEF Left
<1>3. Entered(t) \in RoomType /\ Recorded(Entered(t)) = Recorded(room)
  BY <1>2, AdmittedType DEF Entered, Types, CoreOK
<1>4. Settled(Entered(t)) \in RoomType /\ Recorded(Settled(Entered(t))) = Recorded(room)
  BY <1>3, SettledType
<1>. QED BY <1>2, <1>3, <1>4, ActivatedType DEF Reconciled

LEMMA ReconcileUnfolded ==
  ASSUME NEW o, NEW t, Reconcile(o, t)
  PROVE  /\ known' = contacts /\ listed' = listed
         /\ \/ UNCHANGED file
            \/ room' = Left(t) /\ Now(t) /\ Remember(Departed(room)) /\ Departed(room) # {}
         /\ Departed(room) # {} => room' = Left(t) /\ Now(t) /\ Remember(Departed(room))
         /\ \E new \in SUBSET Active(Reconciled(t)) :
              op' = Advance([o EXCEPT !.next = Reconciled(t), !.todo = listed \ Recorded(room),
                                      !.brief = Briefings(Reconciled(t), new)])
<1>. DEFINE next == Reconciled(t)
            new == IF next.state = "provisioning" THEN {}
                   ELSE IF Left(t).state = "provisioning" THEN Active(next)
                   ELSE Active(next) \ Active(Left(t))
<1>1. /\ known' = contacts /\ UNCHANGED listed
      /\ IF Departed(room) = {} THEN UNCHANGED file
         ELSE room' = Left(t) /\ Now(t) /\ Remember(Departed(room))
      /\ op' = Advance([o EXCEPT !.next = next, !.todo = listed \ Recorded(room),
                                 !.brief = Briefings(next, new)])
  BY DEF Reconcile, Left, Entered, Reconciled
<1>2. new \in SUBSET Active(next) OBVIOUS
<1>. HIDE DEF new, next
<1>. QED BY <1>1, <1>2 DEF next

LEMMA ReconcileTypes ==
  ASSUME Types, NEW t \in 0..MaxClock, NEW o \in OpType, o.target \in 0..minted, Reconcile(o, t),
         UNCHANGED core
  PROVE  OpOK' /\ RoomOK' /\ ClockOK' /\ CacheOK'
<1>1. minted \in 0..MaxInvites /\ minted' = minted BY DEF core, Types, CoreOK
<1>2. PICK new \in SUBSET Active(Reconciled(t)) :
        op' = Advance([o EXCEPT !.next = Reconciled(t), !.todo = listed \ Recorded(room),
                                !.brief = Briefings(Reconciled(t), new)])
  BY ReconcileUnfolded
<1>. DEFINE b == Briefings(Reconciled(t), new)
            todo == listed \ Recorded(room)
            p == [o EXCEPT !.next = Reconciled(t), !.todo = todo, !.brief = b]
<1>3. Reconciled(t) \in RoomType /\ Recorded(Reconciled(t)) \subseteq 1..minted
  BY ReconciledType DEF Types, RoomOK
<1>4. b \subseteq [kind : {"common"} \cup Roles, to : SUBSET Peers]
  BY <1>3, BriefingsType DEF Active, SeatsIn
<1>5. todo \subseteq 1..minted /\ todo \subseteq Ids
  <2>1. todo \subseteq 1..minted BY DEF Types, CacheOK
  <2>2. 1..minted \subseteq Ids BY <1>1, Constants DEF Ids
  <2>. QED BY <2>1, <2>2
<1>. HIDE DEF b, todo
<1>6. /\ p \in OpType /\ p.target = o.target /\ p.todo = todo /\ p.next = Reconciled(t)
  BY <1>3, <1>4, <1>5 DEF OpType
<1>7. op' = Advance(p) BY <1>2 DEF b, todo
<1>. HIDE DEF p
<1>8. OpOK' BY <1>1, <1>3, <1>5, <1>6, <1>7, AdvanceType DEF OpOK, Targeted
<1>9. RoomOK' /\ ClockOK'
  <2>1. CASE UNCHANGED file BY <1>1, <2>1, Untouched DEF file
  <2>2. CASE room' = Left(t) /\ Now(t) /\ Remember(Departed(room))
    <3>1. RoomOK' BY <1>1, <2>2, ReconciledType DEF Types, RoomOK, Recorded
    <3>2. outlived' \subseteq Peers \X Ids
      BY <2>2 DEF Remember, Departed, Active, SeatsIn, Slots, Recorded, Types, ClockOK
    <3>. QED BY <2>2, <3>1, <3>2 DEF Now, ClockOK
  <2>. QED BY <2>1, <2>2, ReconcileUnfolded
<1>10. CacheOK' BY <1>1, ReconcileUnfolded DEF Types, CacheOK, contacts
<1>. QED BY <1>8, <1>9, <1>10

LEMMA PassTypes ==
  ASSUME Types, NEW t \in 0..MaxClock, Look(t) \/ Announce(t) PROVE Types'
<1>1. UNCHANGED core /\ CoreOK' BY Untouched DEF Look, Announce
<1>2. OpOK' /\ RoomOK' /\ ClockOK' /\ CacheOK'
  <2>1. op \in OpType /\ op.target \in 0..minted BY DEF Types, OpOK
  <2>2. Idle \in OpType /\ Idle.target \in 0..minted BY IdleType, Constants DEF Types, CoreOK
  <2>. QED BY <1>1, <2>1, <2>2, ReconcileTypes DEF Look, Announce
<1>3. RestOK' BY DEF Look, Announce, watch, Types, RestOK
<1>. QED BY <1>1, <1>2, <1>3 DEF Types

(* Steps in the SDK, and those that end or abandon an operation.           *)
LEMMA EnvironmentTypes ==
  ASSUME Types, \/ \E p \in Peers, i \in Ids : Join(p, i) \/ LoseSecret(i)
                \/ \E p \in Peers : Establish(p) \/ Leave(p)
                \/ RecordFails \/ Throws \/ Crash
  PROVE  Types'
<1>1. ASSUME NEW p \in Peers, NEW i, Join(p, i) \/ LoseSecret(i) \/ Establish(p) \/ Leave(p)
      PROVE Types'
  <2>1. UNCHANGED <<file, cache, briefs, op, follower, minted>> /\ Spend("moves") /\ news' = TRUE
    BY <1>1 DEF Join, LoseSecret, Establish, Leave, Move
  <2>2. OpOK' /\ RoomOK' /\ ClockOK' /\ CacheOK' BY <2>1, Untouched DEF file
  <2>3. RestOK' BY <2>1, SpendType DEF Types, RestOK
  <2>4. CoreOK'
    <3>1. CASE Join(p, i)
      <4>1. i \in Ids BY <3>1, Constants DEF Join, Types, CoreOK, Ids
      <4>2. via' = [via EXCEPT ![p] = i] /\ secrets' \subseteq secrets /\ redeemed' \subseteq redeemed
        BY <3>1 DEF Join
      <4>. QED BY <2>1, <4>1, <4>2 DEF Types, CoreOK
    <3>2. CASE LoseSecret(i) BY <2>1, <3>2 DEF LoseSecret, Types, CoreOK
    <3>3. CASE Establish(p) BY <2>1, <3>3 DEF Establish, Types, CoreOK
    <3>4. CASE Leave(p) BY <2>1, <3>4 DEF Leave, Types, CoreOK
    <3>. QED BY <1>1, <3>1, <3>2, <3>3, <3>4
  <2>. QED BY <2>2, <2>3, <2>4 DEF Types
<1>2. CASE RecordFails
  <2>1. /\ UNCHANGED <<file, briefs, follower, via, minted, redeemed>> /\ Spend("errs") /\ news' = TRUE
        /\ secrets' \subseteq secrets /\ RefreshCaches /\ op' = Idle
    BY <1>2 DEF RecordFails, Done
  <2>2. CoreOK' BY <2>1 DEF Types, CoreOK
  <2>3. OpOK' /\ CacheOK' BY <2>1, <2>2, IdleOK, RefreshType
  <2>4. RoomOK' /\ ClockOK' BY <2>1, Untouched DEF file
  <2>5. RestOK' BY <2>1, SpendType DEF Types, RestOK
  <2>. QED BY <2>2, <2>3, <2>4, <2>5 DEF Types
<1>3. CASE Throws
  <2>1. UNCHANGED <<file, core, cache, briefs>> /\ Spend("errs") /\ op' = Idle
    BY <1>3 DEF Throws, Done
  <2>2. RoomOK' /\ ClockOK' /\ CoreOK' /\ CacheOK' BY <2>1, Untouched DEF file, core
  <2>3. OpOK' BY <2>1, <2>2, IdleOK
  <2>4. follower' \in {"waiting", "listing", "due", "running"} /\ news' \in BOOLEAN
    BY <1>3 DEF Throws, watch, Types, RestOK
  <2>5. RestOK' BY <2>1, <2>4, SpendType DEF Types, RestOK
  <2>. QED BY <2>2, <2>3, <2>5 DEF Types
<1>4. CASE Crash
  <2>1. /\ UNCHANGED <<file, core, briefs>> /\ Spend("errs") /\ op' = Idle /\ RefreshCaches
        /\ follower' = "waiting" /\ news' = TRUE
    BY <1>4 DEF Crash, Done
  <2>2. RoomOK' /\ ClockOK' /\ CoreOK' BY <2>1, Untouched DEF file, core
  <2>3. OpOK' /\ CacheOK' BY <2>1, <2>2, IdleOK, RefreshType
  <2>4. RestOK' BY <2>1, SpendType DEF Types, RestOK
  <2>. QED BY <2>2, <2>3, <2>4 DEF Types
<1>. QED BY <1>1, <1>2, <1>3, <1>4

(* A step of the operation that leaves the SDK alone, and one that does not. *)
LEMMA Goes ==
  ASSUME Types, CoreOK', minted' \in Nat, minted <= minted', op' \in OpType, op'.next = op.next,
         op'.todo \subseteq op.todo, op'.target \in {op.target} \cup (1..minted'),
         op'.pc \in Targeted => op'.target # 0,
         op'.pc \notin {"pend", "unseat"}
  PROVE  OpOK'
<1>1. minted \in Nat /\ op.target \in 0..minted BY DEF Types, CoreOK, OpOK
<1>2. op.todo \subseteq 1..minted /\ Recorded(op.next) \subseteq 1..minted BY DEF Types, OpOK
<1>3. op'.todo \subseteq 1..minted' /\ Recorded(op'.next) \subseteq 1..minted'
  <2>1. 1..minted \subseteq 1..minted' BY <1>1
  <2>. QED BY <1>2, <2>1
<1>4. op'.target \in 0..minted' BY <1>1
<1>. QED BY <1>3, <1>4 DEF OpOK

LEMMA ContinueTypes ==
  ASSUME Types, \/ \E i \in Ids : RevokeSecret(i) \/ Rotate(i)
                \/ \E b \in op.brief : Brief(b)
                \/ Save \/ SaveRevoked \/ SaveRotated \/ Recovered
  PROVE  Types'
<1>. USE DEF At
<1>1. op \in OpType /\ minted \in Nat /\ (op.pc \in Targeted => op.target # 0)
  BY DEF Types, OpOK, CoreOK
<1>2. ASSUME NEW i \in Ids, RevokeSecret(i) PROVE Types'
  <2>1. /\ UNCHANGED <<file, briefs, follower, budget, via, minted, redeemed>> /\ RefreshCaches
        /\ secrets' \subseteq secrets /\ news' = TRUE
    BY <1>2 DEF RevokeSecret
  <2>2. CoreOK' BY <2>1 DEF Types, CoreOK
  <2>3. CacheOK' BY <2>1, <2>2, RefreshType
  <2>4. RoomOK' /\ ClockOK' BY <2>1, Untouched DEF file
  <2>5. RestOK' BY <2>1 DEF Types, RestOK
  <2>6. OpOK'
    <3>. DEFINE o == [op EXCEPT !.todo = @ \ {i}]
    <3>1. /\ o \in OpType /\ o.next = op.next /\ o.todo \subseteq op.todo /\ o.target = op.target
          /\ o.pc = op.pc
      BY <1>1 DEF OpType
    <3>2. CASE op.pc = "orphans"
      <4>1. op' = Advance(o) BY <1>2, <3>2 DEF RevokeSecret
      <4>. HIDE DEF o
      <4>2. op' \in OpType /\ op'.next = op.next /\ op'.todo \subseteq op.todo
            /\ op'.target = op.target /\ op'.pc \in {"orphans", "brief", "save"}
        BY <3>1, <4>1, AdvanceType
      <4>. QED BY <1>1, <2>1, <2>2, <4>2, Goes DEF Targeted
    <3>3. CASE op.pc = "revoking"
      <4>1. op' = [o EXCEPT !.pc = IF o.todo = {} THEN "revoked" ELSE @]
        BY <1>2, <3>3 DEF RevokeSecret
      <4>. HIDE DEF o
      <4>2. op' \in OpType /\ op'.next = op.next /\ op'.todo \subseteq op.todo
            /\ op'.target = op.target /\ op'.pc \in {"revoking", "revoked"}
        BY <3>1, <3>3, <4>1 DEF OpType, Steps
      <4>. QED BY <1>1, <2>1, <2>2, <3>3, <4>2, Goes DEF Targeted
    <3>. QED BY <1>2, <3>2, <3>3 DEF RevokeSecret
  <2>. QED BY <2>2, <2>3, <2>4, <2>5, <2>6 DEF Types
<1>3. ASSUME NEW i \in Ids, Rotate(i) PROVE Types'
  <2>1. /\ UNCHANGED <<file, briefs, follower, budget, via, minted, redeemed>>
        /\ secrets' \subseteq secrets /\ news' \in {news, TRUE} /\ i \in op.todo
        /\ \E pc \in {"replace", "rotated"} : op' = [op EXCEPT !.pc = pc, !.target = i]
        /\ UNCHANGED cache \/ RefreshCaches
    BY <1>1, <1>3 DEF Rotate, OpType
  <2>2. CoreOK' BY <2>1 DEF Types, CoreOK
  <2>3. CacheOK' BY <2>1, <2>2, RefreshType, Untouched
  <2>4. RoomOK' /\ ClockOK' BY <2>1, Untouched DEF file
  <2>5. RestOK' BY <2>1 DEF Types, RestOK
  <2>6. i \in 1..minted BY <2>1 DEF Types, OpOK
  <2>7. /\ op' \in OpType /\ op'.next = op.next /\ op'.todo = op.todo /\ op'.target = i
        /\ op'.pc \in {"replace", "rotated"}
    <3>1. PICK pc \in {"replace", "rotated"} : op' = [op EXCEPT !.pc = pc, !.target = i] BY <2>1
    <3>2. pc \in Steps /\ i \in 0..MaxInvites BY Constants DEF Steps, Ids
    <3>. QED BY <1>1, <3>1, <3>2 DEF OpType
  <2>8. OpOK' BY <1>1, <2>1, <2>2, <2>6, <2>7, Goes
  <2>. QED BY <2>2, <2>3, <2>4, <2>5, <2>8 DEF Types
<1>4. ASSUME NEW b \in op.brief, Brief(b) PROVE Types'
  <2>1. UNCHANGED <<file, core, cache, watch, budget>> BY <1>4 DEF Brief
  <2>2. RoomOK' /\ ClockOK' /\ CoreOK' /\ CacheOK' BY <2>1, Untouched DEF file, core
  <2>3. b \in [kind : {"common"} \cup Roles, to : SUBSET Peers] BY <1>1 DEF OpType
  <2>4. RestOK'
    <3>1. PICK v, to :
            to \subseteq b.to /\ briefs' = briefs \cup {[to |-> p, kind |-> b.kind, version |-> v.version, text |-> v.text] :
                                     p \in to}
      <4>. DEFINE v == IF b.kind = "common" THEN [version |-> op.next.version, text |-> ""]
                       ELSE op.next.roles[b.kind]
                  to == {q \in b.to : ~\E c \in briefs : c.to = q /\ c.kind = b.kind
                                                          /\ c.version = v.version}
      <4>1. briefs' = briefs \cup {[to |-> p, kind |-> b.kind, version |-> v.version,
                                    text |-> v.text] : p \in to}
        BY <1>4 DEF Brief
      <4>2. to \subseteq b.to OBVIOUS
      <4>. HIDE DEF v, to
      <4>. QED BY <4>1, <4>2
    <3>2. \A c \in briefs' : c.to \in Peers /\ c.kind \in {"common"} \cup Roles
      BY <2>3, <3>1 DEF Types, RestOK
    <3>. QED BY <2>1, <3>2 DEF Types, RestOK, watch
  <2>5. OpOK'
    <3>. DEFINE o == [op EXCEPT !.brief = @ \ {b}]
    <3>1. /\ o \in OpType /\ o.next = op.next /\ o.todo = op.todo /\ o.target = op.target
          /\ o.pc = "brief"
      BY <1>1, <1>4 DEF Brief, OpType
    <3>2. op' = o \/ op' = Idle \/ op' = Advance(o) BY <1>4 DEF Brief
    <3>. HIDE DEF o
    <3>3. CASE op' = Idle BY <2>2, <3>3, IdleOK
    <3>4. CASE op' = o BY <1>1, <2>1, <2>2, <3>1, <3>4, Goes DEF core, Targeted
    <3>5. CASE op' = Advance(o)
      <4>1. op' \in OpType /\ op'.next = op.next /\ op'.todo = op.todo
            /\ op'.target = op.target /\ op'.pc \in {"orphans", "brief", "save"}
        BY <3>1, <3>5, AdvanceType
      <4>. QED BY <1>1, <2>1, <2>2, <4>1, Goes DEF core, Targeted
    <3>. QED BY <3>2, <3>3, <3>4, <3>5
  <2>. QED BY <2>2, <2>4, <2>5 DEF Types
<1>5. CASE Save
  <2>1. UNCHANGED <<clock, outlived, core, cache, briefs, news, budget>> /\ room' = op.next
    BY <1>5 DEF Save
  <2>2. ClockOK' /\ CoreOK' /\ CacheOK' BY <2>1, Untouched DEF core
  <2>3. RoomOK' BY <1>1, <2>1 DEF Types, OpOK, OpType, RoomOK, core, Recorded
  <2>4. RestOK' BY <1>5 DEF Save, Types, RestOK
  <2>5. OpOK'
    <3>1. CASE op' = Idle BY <2>2, <3>1, IdleOK
    <3>2. CASE op' = [Idle EXCEPT !.pc = "rotate", !.todo = InState(room', "replacement_required")]
      <4>. DEFINE todo == InState(room', "replacement_required")
      <4>1. todo \subseteq Recorded(room') /\ todo \subseteq Ids BY DEF InState, Recorded
      <4>2. todo \subseteq 1..minted' BY <2>3, <4>1 DEF RoomOK, Recorded
      <4>. HIDE DEF todo
      <4>3. op' = [Idle EXCEPT !.pc = "rotate", !.todo = todo] BY <3>2 DEF todo
      <4>4. op' \in OpType BY <4>1, <4>3, IdleType DEF OpType, Steps
      <4>5. op'.todo = todo /\ op'.target = 0 /\ op'.pc = "rotate" /\ op'.next = NewRoom
        BY <4>3 DEF Idle
      <4>. QED BY <1>1, <2>1, <4>2, <4>4, <4>5, InitialValues DEF OpOK, Targeted, core
    <3>. QED BY <1>5, <3>1, <3>2 DEF Save
  <2>. QED BY <2>2, <2>3, <2>4, <2>5 DEF Types
<1>6. CASE SaveRevoked \/ SaveRotated
  <2>1. UNCHANGED <<clock, outlived, core, cache, briefs, watch, budget>>
    BY <1>6 DEF SaveRevoked, SaveRotated
  <2>2. ClockOK' /\ CoreOK' /\ CacheOK' /\ RestOK' BY <2>1, Untouched DEF core
  <2>3. RoomOK'
    <3>1. op.target # 0 /\ op.target \in 0..minted
      BY <1>6 DEF SaveRevoked, SaveRotated, Types, OpOK, Targeted
    <3>2. ASSUME NEW is, is \subseteq 1..minted, room' = Marked(room, is, "revoked") PROVE RoomOK'
      <4>1. is \subseteq Ids BY <3>2, Constants DEF Ids, Types, CoreOK
      <4>. QED BY <2>1, <3>2, <4>1, MarkedType DEF Types, RoomOK, core, Recorded
    <3>3. Replacing(room, op.target) \subseteq 1..minted
      BY DEF Replacing, InState, Recorded, Types, RoomOK
    <3>4. CASE SaveRotated BY <3>2, <3>3, <3>4 DEF SaveRotated
    <3>5. CASE SaveRevoked
      <4>1. WithReplacement(op.target) \subseteq 1..minted BY <3>1, <3>3 DEF WithReplacement
      <4>. QED BY <3>2, <3>5, <4>1 DEF SaveRevoked
    <3>. QED BY <1>6, <3>4, <3>5
  <2>4. OpOK'
    <3>1. CASE SaveRevoked BY <2>2, <3>1, IdleOK DEF SaveRevoked, Done
    <3>2. CASE SaveRotated
      <4>1. /\ op' \in OpType /\ op'.next = op.next /\ op'.todo = op.todo /\ op'.target = op.target
            /\ op'.pc = "replace" /\ op.pc = "rotated"
        BY <1>1, <3>2 DEF SaveRotated, OpType, Steps
      <4>. QED BY <1>1, <2>1, <2>2, <4>1, Goes DEF core, Targeted
    <3>. QED BY <1>6, <3>1, <3>2
  <2>. QED BY <2>2, <2>3, <2>4 DEF Types
<1>7. CASE Recovered
  <2>1. UNCHANGED <<file, core, cache, briefs, watch, budget>> /\ op' = Idle
    BY <1>7 DEF Recovered, Done
  <2>2. RoomOK' /\ ClockOK' /\ CoreOK' /\ CacheOK' /\ RestOK' BY <2>1, Untouched DEF file, core
  <2>. QED BY <2>1, <2>2, IdleOK DEF Types
<1>. QED BY <1>2, <1>3, <1>4, <1>5, <1>6, <1>7

(* Steps that add an invite.  Only these generate secrets.                 *)
LEMMA Generated ==
  ASSUME Types, Generate
  PROVE  /\ minted \in Nat /\ minted' = minted + 1
         /\ minted' \in 0..MaxInvites /\ minted' \in 1..minted' /\ minted' # 0
         /\ 1..minted \subseteq 1..minted' /\ news' = TRUE
         /\ UNCHANGED room => RoomOK'
<1>1. /\ minted \in Nat /\ minted' = minted + 1 /\ news' = TRUE
      /\ minted' \in 0..MaxInvites /\ minted' \in 1..minted' /\ minted' # 0
  BY Constants DEF Generate, Types, CoreOK
<1>2. 1..minted \subseteq 1..minted' BY <1>1
<1>3. UNCHANGED room => RoomOK' BY <1>2 DEF Types, RoomOK, Recorded
<1>. QED BY <1>1, <1>2, <1>3

LEMMA GenerateTypes ==
  ASSUME Types, Replace \/ \E o \in Offers : CreateInvite(o)
  PROVE  Types'
<1>1. /\ UNCHANGED <<file, briefs, follower, via, redeemed>> /\ Generate /\ RefreshCaches
      /\ secrets' \subseteq secrets \cup {minted'}
      /\ UNCHANGED budget \/ Spend("ops")
  BY DEF Replace, CreateInvite, Request
<1>2. /\ minted \in Nat /\ minted' = minted + 1
      /\ minted' \in 0..MaxInvites /\ minted' \in 1..minted' /\ minted' # 0
      /\ 1..minted \subseteq 1..minted' /\ news' = TRUE /\ RoomOK'
  BY <1>1, Generated DEF file
<1>3. CoreOK'
  <2>1. secrets \subseteq 1..minted BY DEF Types, CoreOK
  <2>2. secrets' \subseteq 1..minted' BY <1>1, <1>2, <2>1
  <2>. QED BY <1>1, <1>2, <2>2 DEF Types, CoreOK
<1>4. ClockOK' /\ CacheOK' BY <1>1, <1>3, RefreshType, Untouched DEF file
<1>5. RestOK' BY <1>1, <1>2, SpendType DEF Types, RestOK
<1>6. OpOK'
  <2>1. ASSUME NEW o \in Offers, CreateInvite(o) PROVE OpOK'
    <3>. DEFINE v == [NoInvite EXCEPT !.state = "live", !.mode = o.mode, !.role = o.role,
                                      !.min = o.min]
    <3>1. v \in InviteType
      BY InitialValues, MembershipConstants DEF InviteType
    <3>2. PICK m \in 0..MaxInvites :
            m = minted' /\ op' = [Idle EXCEPT !.pc = "record", !.target = m, !.offer = v]
      BY <1>2, <2>1 DEF CreateInvite
    <3>. HIDE DEF v
    <3>3. op' \in OpType /\ op'.target = m /\ op'.todo = {} /\ op'.pc = "record"
      BY <3>1, <3>2, IdleType DEF OpType, Steps
    <3>4. Recorded(op'.next) = {} BY <3>2, IdleType DEF Idle
    <3>. QED BY <1>2, <3>2, <3>3, <3>4 DEF OpOK
  <2>2. ASSUME Replace PROVE OpOK'
    <3>. DEFINE w == room.invites[op.target]
                v == [w EXCEPT !.state = "receipt_pending", !.of = op.target, !.accepted = {}]
    <3>1. op \in OpType /\ op.target \in Ids
      BY <2>2, Constants DEF Replace, At, Types, OpOK, Targeted, CoreOK, Ids
    <3>2. w \in InviteType BY <3>1, Fields DEF Types, RoomOK
    <3>3. PICK m \in 0..MaxInvites :
            m = minted' /\ op' = [op EXCEPT !.pc = "replaced", !.target = m, !.offer = v]
      BY <1>2, <2>2 DEF Replace
    <3>. HIDE DEF w
    <3>4. v \in InviteType BY <3>1, <3>2 DEF InviteType
    <3>. HIDE DEF v
    <3>5. /\ op' \in OpType /\ op'.target = m /\ op'.todo = op.todo /\ op'.pc = "replaced"
          /\ op'.next = op.next
      BY <3>1, <3>3, <3>4 DEF OpType, Steps
    <3>. QED BY <1>2, <1>3, <3>3, <3>5, Goes DEF Targeted
  <2>. QED BY <2>1, <2>2
<1>. QED BY <1>2, <1>3, <1>4, <1>5, <1>6 DEF Types

LEMMA RecordTypes ==
  ASSUME Types, NEW t \in 0..MaxClock, Record(t)
  PROVE  Types'
<1>1. UNCHANGED <<outlived, core, cache, briefs, watch, budget>> /\ clock' \in 0..MaxClock
  BY DEF Record, Now
<1>2. CoreOK' /\ CacheOK' /\ RestOK' /\ ClockOK'
  BY <1>1, Untouched DEF core, Types, ClockOK
<1>3. /\ op \in OpType /\ op.target \in 1..minted /\ op.target \in Ids /\ minted' = minted
      /\ minted \in Nat
  BY Constants DEF Record, Types, OpOK, Targeted, CoreOK, core, Ids
<1>4. RoomOK'
  <2>. DEFINE v == [op.offer EXCEPT !.created = t]
              f == [room.invites EXCEPT ![op.target] = v]
  <2>1. v \in InviteType BY <1>3 DEF OpType, InviteType
  <2>2. room \in RoomType /\ room.invites \in [Ids -> InviteType] BY Fields DEF Types, RoomOK
  <2>3. room' = WithInvites(room, f) BY DEF Record, WithInvites
  <2>. HIDE DEF v
  <2>4. f \in [Ids -> InviteType] BY <2>1, <2>2
  <2>5. \A i \in Ids : i # op.target => f[i] = room.invites[i] BY <2>2
  <2>. HIDE DEF f
  <2>6. room' \in RoomType /\ room'.invites = f BY <2>2, <2>3, <2>4, Reinvited
  <2>7. Recorded(room)' \subseteq Recorded(room) \cup {op.target} BY <2>5, <2>6 DEF Recorded
  <2>. QED BY <1>3, <2>6, <2>7 DEF RoomOK, Types
<1>5. OpOK'
  <2>1. CASE op' = Idle BY <1>2, <2>1, IdleOK
  <2>2. CASE op' = [op EXCEPT !.pc = "rotate", !.todo = @ \ {op.offer.of}]
    <3>1. /\ op' \in OpType /\ op'.next = op.next /\ op'.todo \subseteq op.todo
          /\ op'.target = op.target /\ op'.pc = "rotate"
      BY <1>3, <2>2 DEF OpType, Steps
    <3>. QED BY <1>2, <1>3, <3>1, Goes DEF Targeted
  <2>. QED BY <2>1, <2>2 DEF Record
<1>. QED BY <1>2, <1>4, <1>5 DEF Types

(* Steps that concern a seat.                                              *)
LEMMA SeatTypes ==
  ASSUME Types, \/ \E p \in Peers, role \in Roles : AcceptExternal(p, role)
                \/ \E x \in Slots : RemoveContact(x)
                \/ \E t \in 0..MaxClock : Unseat(t)
                \/ SavePending
  PROVE  Types'
<1>1. ASSUME NEW p \in Peers, NEW role \in Roles, AcceptExternal(p, role) PROVE Types'
  <2>1. /\ UNCHANGED <<file, briefs, follower, via, secrets, minted>> /\ Spend("ops")
        /\ RefreshCaches /\ news' = TRUE /\ redeemed' \subseteq redeemed \cup {p}
    BY <1>1 DEF AcceptExternal, Request
  <2>2. CoreOK' BY <2>1 DEF Types, CoreOK
  <2>3. CacheOK' /\ RoomOK' /\ ClockOK' BY <2>1, <2>2, RefreshType, Untouched DEF file
  <2>4. RestOK' BY <2>1, SpendType DEF Types, RestOK
  <2>5. OpOK'
    <3>1. CASE op' = Idle BY <2>2, <3>1, IdleOK
    <3>2. CASE op' = [Idle EXCEPT !.pc = "pend", !.seat = NextSlot(room, p), !.offer.role = role]
      <4>. DEFINE v == [NoInvite EXCEPT !.role = role]
      <4>1. v \in InviteType BY InitialValues DEF InviteType
      <4>2. op' = [Idle EXCEPT !.pc = "pend", !.seat = NextSlot(room, p), !.offer = v]
        BY <3>2 DEF Idle
      <4>3. NextSlot(room, p) \in Slots BY <1>1 DEF AcceptExternal
      <4>. HIDE DEF v
      <4>4. /\ op' \in OpType /\ op'.target = 0 /\ op'.todo = {} /\ op'.pc = "pend"
            /\ op'.seat \in Slots /\ op'.next = Idle.next
        BY <4>1, <4>2, <4>3, IdleType DEF OpType, Steps
      <4>. QED BY <2>2, <4>4, IdleType DEF OpOK, Targeted, CoreOK
    <3>. QED BY <1>1, <3>1, <3>2 DEF AcceptExternal
  <2>. QED BY <2>2, <2>3, <2>4, <2>5 DEF Types
<1>2. ASSUME NEW x \in Slots, RemoveContact(x) PROVE Types'
  <2>1. /\ UNCHANGED <<file, briefs, follower, listed, secrets, minted, redeemed>> /\ Spend("ops")
        /\ via' \in {via, [via EXCEPT ![x[1]] = Absent]}
        /\ known' \subseteq known /\ news' \in BOOLEAN
    BY <1>2 DEF RemoveContact, Request, core, Types, RestOK
  <2>2. CoreOK' BY <2>1 DEF Types, CoreOK
  <2>3. CacheOK' /\ RoomOK' /\ ClockOK' BY <2>1, Untouched DEF file, Types, CacheOK
  <2>4. RestOK' BY <2>1, SpendType DEF Types, RestOK
  <2>5. OpOK'
    <3>1. CASE op' = Idle BY <2>2, <3>1, IdleOK
    <3>2. CASE op' = [Idle EXCEPT !.pc = "unseat", !.seat = x]
      <4>1. /\ op' \in OpType /\ op'.target = 0 /\ op'.todo = {} /\ op'.pc = "unseat"
            /\ op'.seat \in Slots /\ op'.next = Idle.next
        BY <3>2, IdleType DEF OpType, Steps
      <4>. QED BY <2>2, <4>1, IdleType DEF OpOK, Targeted, CoreOK
    <3>. QED BY <1>2, <3>1, <3>2 DEF RemoveContact
  <2>. QED BY <2>2, <2>3, <2>4, <2>5 DEF Types
<1>3. ASSUME NEW t \in 0..MaxClock, Unseat(t) PROVE Types'
  <2>1. /\ UNCHANGED <<core, cache, briefs, watch, budget>> /\ op' = Idle /\ clock' \in 0..MaxClock
        /\ room' = Removed(room, {op.seat}, t) /\ op.seat \in Slots
        /\ outlived' = outlived \cup {<<y[1], i>> : y \in {op.seat}, i \in Recorded(room)}
    BY <1>3 DEF Unseat, Done, Now, Remember, At, Types, OpOK
  <2>2. CoreOK' /\ CacheOK' /\ RestOK' BY <2>1, Untouched DEF core
  <2>3. RoomOK'
    <3>1. room \in RoomType /\ Recorded(room) \subseteq 1..minted /\ {op.seat} \subseteq Slots
      BY <2>1 DEF Types, RoomOK
    <3>2. room' \in RoomType /\ Recorded(room') = Recorded(room) BY <2>1, <3>1, RemovedType
    <3>. QED BY <2>1, <3>1, <3>2 DEF RoomOK, core
  <2>4. ClockOK' BY <2>1 DEF Types, ClockOK, Slots, Recorded
  <2>. QED BY <2>1, <2>2, <2>3, <2>4, IdleOK DEF Types
<1>4. CASE SavePending
  <2>1. /\ UNCHANGED <<clock, outlived, core, cache, briefs, watch, budget>> /\ op.seat \in Slots
        /\ room' = [room EXCEPT !.seats[op.seat] = Seat("pending", External, op.offer.role)]
    BY <1>4 DEF SavePending, At, Types, OpOK
  <2>2. CoreOK' /\ CacheOK' /\ RestOK' /\ ClockOK' BY <2>1, Untouched DEF core
  <2>3. RoomOK'
    <3>. DEFINE s == Seat("pending", External, op.offer.role)
                f == [room.seats EXCEPT ![op.seat] = s]
    <3>1. s \in SeatType
      BY Constants DEF Types, OpOK, OpType, InviteType, Seat, SeatType, External
    <3>2. room \in RoomType /\ room.seats \in [Slots -> SeatType] /\ room.epoch \in Nat
      BY Fields DEF Types, RoomOK
    <3>3. room' = WithSeats(room, f, room.epoch) BY <2>1, <3>2 DEF WithSeats, RoomType
    <3>. HIDE DEF s
    <3>4. f \in [Slots -> SeatType] BY <3>1, <3>2
    <3>. HIDE DEF f
    <3>5. room' \in RoomType /\ room'.invites = room.invites BY <3>2, <3>3, <3>4, Reseated
    <3>. QED BY <2>1, <3>5 DEF Types, RoomOK, Recorded, core
  <2>4. OpOK'
    <3>1. /\ op' \in OpType /\ op'.target = 0 /\ op'.todo = {} /\ op'.pc = "look"
          /\ op'.next = Idle.next
      BY <1>4, IdleType DEF SavePending, OpType, Steps
    <3>. QED BY <2>2, <3>1, IdleType DEF OpOK, Targeted, CoreOK
  <2>. QED BY <2>2, <2>3, <2>4 DEF Types
<1>. QED BY <1>1, <1>2, <1>3, <1>4

LEMMA TypesStep == Types /\ [Next]_vars => Types'
<1>. SUFFICES ASSUME Types, [Next]_vars PROVE Types' OBVIOUS
<1>1. CASE Follow BY <1>1, FollowTypes, PassTypes DEF Follow
<1>2. CASE Continue
  BY <1>2, PassTypes, RecordTypes, SeatTypes, ContinueTypes, GenerateTypes DEF Continue
<1>3. CASE Requests BY <1>3, RequestTypes, GenerateTypes, SeatTypes DEF Requests
<1>4. CASE Environment BY <1>4, EnvironmentTypes DEF Environment
<1>5. CASE UNCHANGED vars
  <2>1. UNCHANGED <<room, clock, outlived, core, cache, briefs, op, watch, budget, minted>>
    BY <1>5 DEF vars, file, core
  <2>. QED BY <2>1, Untouched DEF Types
<1>. QED BY <1>1, <1>2, <1>3, <1>4, <1>5 DEF Next

(* The room, the SDK's state, the caches and the operation under way have the shapes *)
(* that the code gives them, for any peers, roles, offers and bounds.                *)
THEOREM TypeCorrect == Spec => []TypeOK
<1>1. Init => Types BY TypesInit
<1>2. Types /\ [Next]_vars => Types' BY TypesStep
<1>3. Types => TypeOK BY TypesImplyTypeOK
<1>. QED BY <1>1, <1>2, <1>3, PTL DEF Spec

-----------------------------------------------------------------------------
(* A peer whose seat was removed gets no other by an invite that existed then. *)

Used(r, x) == r.seats[x].state # "none"

(* The seats of a peer are used in order; those that are pending came by no invite of *)
(* the room; no invite is younger than the clock; and every removal that there was is *)
(* still visible in the room, as a seat that blocks the invites of that time.         *)
InOrder(r) == \A x, y \in Slots : x[1] = y[1] /\ x[2] <= y[2] /\ Used(r, y) => Used(r, x)
Sound(r, c, out) ==
  /\ InOrder(r)
  /\ \A x \in SeatsIn(r, {"pending"}) : r.seats[x].invite = External
  /\ \A i \in Ids : r.invites[i].created <= c
  /\ \A o \in out : o[2] \in Recorded(r) /\ Blocked(r, o[1], o[2])
(* Who is active in s and not in r may be, whatever was removed.           *)
Fresh(r, s, out) == \A x \in Active(s) \ Active(r) : <<x[1], s.seats[x].invite>> \notin out

(* What a pass will save is sound as well; the invite that is to be recorded has not *)
(* been yet, and the seat that is to be added or removed is still as it was found.   *)
Passing == {"orphans", "brief", "save"}
OpSound ==
  /\ op.pc \in Passing => Sound(op.next, clock, outlived) /\ Fresh(room, op.next, outlived)
  /\ op.pc \in {"record", "replaced"} => op.target \notin Recorded(room)
  /\ op.pc = "pend" => \E p \in Peers : op.seat = NextSlot(room, p)
  /\ op.pc = "unseat" => op.seat \in SeatsIn(room, {"pending", "active"})
IInv == Types /\ Sound(room, clock, outlived) /\ OpSound

-----------------------------------------------------------------------------
(* The next seat of a peer.                                                *)

LEMMA NextSlotIsNext ==
  ASSUME NEW r, InOrder(r), NEW p \in Peers, NEW m \in 1..MaxSeats
  PROVE  /\ NextSlot(r, p)[1] = p /\ NextSlot(r, p)[2] \in Nat
         /\ Used(r, <<p, m>>) <=> m < NextSlot(r, p)[2]
<1>. DEFINE S == {x \in Slots : x[1] = p /\ r.seats[x].state # "none"}
            n == Cardinality(S)
<1>1. IsFiniteSet(S) /\ n \in Nat BY SeatCount
<1>2. NextSlot(r, p)[1] = p /\ NextSlot(r, p)[2] = 1 + n BY DEF NextSlot
<1>3. m \in Nat /\ m >= 1 /\ m <= MaxSeats /\ MaxSeats \in Nat BY Constants
(* The first k seats of p are k.                                           *)
<1>4. ASSUME NEW k \in Nat PROVE IsFiniteSet({p} \X (1..k)) /\ Cardinality({p} \X (1..k)) = k
  <2>1. IsFiniteSet({p}) /\ Cardinality({p}) = 1 BY FS_Singleton
  <2>2. IsFiniteSet(1..k) /\ Cardinality(1..k) = k BY FS_Interval
  <2>3. /\ IsFiniteSet({p} \X (1..k))
        /\ Cardinality({p} \X (1..k)) = Cardinality({p}) * Cardinality(1..k)
    BY ONLY <2>1, <2>2, FS_Product
  <2>4. Cardinality({p} \X (1..k)) = 1 * k BY <2>1, <2>2, <2>3
  <2>. QED BY <2>3, <2>4
<1>5. ASSUME Used(r, <<p, m>>) PROVE m <= n
  <2>1. {p} \X (1..m) \subseteq S
    <3>1. SUFFICES ASSUME NEW j \in 1..m PROVE <<p, j>> \in S OBVIOUS
    <3>2. <<p, j>> \in Slots /\ <<p, m>> \in Slots /\ j <= m BY <1>3 DEF Slots
    <3>3. Used(r, <<p, j>>) BY <1>5, <3>2 DEF InOrder
    <3>. QED BY <3>2, <3>3 DEF Used
  <2>2. Cardinality({p} \X (1..m)) <= n BY <1>1, <2>1, FS_Subset
  <2>. QED BY <1>3, <1>4, <2>2
<1>6. ASSUME ~Used(r, <<p, m>>) PROVE n < m
  <2>1. S \subseteq {p} \X (1..(m - 1))
    <3>1. SUFFICES ASSUME NEW x \in S PROVE x \in {p} \X (1..(m - 1)) OBVIOUS
    <3>2. PICK j \in 1..MaxSeats : x = <<p, j>> BY DEF Slots
    <3>3. <<p, j>> \in Slots /\ <<p, m>> \in Slots /\ Used(r, <<p, j>>)
      BY <3>1, <3>2 DEF Slots, Used
    <3>4. j \in Nat /\ j >= 1 /\ ~(m <= j) BY <1>3, <1>6, <3>3 DEF InOrder
    <3>. QED BY <1>3, <3>2, <3>4
  <2>2. m - 1 \in Nat BY <1>3
  <2>3. n <= Cardinality({p} \X (1..(m - 1))) BY <1>4, <2>1, <2>2, FS_Subset
  <2>4. n <= m - 1 BY <1>4, <2>2, <2>3
  <2>. HIDE DEF n
  <2>. QED BY <1>1, <1>3, <2>4
<1>. HIDE DEF n, S
<1>. QED BY <1>1, <1>2, <1>3, <1>5, <1>6

(* It is unused, and whatever is used instead is used in order.            *)
LEMMA NextSlotUnused ==
  ASSUME NEW r, InOrder(r), NEW p \in Peers, NextSlot(r, p) \in Slots
  PROVE  ~Used(r, NextSlot(r, p))
<1>1. NextSlot(r, p) = <<p, NextSlot(r, p)[2]>> /\ NextSlot(r, p)[2] \in 1..MaxSeats
  BY DEF NextSlot, Slots
<1>2. NextSlot(r, p)[2] \in Nat BY <1>1, NextSlotIsNext
<1>. QED BY <1>1, <1>2, NextSlotIsNext

LEMMA UsedInOrder ==
  ASSUME NEW r, NEW s, InOrder(r), NEW xs,
         \A x \in xs : x[1] \in Peers /\ x = NextSlot(r, x[1]),
         \A x \in Slots : Used(s, x) <=> Used(r, x) \/ x \in xs
  PROVE  InOrder(s)
<1>. SUFFICES ASSUME NEW x \in Slots, NEW y \in Slots, x[1] = y[1], x[2] <= y[2], Used(s, y)
     PROVE  Used(s, x)
  BY DEF InOrder
<1>1. CASE Used(r, y) BY <1>1 DEF InOrder
<1>2. CASE y \in xs
  <2>1. /\ x[1] \in Peers /\ x = <<x[1], x[2]>> /\ x[2] \in 1..MaxSeats
        /\ y = <<x[1], y[2]>> /\ y[2] \in 1..MaxSeats
    BY DEF Slots
  <2>2. y = NextSlot(r, x[1]) BY <1>2
  <2>3. CASE x[2] = y[2] BY <1>2, <2>1, <2>3
  <2>4. CASE x[2] < y[2] BY <2>1, <2>2, <2>4, NextSlotIsNext
  <2>5. x[2] \in Nat /\ y[2] \in Nat BY <2>1, Constants
  <2>. QED BY <2>3, <2>4, <2>5
<1>. QED BY <1>1, <1>2

-----------------------------------------------------------------------------
(* Sound rooms stay sound.                                                 *)

LEMMA SameSeats ==
  ASSUME NEW r, NEW s, s.seats = r.seats
  PROVE  /\ Active(s) = Active(r) /\ Gone(s) = Gone(r)
         /\ \A states : SeatsIn(s, states) = SeatsIn(r, states)
         /\ InOrder(r) => InOrder(s)
         /\ \A p : NextSlot(s, p) = NextSlot(r, p)
BY DEF Active, Gone, SeatsIn, InOrder, Used, NextSlot

LEMMA KeptSound ==
  ASSUME NEW r, NEW s, NEW c, NEW out, Sound(r, c, out), s.seats = r.seats,
         \A i \in Ids : s.invites[i].created = r.invites[i].created, Recorded(r) \subseteq Recorded(s)
  PROVE  Sound(s, c, out)
<1>1. \A p : \A i \in Ids : Blocked(r, p, i) => Blocked(s, p, i) BY SameSeats DEF Blocked
<1>2. \A o \in out : o[2] \in Recorded(s) /\ o[2] \in Ids /\ Blocked(r, o[1], o[2])
  BY DEF Sound, Recorded
<1>. QED BY <1>1, <1>2, SameSeats DEF Sound

(* The removals at time t are remembered by what they leave in the room.   *)
LEMMA RemovedSound ==
  ASSUME NEW r \in RoomType, NEW c \in Nat, NEW out, Sound(r, c, out), NEW t \in 0..MaxClock,
         NEW xs, xs \subseteq SeatsIn(r, {"pending", "active"}), NEW d \in Nat, c <= d,
         xs # {} => d <= t
  PROVE  /\ Sound(Removed(r, xs, t), d, out \cup {<<x[1], i>> : x \in xs, i \in Recorded(r)})
         /\ Active(Removed(r, xs, t)) = Active(r) \ xs
<1>. DEFINE s == Removed(r, xs, t)
            more == out \cup {<<x[1], i>> : x \in xs, i \in Recorded(r)}
<1>1. /\ s \in RoomType /\ Recorded(s) = Recorded(r) /\ s.invites = r.invites
      /\ \A x \in Slots : s.seats[x] = IF x \in xs THEN Vacated(r.seats[x], t) ELSE r.seats[x]
  <2>1. xs \subseteq Slots BY DEF SeatsIn
  <2>2. PICK f \in [Slots -> SeatType], e \in Nat :
          /\ s = WithSeats(r, f, e)
          /\ \A x \in Slots : f[x] = IF x \in xs THEN Vacated(r.seats[x], t) ELSE r.seats[x]
    BY <2>1, RemovedType
  <2>3. s \in RoomType /\ Recorded(s) = Recorded(r) BY <2>1, RemovedType
  <2>. QED BY <2>2, <2>3, Reseated
<1>2. ASSUME NEW x \in xs
      PROVE  /\ x \in Slots /\ s.seats[x].state \in {"removed", "cancelled"} /\ s.seats[x].at = t
             /\ Used(r, x) /\ x[1] \in Peers
  <2>1. x \in Slots /\ r.seats[x].state \in {"pending", "active"} BY DEF SeatsIn
  <2>2. s.seats[x] = Vacated(r.seats[x], t) /\ r.seats[x] \in SeatType BY <1>1, <2>1, Fields
  <2>3. Vacated(r.seats[x], t).state \in {"removed", "cancelled"} /\ Vacated(r.seats[x], t).at = t
    BY <2>2 DEF Vacated, SeatType
  <2>4. x[1] \in Peers BY <2>1 DEF Slots
  <2>. QED BY <2>1, <2>2, <2>3, <2>4 DEF Used
<1>3. ASSUME NEW x \in Slots, x \notin xs PROVE s.seats[x] = r.seats[x] BY <1>1, <1>3
<1>. HIDE DEF s
<1>4. InOrder(s)
  <2>1. \A x \in Slots : Used(s, x) <=> Used(r, x) BY <1>2, <1>3 DEF Used
  <2>. QED BY <2>1 DEF InOrder, Sound
<1>5. \A x \in SeatsIn(s, {"pending"}) : s.seats[x].invite = External
  <2>1. SUFFICES ASSUME NEW x \in SeatsIn(s, {"pending"}) PROVE s.seats[x].invite = External OBVIOUS
  <2>2. x \in Slots /\ s.seats[x].state = "pending" BY DEF SeatsIn
  <2>3. s.seats[x] = r.seats[x] BY <1>2, <1>3, <2>2
  <2>4. x \in SeatsIn(r, {"pending"}) BY <2>2, <2>3 DEF SeatsIn
  <2>. QED BY <2>3, <2>4 DEF Sound
<1>6. \A i \in Ids : s.invites[i].created <= d /\ r.invites[i].created \in Nat /\ s.invites = r.invites
  <2>1. SUFFICES ASSUME NEW i \in Ids PROVE r.invites[i].created <= d /\ r.invites[i].created \in Nat
    BY <1>1
  <2>. DEFINE v == r.invites[i]
  <2>2. v.created <= c BY DEF Sound
  <2>3. v \in InviteType BY Fields
  <2>. HIDE DEF v
  <2>4. v.created \in 0..MaxClock BY <2>3 DEF InviteType
  <2>5. v.created \in Nat BY <2>4, Constants
  <2>6. v.created <= d BY <2>2, <2>5
  <2>. QED BY <2>5, <2>6 DEF v
<1>7. ASSUME NEW o \in more PROVE o[2] \in Recorded(s) /\ Blocked(s, o[1], o[2])
  <2>1. CASE o \in out
    <3>1. o[2] \in Recorded(r) /\ o[2] \in Ids BY <2>1 DEF Sound, Recorded
    <3>2. PICK x \in Gone(r) : x[1] = o[1] /\ r.invites[o[2]].created <= r.seats[x].at
      BY <2>1 DEF Sound, Blocked
    <3>3. x \in Slots /\ r.seats[x].state \in {"removed", "cancelled"} BY DEF Gone, SeatsIn
    <3>4. x \notin xs BY <3>3 DEF SeatsIn
    <3>5. x \in Gone(s) /\ s.seats[x] = r.seats[x] BY <1>3, <3>3, <3>4 DEF Gone, SeatsIn
    <3>. QED BY <1>1, <3>1, <3>2, <3>5, <1>6 DEF Blocked
  <2>2. CASE o \notin out
    <3>1. PICK x \in xs, i \in Recorded(r) : o = <<x[1], i>> BY <2>2
    <3>2. x \in Gone(s) /\ s.seats[x].at = t BY <1>2 DEF Gone, SeatsIn
    <3>3. i \in Ids BY DEF Recorded
    <3>4. d <= t /\ s.invites[i].created <= d /\ s.invites[i].created \in Nat BY <1>6, <3>3
    <3>5. s.invites[i].created <= t BY <3>4, Constants
    <3>. QED BY <1>1, <3>1, <3>2, <3>5 DEF Blocked
  <2>. QED BY <2>1, <2>2
<1>8. Active(s) = Active(r) \ xs BY <1>2, <1>3 DEF Active, SeatsIn
<1>. QED BY <1>4, <1>5, <1>6, <1>7, <1>8 DEF Sound, s

(* Whoever is admitted was not removed since the invite was created.       *)
LEMMA AdmittedSound ==
  ASSUME NEW r \in RoomType, NEW c, NEW out, Sound(r, c, out), out \subseteq Peers \X Ids,
         via \in [Peers -> {Absent, External} \cup Ids]
  PROVE  Sound(Admitted(r), c, out) /\ Fresh(r, Admitted(r), out)
<1>. DEFINE s == Admitted(r)
            Invited(x) == Seat("active", via[x[1]], r.invites[via[x[1]]].role)
<1>1. /\ s \in RoomType /\ Recorded(s) = Recorded(r) /\ s.invites = r.invites
      /\ \A x \in Slots :
           s.seats[x] = IF x \in Completed(r) THEN [r.seats[x] EXCEPT !.state = "active"]
                        ELSE IF x \in Entering(r) THEN Invited(x) ELSE r.seats[x]
  <2>1. PICK f \in [Slots -> SeatType], e \in Nat :
          /\ s = WithSeats(r, f, e)
          /\ \A x \in Slots :
               f[x] = IF x \in Completed(r) THEN [r.seats[x] EXCEPT !.state = "active"]
                      ELSE IF x \in Entering(r) THEN Invited(x) ELSE r.seats[x]
    BY AdmittedType
  <2>2. s \in RoomType /\ Recorded(s) = Recorded(r) BY AdmittedType
  <2>. QED BY <2>1, <2>2, Reseated
<1>2. ASSUME NEW x \in Completed(r)
      PROVE  /\ x \in Slots /\ Used(r, x) /\ r.seats[x].state = "pending"
             /\ s.seats[x].state = "active" /\ s.seats[x].invite = External
  <2>1. x \in SeatsIn(r, {"pending"}) /\ x \in Slots /\ r.seats[x].state = "pending"
    BY DEF Completed, SeatsIn
  <2>2. r.seats[x].invite = External BY <2>1 DEF Sound
  <2>3. s.seats[x] = [r.seats[x] EXCEPT !.state = "active"] /\ r.seats[x] \in SeatType
    BY <1>1, <2>1, Fields
  <2>. QED BY <2>1, <2>2, <2>3 DEF SeatType, Used
<1>3. ASSUME NEW x \in Slots, x \in Entering(r), x \notin Completed(r)
      PROVE  /\ s.seats[x].state = "active" /\ s.seats[x].invite = via[x[1]]
             /\ ~Used(r, x) /\ x[1] \in Peers /\ x = NextSlot(r, x[1])
             /\ via[x[1]] \in Ids /\ ~Blocked(r, x[1], via[x[1]])
  <2>1. s.seats[x] = Invited(x) BY <1>1, <1>3
  <2>2. /\ x[1] \in Peers /\ x = NextSlot(r, x[1]) /\ via[x[1]] \in Ids
        /\ ~Blocked(r, x[1], via[x[1]])
    BY <1>3, EnteringSeat DEF contacts, Admits
  <2>3. ~Used(r, x) BY <2>2, NextSlotUnused DEF Sound
  <2>. QED BY <2>1, <2>2, <2>3 DEF Seat
<1>4. ASSUME NEW x \in Slots, x \notin Completed(r), x \notin Entering(r)
      PROVE  s.seats[x] = r.seats[x]
  BY <1>1, <1>4
<1>. HIDE DEF s, Invited
<1>5. InOrder(s)
  <2>. DEFINE xs == {x \in Entering(r) : x \in Slots /\ x \notin Completed(r)}
  <2>1. \A x \in Slots : Used(s, x) <=> Used(r, x) \/ x \in xs BY <1>2, <1>3, <1>4 DEF Used
  <2>2. \A x \in xs : x[1] \in Peers /\ x = NextSlot(r, x[1]) BY <1>3
  <2>. HIDE DEF xs
  <2>. QED BY <2>1, <2>2, UsedInOrder DEF Sound
<1>6. \A x \in SeatsIn(s, {"pending"}) : s.seats[x].invite = External
  <2>1. SUFFICES ASSUME NEW x \in SeatsIn(s, {"pending"}) PROVE s.seats[x].invite = External OBVIOUS
  <2>2. x \in Slots /\ s.seats[x].state = "pending" BY DEF SeatsIn
  <2>3. s.seats[x] = r.seats[x] BY <1>2, <1>3, <1>4, <2>2
  <2>4. x \in SeatsIn(r, {"pending"}) BY <2>2, <2>3 DEF SeatsIn
  <2>. QED BY <2>3, <2>4 DEF Sound
<1>7. \A o \in out : o[2] \in Recorded(s) /\ Blocked(s, o[1], o[2])
  <2>1. SUFFICES ASSUME NEW o \in out PROVE o[2] \in Recorded(s) /\ Blocked(s, o[1], o[2]) OBVIOUS
  <2>2. PICK x \in Gone(r) : x[1] = o[1] /\ r.invites[o[2]].created <= r.seats[x].at
    BY DEF Sound, Blocked
  <2>3. x \in Slots /\ r.seats[x].state \in {"removed", "cancelled"} BY DEF Gone, SeatsIn
  <2>4. x \notin Completed(r) /\ x \notin Entering(r) BY <1>2, <1>3, <2>3 DEF Used
  <2>5. x \in Gone(s) /\ s.seats[x] = r.seats[x] BY <1>4, <2>3, <2>4 DEF Gone, SeatsIn
  <2>. QED BY <1>1, <2>2, <2>5 DEF Blocked, Sound
<1>8. Fresh(r, s, out)
  <2>1. SUFFICES ASSUME NEW x \in Active(s), x \notin Active(r)
        PROVE  <<x[1], s.seats[x].invite>> \notin out
    BY DEF Fresh
  <2>2. x \in Slots /\ s.seats[x].state = "active" BY DEF Active, SeatsIn
  <2>3. CASE x \in Completed(r)
    <3>1. External \notin Ids BY Constants DEF External, Ids
    <3>. QED BY <1>2, <2>3, <3>1
  <2>4. CASE x \notin Completed(r) /\ x \in Entering(r)
    <3>1. s.seats[x].invite = via[x[1]] /\ ~Blocked(r, x[1], via[x[1]]) BY <1>3, <2>2, <2>4
    <3>. QED BY <3>1 DEF Sound
  <2>5. CASE x \notin Completed(r) /\ x \notin Entering(r)
    <3>1. s.seats[x] = r.seats[x] BY <1>4, <2>2, <2>5
    <3>. QED BY <2>1, <2>2, <3>1 DEF Active, SeatsIn
  <2>. QED BY <2>3, <2>4, <2>5
<1>9. \A i \in Ids : s.invites[i].created <= c BY <1>1 DEF Sound
<1>. QED BY <1>5, <1>6, <1>7, <1>8, <1>9 DEF Sound, s

-----------------------------------------------------------------------------
(* The steps.  Whoever becomes active in one may be, whatever was removed. *)

Entrants == \A x \in Active(room') \ Active(room) : <<x[1], room'.seats[x].invite>> \notin outlived
Kept == IInv' /\ Entrants
Elsewhere == op'.pc \notin Passing \cup {"record", "replaced", "pend", "unseat"}

LEMMA FileKept ==
  ASSUME IInv, Types', UNCHANGED file,
         \/ op' = op
         \/ Elsewhere
         \/ op.pc \in Passing /\ op'.pc \in Passing /\ op'.next = op.next
  PROVE  Kept
<1>1. Sound(room, clock, outlived)' BY DEF IInv, file, Sound, InOrder, Used, Blocked, Gone, SeatsIn, Recorded
<1>2. OpSound'
  <2>1. CASE op' = op
    <3>1. op' = op /\ room' = room /\ clock' = clock /\ outlived' = outlived BY <2>1 DEF file
    <3>2. op.pc \in Passing => Sound(op.next, clock, outlived)' /\ Fresh(room, op.next, outlived)'
      <4>1. SUFFICES ASSUME op.pc \in Passing
                     PROVE  Sound(op.next, clock, outlived)' /\ Fresh(room, op.next, outlived)'
        OBVIOUS
      <4>2. Sound(op.next, clock, outlived) /\ Fresh(room, op.next, outlived)
        BY <4>1 DEF IInv, OpSound
      <4>3. Sound(op.next, clock, outlived)'
        BY <3>1, <4>2 DEF Sound, InOrder, Used, Blocked, Gone, SeatsIn, Recorded
      <4>. QED BY <3>1, <4>2, <4>3 DEF Fresh, Active, SeatsIn
    <3>3. op.pc = "pend" => \E p \in Peers : op'.seat = NextSlot(room, p)'
      BY <3>1 DEF IInv, OpSound, NextSlot
    <3>4. (op.pc \in {"record", "replaced"} => op.target \notin Recorded(room))'
      BY <3>1 DEF IInv, OpSound, Recorded
    <3>5. (op.pc = "unseat" => op.seat \in SeatsIn(room, {"pending", "active"}))'
      BY <3>1 DEF IInv, OpSound, SeatsIn
    <3>. QED BY <3>1, <3>2, <3>3, <3>4, <3>5 DEF OpSound
  <2>2. CASE Elsewhere BY <2>2 DEF Elsewhere, OpSound
  <2>3. CASE op.pc \in Passing /\ op'.pc \in Passing /\ op'.next = op.next
    BY <2>3 DEF IInv, file, OpSound, Sound, InOrder, Used, Blocked, Gone, SeatsIn, Recorded, Fresh,
                Active, Passing
  <2>. QED BY <2>1, <2>2, <2>3
<1>3. Entrants BY DEF Entrants, file
<1>. QED BY <1>1, <1>2, <1>3 DEF Kept, IInv

LEMMA SeatsKept ==
  ASSUME IInv, Types', UNCHANGED <<clock, outlived>>, room'.seats = room.seats,
         \A i \in Ids : room'.invites[i].created = room.invites[i].created,
         Recorded(room) \subseteq Recorded(room'),
         Elsewhere \/ (op'.pc = "brief" /\ op'.next = room')
  PROVE  Kept
<1>1. Sound(room', clock, outlived) BY KeptSound DEF IInv
<1>2. Sound(room, clock, outlived)'
  BY <1>1 DEF Sound, InOrder, Used, Blocked, Gone, SeatsIn, Recorded
<1>3. OpSound'
  <2>1. CASE Elsewhere BY <2>1 DEF Elsewhere, OpSound
  <2>2. CASE op'.pc = "brief" /\ op'.next = room'
    <3>1. Sound(op.next, clock, outlived)'
      BY <1>1, <2>2 DEF Sound, InOrder, Used, Blocked, Gone, SeatsIn, Recorded
    <3>2. Fresh(room, op.next, outlived)' BY <2>2 DEF Fresh, Active
    <3>. QED BY <2>2, <3>1, <3>2 DEF OpSound
  <2>. QED BY <2>1, <2>2
<1>4. Entrants BY SameSeats DEF Entrants
<1>. QED BY <1>2, <1>3, <1>4 DEF Kept, IInv

LEMMA PassKept ==
  ASSUME IInv, Types', NEW t \in 0..MaxClock, Look(t) \/ Announce(t) PROVE Kept
<1>. DEFINE left == Left(t)
            entered == Entered(t)
            next == Reconciled(t)
            more == outlived \cup {<<x[1], i>> : x \in Departed(room), i \in Recorded(room)}
<1>1. PICK o \in OpType : Reconcile(o, t)
  <2>1. op \in OpType BY DEF IInv, Types, OpOK
  <2>. QED BY <2>1, IdleType DEF Look, Announce
<1>2. /\ room \in RoomType /\ clock \in 0..MaxClock /\ Sound(room, clock, outlived)
      /\ clock \in Nat /\ clock' \in 0..MaxClock /\ clock' \in Nat
      /\ via \in [Peers -> {Absent, External} \cup Ids] /\ outlived' \subseteq Peers \X Ids
  BY Constants DEF IInv, Types, RoomOK, ClockOK, CoreOK
(* Either nobody departed, and the file stays as it is, or the departures are saved. *)
<1>3. /\ clock <= clock' /\ (Departed(room) # {} => clock' <= t)
      /\ outlived' = more /\ room'.seats = left.seats /\ room'.invites = left.invites
  <2>1. CASE Departed(room) = {}
    <3>1. UNCHANGED file BY <1>1, <2>1 DEF Reconcile
    <3>2. left.seats = room.seats /\ left.invites = room.invites
      <4>0. PICK none : none = {} OBVIOUS
      <4>1. PICK f \in [Slots -> SeatType], e \in Nat :
              left = WithSeats(room, f, e) /\ \A x \in Slots : f[x] = room.seats[x]
        <5>1. Removed(room, none, t) = left BY <2>1, <4>0 DEF Left
        <5>2. room \in RoomType /\ none \subseteq Slots BY <1>2, <4>0
        <5>3. \A x : x \notin none BY <4>0
        <5>. HIDE DEF left, entered, next, more
        <5>4. PICK f \in [Slots -> SeatType], e \in Nat :
                /\ Removed(room, none, t) = WithSeats(room, f, e)
                /\ \A x \in Slots : f[x] = IF x \in none THEN Vacated(room.seats[x], t) ELSE room.seats[x]
          BY <5>2, RemovedType
        <5>. QED BY <5>1, <5>3, <5>4
      <4>2. room.seats \in [Slots -> SeatType] BY <1>2, Fields
      <4>3. f = room.seats BY <4>1, <4>2
      <4>. QED BY <1>2, <4>1, <4>3, Reseated
    <3>. QED BY <1>2, <2>1, <3>1, <3>2 DEF file
  <2>2. CASE Departed(room) # {}
    <3>1. room' = left /\ Now(t) /\ Remember(Departed(room)) BY <1>1, <2>2, ReconcileUnfolded
    <3>2. outlived' = more BY <3>1 DEF Remember
    <3>. QED BY <1>2, <3>1, <3>2 DEF Now
  <2>. QED BY <2>1, <2>2
<1>4. left \in RoomType /\ Sound(left, clock', outlived') /\ Active(left) = Active(room) \ Departed(room)
  <2>1. Departed(room) \subseteq SeatsIn(room, {"pending", "active"}) BY DEF Departed, Active, SeatsIn
  <2>2. left \in RoomType BY ReconciledType DEF IInv
  <2>. QED BY SMTT(30), <1>2, <1>3, <2>1, <2>2, RemovedSound DEF Left
<1>5. entered \in RoomType /\ Sound(entered, clock', outlived') /\ Fresh(left, entered, outlived')
  <2>1. entered \in RoomType BY ReconciledType DEF IInv
  <2>. HIDE DEF left
  <2>. QED BY <1>2, <1>4, <2>1, AdmittedSound DEF Entered, left
<1>6. Sound(next, clock', outlived') /\ Fresh(left, next, outlived')
  <2>1. /\ next.seats = entered.seats /\ Recorded(next) = Recorded(entered)
        /\ \A i \in Ids : next.invites[i].created = entered.invites[i].created
    BY <1>5, SettledType, ActivatedType DEF Reconciled
  <2>2. Sound(next, clock', outlived')
    <3>. HIDE DEF next, entered
    <3>. QED BY <1>5, <2>1, KeptSound
  <2>3. Active(next) = Active(entered) BY <2>1, SameSeats
  <2>. QED BY <1>5, <2>1, <2>2, <2>3 DEF Fresh
<1>7. op'.pc \in Passing /\ op'.next = next
  <2>1. PICK new : op' = Advance([o EXCEPT !.next = next, !.todo = listed \ Recorded(room),
                                           !.brief = Briefings(next, new)])
    BY <1>1, ReconcileUnfolded
  <2>. HIDE DEF next
  <2>. QED BY <1>1, <2>1 DEF OpType, Advance, Passing
<1>. HIDE DEF left, entered, next, more
<1>8. Sound(room, clock, outlived)'
  <2>1. Sound(room', clock', outlived')
    <3>1. Recorded(left) \subseteq Recorded(room') BY <1>3 DEF Recorded
    <3>. QED BY <1>3, <1>4, <3>1, KeptSound
  <2>. QED BY <2>1 DEF Sound, InOrder, Used, Blocked, Gone, SeatsIn, Recorded
<1>9. OpSound'
  <2>1. Fresh(room', op'.next, outlived') /\ Sound(op'.next, clock', outlived')
    BY <1>3, <1>6, <1>7, SameSeats DEF Fresh
  <2>2. Fresh(room, op.next, outlived)' /\ Sound(op.next, clock, outlived)'
    BY <2>1 DEF Sound, InOrder, Used, Blocked, Gone, SeatsIn, Recorded, Fresh, Active
  <2>. QED BY <1>7, <2>2 DEF OpSound, Passing
<1>10. Entrants BY <1>3, <1>4, SameSeats DEF Entrants
<1>. QED BY <1>8, <1>9, <1>10 DEF Kept, IInv

(* Steps that leave the file as it is.                                     *)
LEMMA OutsideKept ==
  ASSUME IInv, Types',
         \/ ReadContacts \/ ReadInvites \/ Environment
         \/ ReconcileRoom \/ RecoverInvites \/ Recovered
         \/ \E i \in Ids : RevokeInvite(i) \/ Rotate(i) \/ RevokeSecret(i)
         \/ \E b \in op.brief : Brief(b)
  PROVE  Kept
<1>. USE DEF Elsewhere, Passing
<1>1. op \in OpType BY DEF IInv, Types, OpOK
<1>2. CASE ReadContacts \/ ReadInvites BY <1>2, FileKept DEF ReadContacts, ReadInvites
<1>3. CASE \/ \E p \in Peers, i \in Ids : Join(p, i) \/ LoseSecret(i)
           \/ \E p \in Peers : Establish(p) \/ Leave(p)
  BY <1>3, FileKept DEF Join, LoseSecret, Establish, Leave, Move
<1>4. CASE RecordFails \/ Throws \/ Crash \/ Recovered
  <2>1. UNCHANGED file /\ op' = Idle BY <1>4 DEF RecordFails, Throws, Crash, Recovered, Done
  <2>. QED BY <2>1, FileKept, IdleType
<1>5. CASE ReconcileRoom \/ RecoverInvites \/ \E i \in Ids : RevokeInvite(i)
  <2>1. UNCHANGED file /\ op'.pc \in {"look", "revoking"}
    BY <1>5 DEF ReconcileRoom, RecoverInvites, RevokeInvite, Idle
  <2>. QED BY <2>1, FileKept
<1>6. ASSUME NEW i \in Ids, Rotate(i) PROVE Kept
  <2>1. UNCHANGED file /\ op'.pc \in {"replace", "rotated"} BY <1>1, <1>6 DEF Rotate, OpType
  <2>. QED BY <2>1, FileKept
<1>7. ASSUME NEW i \in Ids, RevokeSecret(i) PROVE Kept
  <2>. DEFINE o == [op EXCEPT !.todo = @ \ {i}]
  <2>1. UNCHANGED file /\ o \in OpType /\ o.next = op.next /\ o.pc = op.pc
    BY <1>1, <1>7 DEF RevokeSecret, OpType
  <2>2. CASE op.pc = "orphans"
    <3>1. op' = Advance(o) BY <1>7, <2>2 DEF RevokeSecret, At
    <3>. HIDE DEF o
    <3>. QED BY <2>1, <2>2, <3>1, AdvanceType, FileKept
  <2>3. CASE op.pc = "revoking"
    <3>1. op' = [o EXCEPT !.pc = IF o.todo = {} THEN "revoked" ELSE @]
      BY <1>7, <2>3 DEF RevokeSecret, At
    <3>. HIDE DEF o
    <3>2. op'.pc \in {"revoking", "revoked"} BY <2>1, <2>3, <3>1 DEF OpType
    <3>. QED BY <2>1, <3>2, FileKept
  <2>. QED BY <1>7, <2>2, <2>3 DEF RevokeSecret
<1>8. ASSUME NEW b \in op.brief, Brief(b) PROVE Kept
  <2>. DEFINE o == [op EXCEPT !.brief = @ \ {b}]
  <2>1. UNCHANGED file /\ o \in OpType /\ o.next = op.next /\ o.pc = "brief" /\ op.pc = "brief"
    BY <1>1, <1>8 DEF Brief, OpType, At
  <2>2. op' = o \/ op' = Idle \/ op' = Advance(o) BY <1>8 DEF Brief
  <2>. HIDE DEF o
  <2>. QED BY <2>1, <2>2, AdvanceType, IdleType, FileKept
<1>. QED BY <1>2, <1>3, <1>4, <1>5, <1>6, <1>7, <1>8 DEF Environment

(* Steps that have a secret, or a seat, for the next one to record.        *)
LEMMA PreparedKept ==
  ASSUME IInv, Types', \/ Replace \/ \E o \in Offers : CreateInvite(o)
                       \/ \E p \in Peers, role \in Roles : AcceptExternal(p, role)
                       \/ \E x \in Slots : RemoveContact(x)
  PROVE  Kept
<1>1. UNCHANGED file BY DEF Replace, CreateInvite, AcceptExternal, RemoveContact
<1>2. Sound(room, clock, outlived)' /\ Entrants
  BY <1>1 DEF IInv, file, Sound, InOrder, Used, Blocked, Gone, SeatsIn, Recorded, Entrants
<1>3. op \in OpType /\ Recorded(room) \subseteq 1..minted
  BY DEF IInv, Types, OpOK, RoomOK
<1>4. CASE Replace \/ \E o \in Offers : CreateInvite(o)
  <2>1. op'.pc \in {"record", "replaced"} /\ op'.target = minted' /\ Generate
    BY <1>3, <1>4 DEF Replace, CreateInvite, Idle, OpType
  <2>2. minted' = minted + 1 /\ minted \in Nat BY <2>1, Generated DEF IInv
  <2>3. minted' \notin Recorded(room) BY <1>3, <2>2
  <2>4. op'.target \notin Recorded(room') BY <1>1, <2>1, <2>3 DEF file
  <2>5. OpSound' BY <2>1, <2>4 DEF OpSound, Passing, Recorded
  <2>. QED BY <1>2, <2>5 DEF Kept, IInv
<1>5. ASSUME NEW p \in Peers, NEW role \in Roles, AcceptExternal(p, role) PROVE Kept
  <2>1. CASE op' = Idle BY <1>1, <2>1, FileKept, IdleType DEF Elsewhere, Passing
  <2>2. CASE op' = [Idle EXCEPT !.pc = "pend", !.seat = NextSlot(room, p), !.offer.role = role]
    <3>1. op'.pc = "pend" /\ op'.seat = NextSlot(room, p) BY <2>2 DEF Idle
    <3>2. op'.seat = NextSlot(room', p) BY <1>1, <3>1 DEF file
    <3>3. OpSound' BY <3>1, <3>2 DEF OpSound, Passing, NextSlot
    <3>. QED BY <1>2, <3>3 DEF Kept, IInv
  <2>. QED BY <1>5, <2>1, <2>2 DEF AcceptExternal
<1>6. ASSUME NEW x \in Slots, RemoveContact(x) PROVE Kept
  <2>1. CASE op' = Idle BY <1>1, <2>1, FileKept, IdleType DEF Elsewhere, Passing
  <2>2. CASE op' = [Idle EXCEPT !.pc = "unseat", !.seat = x] /\ room.seats[x].state # "cancelled"
    <3>1. op'.pc = "unseat" /\ op'.seat = x BY <2>2 DEF Idle
    <3>2. x \in SeatsIn(room', {"pending", "active"})
      BY <1>1, <1>6, <2>2 DEF RemoveContact, SeatsIn, file
    <3>3. OpSound' BY <3>1, <3>2 DEF OpSound, Passing, SeatsIn
    <3>. QED BY <1>2, <3>3 DEF Kept, IInv
  <2>. QED BY <1>6, <2>1, <2>2 DEF RemoveContact
<1>. QED BY <1>4, <1>5, <1>6

(* Steps that save the room.                                               *)
LEMMA EditKept ==
  ASSUME IInv, Types',
         \/ SaveRevoked \/ SaveRotated \/ UpdateBriefing
         \/ \E i, j \in Ids : ConfirmRecovered(i, j)
         \/ \E role \in Roles : DeleteRoleBriefing(role)
         \/ \E role \in Roles, text \in Texts : SetRoleBriefing(role, text)
  PROVE  Kept
<1>1. op \in OpType /\ room \in RoomType BY DEF IInv, Types, OpOK, RoomOK
<1>2. UNCHANGED <<clock, outlived>>
  BY DEF SaveRevoked, SaveRotated, UpdateBriefing, ConfirmRecovered, DeleteRoleBriefing, SetRoleBriefing
<1>3. CASE SaveRevoked \/ SaveRotated
  <2>1. /\ \E is : is \subseteq Ids /\ room' = Marked(room, is, "revoked")
        /\ op'.pc \in {"idle", "replace"}
    <3>1. Replacing(room, op.target) \subseteq Ids BY DEF Replacing, InState
    <3>2. CASE SaveRotated BY <1>1, <3>1, <3>2 DEF SaveRotated, OpType
    <3>3. CASE SaveRevoked
      <4>1. op.target \in Ids
        BY <3>3, Constants DEF SaveRevoked, At, IInv, Types, OpOK, Targeted, CoreOK, Ids
      <4>2. WithReplacement(op.target) \subseteq Ids BY <3>1, <4>1 DEF WithReplacement
      <4>. QED BY <3>3, <4>2, IdleType DEF SaveRevoked, Done
    <3>. QED BY <1>3, <3>2, <3>3
  <2>2. /\ room'.seats = room.seats /\ Recorded(room) \subseteq Recorded(room')
        /\ \A i \in Ids : room'.invites[i].created = room.invites[i].created
    BY <1>1, <2>1, MarkedType
  <2>. QED BY <1>2, <2>1, <2>2, SeatsKept DEF Elsewhere, Passing
<1>4. ASSUME NEW i \in Ids, NEW j \in Ids, ConfirmRecovered(i, j) PROVE Kept
  <2>. DEFINE r == Marked(room, {i}, "revoked")
  <2>1. {i} \subseteq Ids /\ {j} \subseteq Ids OBVIOUS
  <2>2. /\ r \in RoomType /\ r.seats = room.seats /\ Recorded(room) \subseteq Recorded(r)
        /\ \A k \in Ids : r.invites[k].created = room.invites[k].created
    BY <1>1, <2>1, MarkedType
  <2>3. room' = Marked(r, {j}, "live") /\ op'.pc = "look" BY <1>4 DEF ConfirmRecovered, Idle
  <2>. HIDE DEF r
  <2>4. /\ room'.seats = r.seats /\ Recorded(r) \subseteq Recorded(room')
        /\ \A k \in Ids : room'.invites[k].created = r.invites[k].created
    BY <2>1, <2>2, <2>3, MarkedType
  <2>. QED BY <1>2, <2>2, <2>3, <2>4, SeatsKept DEF Elsewhere, Passing
<1>5. CASE \/ UpdateBriefing \/ \E role \in Roles : DeleteRoleBriefing(role)
           \/ \E role \in Roles, text \in Texts : SetRoleBriefing(role, text)
  <2>1. room'.seats = room.seats /\ room'.invites = room.invites
    BY <1>1, <1>5 DEF UpdateBriefing, DeleteRoleBriefing, SetRoleBriefing, RoomType
  <2>2. op' = Idle \/ (op'.pc = "brief" /\ op'.next = room')
    BY <1>5 DEF UpdateBriefing, DeleteRoleBriefing, SetRoleBriefing, Send, Done, Idle
  <2>. QED BY <1>2, <2>1, <2>2, IdleType, SeatsKept DEF Elsewhere, Passing, Recorded
<1>. QED BY <1>3, <1>4, <1>5

LEMMA RecordKept ==
  ASSUME IInv, Types', NEW t \in 0..MaxClock, Record(t) PROVE Kept
<1>1. /\ op \in OpType /\ op.target \notin Recorded(room) /\ room \in RoomType
      /\ clock \in Nat /\ clock <= t /\ t \in Nat /\ clock' = t /\ outlived' = outlived
      /\ Sound(room, clock, outlived)
  BY Constants DEF IInv, OpSound, Record, Now, Types, OpOK, RoomOK, ClockOK
<1>2. /\ room'.seats = room.seats
      /\ \A i \in Ids : i # op.target => room'.invites[i] = room.invites[i]
      /\ \A i \in Ids : i = op.target => room'.invites[i].created = t
      /\ op'.pc \in {"idle", "rotate"}
  <2>. DEFINE v == [op.offer EXCEPT !.created = t]
              f == [room.invites EXCEPT ![op.target] = v]
  <2>1. room.invites \in [Ids -> InviteType] BY <1>1, Fields
  <2>2. v.created = t BY <1>1 DEF OpType, InviteType
  <2>3. room' = WithInvites(room, f) BY DEF Record, WithInvites
  <2>4. op'.pc \in {"idle", "rotate"} BY <1>1, IdleType DEF Record, OpType
  <2>. HIDE DEF v
  <2>5. room'.seats = room.seats /\ room'.invites = f BY <1>1, <2>3 DEF WithInvites, RoomType
  <2>. QED BY <2>1, <2>2, <2>4, <2>5
<1>3. \A i \in Ids : room'.invites[i].created <= t
  <2>1. SUFFICES ASSUME NEW i \in Ids PROVE room'.invites[i].created <= t OBVIOUS
  <2>2. CASE i = op.target BY <1>1, <1>2, <2>2
  <2>3. CASE i # op.target
    <3>. DEFINE c == room.invites[i].created
    <3>1. c <= clock BY <1>1 DEF Sound
    <3>2. c \in Nat
      <4>1. room.invites[i] \in InviteType BY <1>1, Fields
      <4>2. c \in 0..MaxClock BY <4>1 DEF InviteType
      <4>. QED BY <4>2, Constants
    <3>3. room'.invites[i].created = c BY <1>2, <2>3
    <3>. HIDE DEF c
    <3>. QED BY <1>1, <3>1, <3>2, <3>3
  <2>. QED BY <2>2, <2>3
<1>4. Sound(room', t, outlived)
  <2>1. \A o \in outlived : o[2] \in Recorded(room') /\ Blocked(room', o[1], o[2])
    <3>1. SUFFICES ASSUME NEW o \in outlived
          PROVE o[2] \in Recorded(room') /\ Blocked(room', o[1], o[2])
      OBVIOUS
    <3>2. o[2] \in Recorded(room) /\ o[2] \in Ids /\ Blocked(room, o[1], o[2])
      BY <1>1 DEF Sound, Recorded
    <3>3. room'.invites[o[2]] = room.invites[o[2]] BY <1>1, <1>2, <3>2
    <3>. QED BY <1>2, <3>2, <3>3, SameSeats DEF Blocked, Recorded
  <2>. QED BY <1>1, <1>2, <1>3, <2>1, SameSeats DEF Sound
<1>5. Sound(room, clock, outlived)'
  BY <1>1, <1>4 DEF Sound, InOrder, Used, Blocked, Gone, SeatsIn, Recorded
<1>6. OpSound' BY <1>2 DEF OpSound, Passing
<1>7. Entrants BY <1>2, SameSeats DEF Entrants
<1>. QED BY <1>5, <1>6, <1>7 DEF Kept, IInv

LEMMA SaveKept == ASSUME IInv, Types', Save PROVE Kept
<1>1. /\ op.pc \in Passing /\ room' = op.next /\ UNCHANGED <<clock, outlived>>
      /\ op'.pc \in {"idle", "rotate"}
  BY DEF Save, At, Passing, Idle
<1>2. Sound(room', clock, outlived) /\ Entrants
  BY <1>1 DEF IInv, OpSound, Fresh, Entrants
<1>3. Sound(room, clock, outlived)'
  BY <1>1, <1>2 DEF Sound, InOrder, Used, Blocked, Gone, SeatsIn, Recorded
<1>4. OpSound' BY <1>1 DEF OpSound, Passing
<1>. QED BY <1>2, <1>3, <1>4 DEF Kept, IInv

LEMMA SeatKept ==
  ASSUME IInv, Types', SavePending \/ \E t \in 0..MaxClock : Unseat(t) PROVE Kept
<1>1. /\ room \in RoomType /\ clock \in 0..MaxClock /\ clock \in Nat
      /\ Sound(room, clock, outlived)
  BY Constants DEF IInv, Types, RoomOK, ClockOK
<1>2. CASE SavePending
  <2>1. /\ op.seat \in Slots /\ UNCHANGED <<clock, outlived>> /\ op'.pc = "look"
        /\ room' = [room EXCEPT !.seats[op.seat] = Seat("pending", External, op.offer.role)]
    BY <1>2 DEF SavePending, At, IInv, Types, OpOK, Idle
  <2>2. PICK p \in Peers : op.seat = NextSlot(room, p) BY <1>2 DEF SavePending, At, IInv, OpSound
  <2>3. op.seat[1] = p /\ ~Used(room, op.seat)
    BY <1>1, <2>1, <2>2, NextSlotUnused DEF Sound, NextSlot
  <2>4. /\ \A x \in Slots : x # op.seat => room'.seats[x] = room.seats[x]
        /\ room'.seats[op.seat].state = "pending" /\ room'.seats[op.seat].invite = External
        /\ room'.invites = room.invites
    <3>. DEFINE v == Seat("pending", External, op.offer.role)
    <3>1. room.seats \in [Slots -> SeatType] BY <1>1, Fields
    <3>2. v.state = "pending" /\ v.invite = External BY DEF Seat
    <3>3. room' = [room EXCEPT !.seats[op.seat] = v] BY <2>1
    <3>. HIDE DEF v
    <3>4. room'.seats = [room.seats EXCEPT ![op.seat] = v] /\ room'.invites = room.invites
      BY <1>1, <3>3 DEF RoomType
    <3>. QED BY <2>1, <3>1, <3>2, <3>4
  <2>5. InOrder(room')
    <3>1. \A x \in Slots : Used(room', x) <=> Used(room, x) \/ x \in {op.seat} BY <2>4 DEF Used
    <3>. QED BY <1>1, <2>2, <2>3, <3>1, UsedInOrder DEF Sound
  <2>6. Sound(room', clock, outlived)
    <3>1. Gone(room) \subseteq Gone(room') /\ \A x \in Gone(room) : room'.seats[x] = room.seats[x]
      BY <2>3, <2>4 DEF Gone, SeatsIn, Used
    <3>2. \A o \in outlived : Blocked(room', o[1], o[2]) BY <1>1, <2>4, <3>1 DEF Sound, Blocked
    <3>3. \A x \in SeatsIn(room', {"pending"}) : room'.seats[x].invite = External
      BY <1>1, <2>4 DEF Sound, SeatsIn
    <3>. QED BY <1>1, <2>4, <2>5, <3>2, <3>3 DEF Sound, Recorded
  <2>7. Sound(room, clock, outlived)'
    BY <2>1, <2>6 DEF Sound, InOrder, Used, Blocked, Gone, SeatsIn, Recorded
  <2>8. OpSound' BY <2>1 DEF OpSound, Passing
  <2>9. Entrants BY <2>4 DEF Entrants, Active, SeatsIn
  <2>. QED BY <2>7, <2>8, <2>9 DEF Kept, IInv
<1>3. ASSUME NEW t \in 0..MaxClock, Unseat(t) PROVE Kept
  <2>1. /\ op.seat \in SeatsIn(room, {"pending", "active"}) /\ op' = Idle
        /\ room' = Removed(room, {op.seat}, t)
        /\ outlived' = outlived \cup {<<x[1], i>> : x \in {op.seat}, i \in Recorded(room)}
        /\ clock' = t /\ clock <= t /\ t \in Nat
    BY <1>1, <1>3, Constants DEF Unseat, At, Done, Now, Remember, IInv, OpSound
  <2>2. Sound(room', clock', outlived') /\ Active(room') = Active(room) \ {op.seat}
    <3>. DEFINE xs == {op.seat}
    <3>1. xs \subseteq SeatsIn(room, {"pending", "active"}) BY <2>1
    <3>2. room' = Removed(room, xs, t)
          /\ outlived' = outlived \cup {<<x[1], i>> : x \in xs, i \in Recorded(room)}
      BY <2>1
    <3>. HIDE DEF xs
    <3>3. Sound(room', t, outlived') /\ Active(room') = Active(room) \ xs
      BY <1>1, <2>1, <3>1, <3>2, RemovedSound
    <3>. QED BY <2>1, <3>3 DEF xs
  <2>3. Sound(room, clock, outlived)'
    BY <2>2 DEF Sound, InOrder, Used, Blocked, Gone, SeatsIn, Recorded
  <2>4. OpSound' BY <2>1, IdleType DEF OpSound, Passing
  <2>5. Entrants BY <2>2 DEF Entrants
  <2>. QED BY <2>3, <2>4, <2>5 DEF Kept, IInv
<1>. QED BY <1>2, <1>3

LEMMA KeptByAll == IInv /\ [Next]_vars => Kept
<1>. SUFFICES ASSUME IInv, [Next]_vars PROVE Kept OBVIOUS
<1>1. Types' BY TypesStep DEF IInv
<1>2. CASE Follow BY <1>1, <1>2, PassKept, OutsideKept DEF Follow
<1>3. CASE Continue
  BY <1>1, <1>3, PassKept, RecordKept, SeatKept, OutsideKept, SaveKept, EditKept, PreparedKept
     DEF Continue
<1>4. CASE Requests BY <1>1, <1>4, OutsideKept, PreparedKept, EditKept DEF Requests
<1>5. CASE Environment BY <1>1, <1>5, OutsideKept
<1>6. CASE UNCHANGED vars BY <1>1, <1>6, FileKept DEF vars
<1>. QED BY <1>2, <1>3, <1>4, <1>5, <1>6 DEF Next

LEMMA IInvInit == Init => IInv
<1>. SUFFICES ASSUME Init PROVE IInv OBVIOUS
<1>1. Types BY TypesInit
<1>2. room = NewRoom /\ clock = 0 /\ outlived = {} /\ op.pc = "idle" BY IdleType DEF Init
<1>3. \A x \in Slots : room.seats[x].state = "none" BY <1>2 DEF NewRoom, NoSeat
<1>4. \A i \in Ids : room.invites[i].created <= clock BY <1>2 DEF NewRoom, NoInvite
<1>5. Sound(room, clock, outlived) BY <1>2, <1>3, <1>4 DEF Sound, InOrder, Used, SeatsIn
<1>. QED BY <1>1, <1>2, <1>5 DEF IInv, OpSound, Passing

(* A peer whose seat was removed gets no other by an invite that existed then, even   *)
(* when both are recorded at the same time of the clock (service.ts:1788): whatever   *)
(* peers, operators and the SDK do, and whatever throws or crashes between two saves. *)
THEOREM RemovedStaysOutHolds == Spec => RemovedStaysOut
<1>1. Init => IInv BY IInvInit
<1>2. IInv /\ [Next]_vars => IInv' BY KeptByAll DEF Kept
<1>3. IInv /\ [Next]_vars
        => [\A x \in Active(room)' \ Active(room) : <<x[1], room'.seats[x].invite>> \notin outlived]_vars
  BY KeptByAll DEF Kept, Entrants, Active, SeatsIn
<1>. QED BY <1>1, <1>2, <1>3, PTL DEF Spec, RemovedStaysOut


-----------------------------------------------------------------------------
(* The books of the room: what it records of its seats and invites, against what the *)
(* SDK holds and what the archive was told.                                          *)

(* The room's own books, against the contacts (v) and the secrets (sec) that the SDK   *)
(* keeps: each change of the roster is counted; a contact that is still to be admitted *)
(* has a seat to take; the invites' lineage is what RoomSchema demands; and an invite  *)
(* that is to be replaced has no secret, nor a contact that it leaves without a seat.  *)
Joined(v) == {p \in Peers : v[p] # Absent}
Counted(r) == r.epoch = Cardinality(Active(r)) + 2 * Cardinality(SeatsIn(r, {"removed"}))
Housed(r, v) ==
  \A p \in Joined(v) :
    v[p] \in Ids /\ ~Seated(r, p) /\ ~Blocked(r, p, v[p]) => NextSlot(r, p) \in Slots
OneSeat(r) == \A x, y \in SeatsIn(r, {"pending", "active"}) : x[1] = y[1] => x = y
SourceOf(r, i) == IF r.invites[i].of = 0 THEN "none" ELSE r.invites[r.invites[i].of].state
LegalInvite(r, i) ==
  /\ r.invites[i].of \in {0} \cup Recorded(r)
  /\ r.invites[i].state = "receipt_pending" =>
       SourceOf(r, i) = "replacement_required" /\ Replacing(r, r.invites[i].of) = {i}
  /\ r.invites[i].state \in {"live", "consumed", "replacement_required"} =>
       SourceOf(r, i) \in {"none", "revoked"}
  /\ r.invites[i].state = "revoked" => SourceOf(r, i) \in {"none", "revoked", "replacement_required"}
LegalInvites(r) == \A i \in Recorded(r) : LegalInvite(r, i)
ToReplace(r) == InState(r, "replacement_required")
Cared(r, v) ==
  \A p \in Joined(v) : v[p] \in ToReplace(r) => Seated(r, p) \/ Blocked(r, p, v[p])
Lost(r, sec) == ToReplace(r) \cap sec = {}
Books(r, v, sec) ==
  Counted(r) /\ Housed(r, v) /\ OneSeat(r) /\ LegalInvites(r) /\ Cared(r, v) /\ Lost(r, sec)

LEMMA BooksAreLegal == ASSUME NEW r, OneSeat(r), LegalInvites(r) PROVE Legal(r)
BY DEF OneSeat, LegalInvites, LegalInvite, Legal, SourceOf

LEMMA SeatedByPeer == ASSUME NEW r, NEW s, NEW p,
    \A x \in Slots : x[1] = p => s.seats[x] = r.seats[x]
  PROVE /\ Seated(s, p) <=> Seated(r, p)
        /\ NextSlot(s, p) = NextSlot(r, p)
<1>1. \A x \in Slots : x[1] = p => (s.seats[x].state # "none" <=> r.seats[x].state # "none")
  OBVIOUS
<1>2. {x \in Slots : x[1] = p /\ s.seats[x].state # "none"}
        = {x \in Slots : x[1] = p /\ r.seats[x].state # "none"}
  BY <1>1
<1>. QED BY <1>2 DEF Seated, SeatsIn, NextSlot

LEMMA CountOfUnion ==
  ASSUME NEW S, NEW T, S \subseteq Slots, T \subseteq Slots, S \cap T = {}
  PROVE  Cardinality(S \cup T) = Cardinality(S) + Cardinality(T)
<1>1. IsFiniteSet(S) /\ IsFiniteSet(T) BY SeatCount
<1>2. Cardinality(S \cup T) = Cardinality(S) + Cardinality(T) - Cardinality(S \cap T)
  BY <1>1, FS_Union
<1>3. Cardinality(S \cap T) = 0 BY FS_EmptySet
<1>4. Cardinality(S) \in Nat /\ Cardinality(T) \in Nat BY SeatCount
<1>. QED BY <1>2, <1>3, <1>4

(* The seats xs are removed no earlier than any invite was made.           *)
LEMMA RemovedBooks ==
  ASSUME NEW r \in RoomType, NEW c \in Nat, NEW out, Sound(r, c, out), NEW t \in 0..MaxClock,
         NEW xs, xs \subseteq SeatsIn(r, {"pending", "active"}), xs # {} => c <= t,
         NEW v, NEW sec, Books(r, v, sec)
  PROVE  Books(Removed(r, xs, t), v, sec)
<1>. DEFINE s == Removed(r, xs, t)
            as == xs \cap Active(r)
<1>1. /\ s \in RoomType /\ s.invites = r.invites /\ s.epoch = r.epoch + Cardinality(as)
      /\ \A x \in Slots : s.seats[x] = IF x \in xs THEN Vacated(r.seats[x], t) ELSE r.seats[x]
  <2>1. xs \subseteq Slots BY DEF SeatsIn
  <2>2. s \in RoomType BY <2>1, RemovedType
  <2>3. s = [r EXCEPT !.seats = [x \in Slots |-> IF x \in xs THEN Vacated(r.seats[x], t) ELSE r.seats[x]],
                      !.epoch = r.epoch + Cardinality(as)]
    BY DEF Removed
  <2>4. s.epoch = r.epoch + Cardinality(as) /\ s.invites = r.invites
        /\ s.seats = [x \in Slots |-> IF x \in xs THEN Vacated(r.seats[x], t) ELSE r.seats[x]]
    <3>. DEFINE f == [x \in Slots |-> IF x \in xs THEN Vacated(r.seats[x], t) ELSE r.seats[x]]
                e == r.epoch + Cardinality(as)
    <3>1. s = [r EXCEPT !.seats = f, !.epoch = e] BY <2>3
    <3>. HIDE DEF s, f, e
    <3>2. s.epoch = e /\ s.invites = r.invites /\ s.seats = f BY <3>1 DEF RoomType
    <3>. QED BY <3>2 DEF f, e
  <2>. QED BY <2>2, <2>4
<1>. HIDE DEF s
<1>2. ASSUME NEW x \in xs
      PROVE  /\ x \in Slots /\ r.seats[x].state \in {"pending", "active"}
             /\ s.seats[x].state = IF x \in Active(r) THEN "removed" ELSE "cancelled"
             /\ s.seats[x].at = t
  <2>1. x \in Slots /\ r.seats[x].state \in {"pending", "active"} BY DEF SeatsIn
  <2>2. s.seats[x] = Vacated(r.seats[x], t) /\ r.seats[x] \in SeatType BY <1>1, <2>1, Fields
  <2>3. /\ Vacated(r.seats[x], t).state = IF r.seats[x].state = "pending" THEN "cancelled" ELSE "removed"
        /\ Vacated(r.seats[x], t).at = t
    BY <2>2 DEF Vacated, SeatType
  <2>4. x \in Active(r) <=> r.seats[x].state = "active" BY <2>1 DEF Active, SeatsIn
  <2>. QED BY <2>1, <2>2, <2>3, <2>4
<1>3. ASSUME NEW x \in Slots, x \notin xs PROVE s.seats[x] = r.seats[x] BY <1>1, <1>3
<1>4. Counted(s)
  <2>1. /\ Active(r) = Active(s) \cup as /\ Active(s) \cap as = {}
        /\ SeatsIn(s, {"removed"}) = SeatsIn(r, {"removed"}) \cup as
        /\ SeatsIn(r, {"removed"}) \cap as = {}
    BY <1>2, <1>3 DEF Active, SeatsIn
  <2>2. Active(s) \subseteq Slots /\ SeatsIn(r, {"removed"}) \subseteq Slots /\ as \subseteq Slots
    BY DEF Active, SeatsIn
  <2>3. /\ Cardinality(Active(r)) = Cardinality(Active(s)) + Cardinality(as)
        /\ Cardinality(SeatsIn(s, {"removed"})) = Cardinality(SeatsIn(r, {"removed"})) + Cardinality(as)
    <3>. HIDE DEF as
    <3>. QED BY <2>1, <2>2, CountOfUnion
  <2>4. /\ Cardinality(Active(s)) \in Nat /\ Cardinality(as) \in Nat
        /\ Cardinality(SeatsIn(r, {"removed"})) \in Nat
    BY <2>2, SeatCount
  <2>5. r.epoch = Cardinality(Active(r)) + 2 * Cardinality(SeatsIn(r, {"removed"})) BY DEF Books, Counted
  <2>6. s.epoch = r.epoch + Cardinality(as) BY <1>1
  <2>. HIDE DEF as
  <2>7. s.epoch = Cardinality(Active(s)) + 2 * Cardinality(SeatsIn(s, {"removed"}))
    <3>1. Cardinality(Active(s)) \in Nat
      <4>1. Active(s) \subseteq Slots BY <2>2
      <4>. QED BY <4>1, SeatCount
    <3>2. PICK a \in Nat : a = Cardinality(Active(s)) BY <3>1
    <3>3. PICK b \in Nat : b = Cardinality(SeatsIn(r, {"removed"})) BY <2>4
    <3>4. PICK d \in Nat : d = Cardinality(as) BY <2>4
    <3>5. s.epoch = ((a + d) + 2 * b) + d BY <2>3, <2>5, <2>6, <3>2, <3>3, <3>4
    <3>6. Cardinality(SeatsIn(s, {"removed"})) = b + d BY <2>3, <3>3, <3>4
    <3>. QED BY <3>2, <3>5, <3>6
  <2>. QED BY <2>7 DEF Counted
(* Either none of the peer's seats is removed, or all the invites are blocked. *)
<1>5. ASSUME NEW p, NEW i \in Ids
      PROVE  \/ Blocked(s, p, i)
             \/ /\ Seated(s, p) <=> Seated(r, p)
                /\ NextSlot(s, p) = NextSlot(r, p)
                /\ Blocked(r, p, i) => Blocked(s, p, i)
  <2>1. CASE \E x \in xs : x[1] = p
    <3>1. PICK x \in xs : x[1] = p BY <2>1
    <3>2. x \in Gone(s) /\ s.seats[x].at = t BY <1>2, <3>1 DEF Gone, SeatsIn
    <3>3. r.invites[i].created <= c /\ c <= t BY <3>1 DEF Sound
    <3>4. r.invites[i].created \in Nat /\ t \in Nat
      <4>1. r.invites[i] \in InviteType BY Fields
      <4>. QED BY <4>1, Constants DEF InviteType
    <3>5. s.invites[i].created <= t
      <4>1. PICK k \in Nat : k = r.invites[i].created BY <3>4
      <4>2. k <= t BY <3>3, <3>4, <4>1
      <4>. QED BY <1>1, <4>1, <4>2
    <3>. QED BY <3>1, <3>2, <3>5 DEF Blocked
  <2>2. CASE ~\E x \in xs : x[1] = p
    <3>1. \A x \in Slots : x[1] = p => s.seats[x] = r.seats[x] BY <1>3, <2>2
    <3>2. (Seated(s, p) <=> Seated(r, p)) /\ NextSlot(s, p) = NextSlot(r, p) BY <3>1, SeatedByPeer
    <3>3. Blocked(r, p, i) => Blocked(s, p, i) BY <1>1, <3>1 DEF Blocked, Gone, SeatsIn
    <3>. QED BY <3>2, <3>3
  <2>. QED BY <2>1, <2>2
<1>6. ToReplace(s) = ToReplace(r) /\ ToReplace(r) \subseteq Ids BY <1>1 DEF ToReplace, InState
<1>7. Housed(s, v) BY <1>5 DEF Books, Housed
<1>8. Cared(s, v) /\ Lost(s, sec) BY <1>5, <1>6 DEF Books, Cared, Lost
<1>9. OneSeat(s)
  <2>1. SeatsIn(s, {"pending", "active"}) \subseteq SeatsIn(r, {"pending", "active"})
    BY <1>2, <1>3 DEF SeatsIn
  <2>. QED BY <2>1 DEF Books, OneSeat
<1>10. LegalInvites(s)
  BY <1>1 DEF Books, LegalInvites, LegalInvite, Recorded, Replacing, InState, SourceOf
<1>. QED BY <1>4, <1>7, <1>8, <1>9, <1>10 DEF Books, s

(* Whoever is admitted has a seat to take, and those whom a live invite brought and that *)
(* are not admitted are seated or blocked.                                               *)
LEMMA AdmittedBooks ==
  ASSUME NEW r \in RoomType, NEW c, NEW out, Sound(r, c, out),
         via \in [Peers -> {Absent, External} \cup Ids], NEW sec, Books(r, via, sec)
  PROVE  /\ Books(Admitted(r), via, sec)
         /\ \A p \in Joined(via) : via[p] \in InState(Admitted(r), "live") =>
              Seated(Admitted(r), p) \/ Blocked(Admitted(r), p, via[p])
<1>. DEFINE s == Admitted(r)
            Invited(x) == Seat("active", via[x[1]], r.invites[via[x[1]]].role)
            cs == Completed(r)
            es == Entering(r)
<1>1. /\ s.invites = r.invites /\ s.epoch = r.epoch + Cardinality(cs) + Cardinality(es)
      /\ \A x \in Slots :
           s.seats[x] = IF x \in cs THEN [r.seats[x] EXCEPT !.state = "active"]
                        ELSE IF x \in es THEN Invited(x) ELSE r.seats[x]
  <2>. DEFINE f == [x \in Slots |-> IF x \in cs THEN [r.seats[x] EXCEPT !.state = "active"]
                                    ELSE IF x \in es THEN Invited(x) ELSE r.seats[x]]
              e == r.epoch + Cardinality(cs) + Cardinality(es)
  <2>1. s = [r EXCEPT !.seats = f, !.epoch = e] BY DEF Admitted
  <2>. HIDE DEF s, f, e
  <2>2. s.epoch = e /\ s.invites = r.invites /\ s.seats = f BY <2>1 DEF RoomType
  <2>. QED BY <2>2 DEF f, e
<1>2. ASSUME NEW x \in cs
      PROVE  x \in Slots /\ r.seats[x].state = "pending" /\ s.seats[x].state = "active"
  <2>1. x \in Slots /\ r.seats[x].state = "pending" BY DEF Completed, SeatsIn
  <2>2. s.seats[x] = [r.seats[x] EXCEPT !.state = "active"] /\ r.seats[x] \in SeatType
    BY <1>1, <2>1, Fields
  <2>. QED BY <2>1, <2>2 DEF SeatType
<1>3. ASSUME NEW x \in es
      PROVE  /\ x \in Slots /\ r.seats[x].state = "none" /\ s.seats[x].state = "active"
             /\ x = NextSlot(r, x[1]) /\ ~Seated(r, x[1]) /\ x \notin cs
  <2>1. x[1] \in contacts /\ x = NextSlot(r, x[1]) /\ via[x[1]] \in Ids /\ Admits(r, x[1], via[x[1]])
    BY EnteringSeat
  <2>2. x \in Slots BY <2>1 DEF Books, Housed, Joined, contacts, Admits
  <2>3. x[1] \in Peers BY <2>1 DEF contacts
  <2>4. ~Used(r, x) BY <2>1, <2>2, <2>3, NextSlotUnused DEF Sound
  <2>5. x \notin cs BY <1>2, <2>4 DEF Used
  <2>6. s.seats[x] = Invited(x) BY <1>1, <2>2, <2>5
  <2>. QED BY <2>1, <2>2, <2>4, <2>5, <2>6 DEF Used, Admits, Seat
<1>4. ASSUME NEW x \in Slots, x \notin cs, x \notin es PROVE s.seats[x] = r.seats[x] BY <1>1, <1>4
<1>. HIDE DEF s, Invited, cs, es
<1>5. /\ Active(s) = (Active(r) \cup cs) \cup es /\ (Active(r) \cup cs) \cap es = {}
      /\ Active(r) \cap cs = {} /\ SeatsIn(s, {"removed"}) = SeatsIn(r, {"removed"})
      /\ SeatsIn(s, {"pending", "active"}) = SeatsIn(r, {"pending", "active"}) \cup es
      /\ Gone(s) = Gone(r) /\ \A x \in Gone(r) : s.seats[x] = r.seats[x]
  BY <1>2, <1>3, <1>4 DEF Active, SeatsIn, Gone
<1>6. Counted(s)
  <2>1. Active(r) \subseteq Slots /\ cs \subseteq Slots /\ es \subseteq Slots
    BY <1>2, <1>3 DEF Active, SeatsIn
  <2>2. /\ Cardinality(Active(r) \cup cs) = Cardinality(Active(r)) + Cardinality(cs)
        /\ Cardinality(Active(s)) = Cardinality(Active(r) \cup cs) + Cardinality(es)
    <3>1. Active(r) \cup cs \subseteq Slots BY <2>1
    <3>. QED BY <1>5, <2>1, <3>1, CountOfUnion
  <2>3. PICK a \in Nat : a = Cardinality(Active(r)) BY <2>1, SeatCount
  <2>4. PICK b \in Nat : b = Cardinality(cs) BY <2>1, SeatCount
  <2>5. PICK d \in Nat : d = Cardinality(es) BY <2>1, SeatCount
  <2>6. PICK g \in Nat : g = Cardinality(SeatsIn(r, {"removed"}))
    <3>1. SeatsIn(r, {"removed"}) \subseteq Slots BY DEF SeatsIn
    <3>. QED BY <3>1, SeatCount
  <2>7. r.epoch = a + 2 * g BY <2>3, <2>6 DEF Books, Counted
  <2>8. s.epoch = (r.epoch + b) + d BY <1>1, <2>4, <2>5
  <2>9. Cardinality(Active(s)) = (a + b) + d BY <2>2, <2>3, <2>4, <2>5
  <2>10. Cardinality(SeatsIn(s, {"removed"})) = g BY <1>5, <2>6
  <2>. QED BY <2>7, <2>8, <2>9, <2>10 DEF Counted
<1>7. ASSUME NEW p, NEW i PROVE Blocked(s, p, i) <=> Blocked(r, p, i) BY <1>1, <1>5 DEF Blocked
<1>8. ASSUME NEW p, ~Seated(s, p) PROVE ~Seated(r, p) /\ NextSlot(s, p) = NextSlot(r, p)
  <2>1. ~Seated(r, p) BY <1>5, <1>8 DEF Seated
  <2>2. \A x \in es : x[1] # p BY <1>5, <1>8 DEF Seated
  <2>3. \A x \in cs : x[1] # p BY <1>2, <2>1 DEF Seated, SeatsIn
  <2>4. \A x \in Slots : x[1] = p => s.seats[x] = r.seats[x] BY <1>4, <2>2, <2>3
  <2>. QED BY <2>1, <2>4, SeatedByPeer
<1>9. Housed(s, via) BY <1>7, <1>8 DEF Books, Housed
<1>10. ToReplace(s) = ToReplace(r) BY <1>1 DEF ToReplace, InState
<1>11. Cared(s, via) /\ Lost(s, sec) BY <1>7, <1>8, <1>10 DEF Books, Cared, Lost
<1>12. OneSeat(s)
  <2>1. SUFFICES ASSUME NEW x \in SeatsIn(s, {"pending", "active"}),
                        NEW y \in SeatsIn(s, {"pending", "active"}), x[1] = y[1]
        PROVE  x = y
    BY DEF OneSeat
  <2>2. CASE x \in es /\ y \in es BY <1>3, <2>1, <2>2
  <2>3. CASE x \in es /\ y \notin es
    <3>1. y \in SeatsIn(r, {"pending", "active"}) BY <1>5, <2>3
    <3>2. Seated(r, x[1]) BY <2>1, <3>1 DEF Seated
    <3>. QED BY <1>3, <2>3, <3>2
  <2>4. CASE x \notin es /\ y \in es
    <3>1. x \in SeatsIn(r, {"pending", "active"}) BY <1>5, <2>4
    <3>2. Seated(r, y[1]) BY <2>1, <3>1 DEF Seated
    <3>. QED BY <1>3, <2>4, <3>2
  <2>5. CASE x \notin es /\ y \notin es
    <3>1. /\ x \in SeatsIn(r, {"pending", "active"}) /\ y \in SeatsIn(r, {"pending", "active"})
      BY <1>5, <2>5
    <3>. QED BY <2>1, <3>1 DEF Books, OneSeat
  <2>. QED BY <2>2, <2>3, <2>4, <2>5
<1>13. LegalInvites(s)
  BY <1>1 DEF Books, LegalInvites, LegalInvite, Recorded, Replacing, InState, SourceOf
<1>14. ASSUME NEW p \in Joined(via), via[p] \in InState(s, "live")
       PROVE  Seated(s, p) \/ Blocked(s, p, via[p])
  <2>1. SUFFICES ASSUME ~Seated(s, p), ~Blocked(s, p, via[p]) PROVE FALSE OBVIOUS
  <2>2. ~Seated(r, p) /\ ~Blocked(r, p, via[p]) BY <1>7, <1>8, <2>1
  <2>3. via[p] \in InState(r, "live") BY <1>1, <1>14 DEF InState
  <2>4. p \in contacts /\ Admits(r, p, via[p]) BY <2>2, <2>3 DEF Joined, contacts, Admits
  <2>5. NextSlot(r, p) \in es BY <2>4 DEF Entering, es
  <2>6. NextSlot(r, p)[1] = p BY DEF NextSlot
  <2>. QED BY <1>5, <2>1, <2>5, <2>6 DEF Seated
<1>. QED BY <1>6, <1>9, <1>11, <1>12, <1>13, <1>14 DEF Books, s

-----------------------------------------------------------------------------
(* The seats stay, and some invites change.                                *)
SameRoster(r, s) ==
  s.seats = r.seats /\ s.epoch = r.epoch /\ \A i \in Ids : s.invites[i].created = r.invites[i].created

LEMMA ReissuedBooks ==
  ASSUME NEW r, NEW s, NEW v, NEW sec, Books(r, v, sec), SameRoster(r, s), LegalInvites(s),
         \A i \in ToReplace(s) \ ToReplace(r) :
           i \notin sec /\ \A p \in Joined(v) : v[p] = i => Seated(r, p) \/ Blocked(r, p, i)
  PROVE  Books(s, v, sec)
<1>1. /\ \A states : SeatsIn(s, states) = SeatsIn(r, states)
      /\ Active(s) = Active(r) /\ Gone(s) = Gone(r)
      /\ \A p : NextSlot(s, p) = NextSlot(r, p)
  BY SameSeats DEF SameRoster
<1>2. \A p : Seated(s, p) <=> Seated(r, p) BY <1>1 DEF Seated
<1>3. \A p : \A i \in Ids : Blocked(s, p, i) <=> Blocked(r, p, i) BY <1>1 DEF Blocked, SameRoster
<1>4. Counted(s) BY <1>1 DEF Books, Counted, SameRoster
<1>5. Housed(s, v) BY <1>1, <1>2, <1>3 DEF Books, Housed
<1>6. OneSeat(s) BY <1>1 DEF Books, OneSeat
<1>7. Cared(s, v)
  <2>1. SUFFICES ASSUME NEW p \in Joined(v), v[p] \in ToReplace(s)
        PROVE  Seated(s, p) \/ Blocked(s, p, v[p])
    BY DEF Cared
  <2>2. v[p] \in Ids BY <2>1 DEF ToReplace, InState
  <2>3. Seated(r, p) \/ Blocked(r, p, v[p]) BY <2>1 DEF Books, Cared
  <2>. QED BY <1>2, <1>3, <2>2, <2>3
<1>8. Lost(s, sec) BY DEF Books, Lost
<1>. QED BY <1>4, <1>5, <1>6, <1>7, <1>8 DEF Books

(* An invite that is settled has no secret, or nobody is left to be admitted by it. *)
LEMMA SettledBooks ==
  ASSUME NEW r \in RoomType, NEW v, NEW sec, Books(r, v, sec), sec \subseteq listed,
         \A p \in Joined(v) : v[p] \in InState(r, "live") => Seated(r, p) \/ Blocked(r, p, v[p])
  PROVE  Books(Settled(r), v, sec)
<1>. DEFINE s == Settled(r)
            A(i) == IF AcceptedBy(r, i) = {} THEN r.invites[i].accepted ELSE AcceptedBy(r, i)
            State(i) == IF r.invites[i].state # "live" THEN r.invites[i].state
                        ELSE IF r.invites[i].mode = "one_time" /\ A(i) # {} THEN "consumed"
                        ELSE IF i \in listed THEN "live" ELSE "replacement_required"
            f == [i \in Ids |-> [r.invites[i] EXCEPT !.accepted = A(i), !.state = State(i)]]
<1>1. s.seats = r.seats /\ s.epoch = r.epoch /\ s.invites = f
  <2>1. s = [r EXCEPT !.invites = f] BY DEF Settled
  <2>. HIDE DEF s, f
  <2>. QED BY <2>1 DEF RoomType
<1>2. ASSUME NEW i \in Ids
      PROVE  /\ s.invites[i].of = r.invites[i].of /\ s.invites[i].created = r.invites[i].created
             /\ \/ s.invites[i].state = r.invites[i].state
                \/ /\ r.invites[i].state = "live"
                   /\ s.invites[i].state \in {"live", "consumed", "replacement_required"}
                   /\ s.invites[i].state = "replacement_required" => i \notin listed
  <2>1. s.invites[i] = [r.invites[i] EXCEPT !.accepted = A(i), !.state = State(i)] BY <1>1
  <2>2. \/ State(i) = r.invites[i].state
        \/ /\ r.invites[i].state = "live" /\ State(i) \in {"live", "consumed", "replacement_required"}
           /\ State(i) = "replacement_required" => i \notin listed
    OBVIOUS
  <2>3. r.invites[i] \in InviteType BY Fields
  <2>. HIDE DEF s, A, State, f
  <2>. QED BY <2>1, <2>2, <2>3 DEF InviteType
<1>. HIDE DEF s, A, State, f
<1>3. /\ Recorded(s) = Recorded(r) /\ InState(s, "receipt_pending") = InState(r, "receipt_pending")
      /\ InState(s, "revoked") = InState(r, "revoked")
      /\ ToReplace(r) \subseteq ToReplace(s)
  BY <1>2 DEF Recorded, InState, ToReplace
<1>4. \A i \in Ids : Replacing(s, i) = Replacing(r, i)
  <2>1. \A j \in InState(r, "receipt_pending") : j \in Ids BY DEF InState
  <2>. QED BY <1>2, <1>3, <2>1 DEF Replacing
<1>5. LegalInvites(s)
  <2>1. SUFFICES ASSUME NEW i \in Recorded(s) PROVE LegalInvite(s, i) BY DEF LegalInvites
  <2>2. /\ i \in Ids /\ i \in Recorded(r) /\ LegalInvite(r, i)
        /\ r.invites[i].of \in {0} \cup Recorded(r) /\ s.invites[i].of = r.invites[i].of
    BY <1>2, <1>3, <2>1 DEF Books, LegalInvites, LegalInvite, Recorded
  <2>3. \/ SourceOf(s, i) = SourceOf(r, i)
        \/ SourceOf(r, i) = "live"
    BY <1>2, <2>2 DEF SourceOf, Recorded
  <2>4. r.invites[i].of = 0 \/ Replacing(s, r.invites[i].of) = Replacing(r, r.invites[i].of)
    BY <1>4, <2>2 DEF Recorded
  <2>5. r.invites[i].of = 0 => SourceOf(r, i) = "none" BY DEF SourceOf
  <2>. QED BY <1>2, <1>3, <2>2, <2>3, <2>4, <2>5 DEF LegalInvite
<1>6. SameRoster(r, s) BY <1>1, <1>2 DEF SameRoster
<1>7. ASSUME NEW i \in ToReplace(s), i \notin ToReplace(r)
      PROVE  i \notin sec /\ \A p \in Joined(v) : v[p] = i => Seated(r, p) \/ Blocked(r, p, i)
  BY <1>2, <1>7 DEF ToReplace, InState
<1>8. Books(s, v, sec) BY <1>5, <1>6, <1>7, ReissuedBooks
<1>. QED BY <1>8 DEF s

LEMMA ActivatedBooks ==
  ASSUME NEW r \in RoomType, NEW v, NEW sec, Books(r, v, sec) PROVE Books(Activated(r), v, sec)
<1>1. /\ Activated(r).invites = r.invites /\ Activated(r).seats = r.seats
      /\ Activated(r).epoch = r.epoch
  BY DEF Activated, RoomType
<1>2. SameRoster(r, Activated(r)) /\ ToReplace(Activated(r)) = ToReplace(r)
  BY <1>1 DEF SameRoster, ToReplace, InState
<1>3. LegalInvites(Activated(r))
  BY <1>1 DEF Books, LegalInvites, LegalInvite, Recorded, Replacing, InState, SourceOf
<1>. QED BY <1>2, <1>3, ReissuedBooks

LEMMA Markings ==
  ASSUME NEW r \in RoomType, NEW is, is \subseteq Ids, NEW state \in {"live", "revoked"}
  PROVE  /\ SameRoster(r, Marked(r, is, state))
         /\ \A i \in Ids : /\ Marked(r, is, state).invites[i].of = r.invites[i].of
                           /\ Marked(r, is, state).invites[i].state
                                = IF i \in is THEN state ELSE r.invites[i].state
<1>. DEFINE f == [i \in Ids |-> IF i \in is THEN [r.invites[i] EXCEPT !.state = state] ELSE r.invites[i]]
            s == Marked(r, is, state)
<1>1. s.invites = f /\ s.seats = r.seats /\ s.epoch = r.epoch
  <2>1. s = [r EXCEPT !.invites = f] BY DEF Marked
  <2>. HIDE DEF s, f
  <2>. QED BY <2>1 DEF RoomType
<1>2. ASSUME NEW i \in Ids
      PROVE  /\ s.invites[i].of = r.invites[i].of /\ s.invites[i].created = r.invites[i].created
             /\ s.invites[i].state = IF i \in is THEN state ELSE r.invites[i].state
  <2>1. r.invites[i] \in InviteType BY Fields
  <2>2. s.invites[i] = IF i \in is THEN [r.invites[i] EXCEPT !.state = state] ELSE r.invites[i]
    BY <1>1
  <2>. HIDE DEF s, f
  <2>3. CASE i \in is
    <3>1. s.invites[i] = [r.invites[i] EXCEPT !.state = state] BY <2>2, <2>3
    <3>. QED BY <2>1, <2>3, <3>1 DEF InviteType
  <2>4. CASE i \notin is BY <2>2, <2>4
  <2>. QED BY <2>3, <2>4
<1>. HIDE DEF s, f
<1>3. SameRoster(r, s) BY <1>1, <1>2 DEF SameRoster
<1>. QED BY <1>2, <1>3 DEF s

(* With an invite that is revoked goes the replacement that it may have.   *)
LEMMA RevokedBooks ==
  ASSUME NEW r \in RoomType, NEW v, NEW sec, Books(r, v, sec), NEW is, is \subseteq Recorded(r),
         \A j \in InState(r, "receipt_pending") : r.invites[j].of \in is => j \in is
  PROVE  Books(Marked(r, is, "revoked"), v, sec)
<1>. DEFINE s == Marked(r, is, "revoked")
<1>1. is \subseteq Ids BY DEF Recorded
<1>2. /\ SameRoster(r, s)
      /\ \A i \in Ids : s.invites[i].of = r.invites[i].of
      /\ \A i \in Ids : s.invites[i].state = IF i \in is THEN "revoked" ELSE r.invites[i].state
  BY <1>1, Markings
<1>. HIDE DEF s
<1>3. Recorded(s) = Recorded(r) BY <1>1, <1>2 DEF Recorded
<1>4. ToReplace(s) \subseteq ToReplace(r) BY <1>2 DEF ToReplace, InState
<1>5. \A i \in Ids : Replacing(s, i) = Replacing(r, i) \ is
  <2>1. InState(s, "receipt_pending") = InState(r, "receipt_pending") \ is BY <1>2 DEF InState
  <2>2. \A j \in InState(r, "receipt_pending") : j \in Ids BY DEF InState
  <2>. QED BY <1>2, <2>1, <2>2 DEF Replacing
<1>6. ASSUME NEW i \in Recorded(r) PROVE LegalInvite(s, i)
  <2>1. i \in Ids /\ LegalInvite(r, i) /\ r.invites[i].of \in {0} \cup Recorded(r)
    BY DEF Books, LegalInvites, LegalInvite, Recorded
  <2>2. s.invites[i].of = r.invites[i].of /\ s.invites[i].of \in {0} \cup Recorded(s)
    BY <1>2, <1>3, <2>1
  <2>3. SourceOf(s, i) = SourceOf(r, i) \/ (r.invites[i].of \in is /\ SourceOf(s, i) = "revoked")
    <3>1. CASE r.invites[i].of = 0 BY <2>2, <3>1 DEF SourceOf
    <3>2. CASE r.invites[i].of # 0 /\ r.invites[i].of \in Ids BY <1>2, <2>2, <3>2 DEF SourceOf
    <3>. QED BY <2>1, <3>1, <3>2 DEF Recorded
  <2>4. s.invites[i].state = "receipt_pending" =>
          SourceOf(s, i) = "replacement_required" /\ Replacing(s, r.invites[i].of) = {i}
    <3>1. SUFFICES ASSUME s.invites[i].state = "receipt_pending"
          PROVE  SourceOf(s, i) = "replacement_required" /\ Replacing(s, r.invites[i].of) = {i}
      OBVIOUS
    <3>2. r.invites[i].state = "receipt_pending" /\ i \notin is BY <1>2, <2>1, <3>1
    <3>3. SourceOf(r, i) = "replacement_required" /\ Replacing(r, r.invites[i].of) = {i}
      BY <2>1, <3>2 DEF LegalInvite
    <3>4. r.invites[i].of \notin is BY <2>1, <3>2 DEF InState
    <3>5. r.invites[i].of \in Ids BY <2>1, <3>3 DEF SourceOf, Recorded
    <3>. QED BY <1>5, <2>3, <3>2, <3>3, <3>4, <3>5
  <2>5. s.invites[i].state \in {"live", "consumed", "replacement_required"} =>
          SourceOf(s, i) \in {"none", "revoked"}
    BY <1>2, <2>1, <2>3 DEF LegalInvite
  <2>6. SourceOf(r, i) \in {"none", "revoked", "replacement_required"}
    <3>1. r.invites[i] \in InviteType BY <2>1, Fields
    <3>2. r.invites[i].state \in {"live", "receipt_pending", "replacement_required", "consumed", "revoked"}
      BY <3>1 DEF InviteType, Recorded
    <3>. QED BY <2>1, <3>2 DEF LegalInvite
  <2>. QED BY <2>2, <2>3, <2>4, <2>5, <2>6 DEF LegalInvite
<1>7. LegalInvites(s) BY <1>3, <1>6 DEF LegalInvites
<1>8. Books(s, v, sec) BY <1>2, <1>4, <1>7, ReissuedBooks
<1>. QED BY <1>8 DEF s

(* The replacement j is live, and the invite i that it replaces is revoked. *)
LEMMA ConfirmedBooks ==
  ASSUME NEW r \in RoomType, NEW v, NEW sec, Books(r, v, sec),
         NEW i \in ToReplace(r), NEW j \in Replacing(r, i)
  PROVE  Books(Marked(Marked(r, {i}, "revoked"), {j}, "live"), v, sec)
<1>. DEFINE m == Marked(r, {i}, "revoked")
            s == Marked(m, {j}, "live")
<1>1. /\ i \in Ids /\ r.invites[i].state = "replacement_required" /\ j \in Ids
      /\ r.invites[j].state = "receipt_pending" /\ r.invites[j].of = i /\ i # j
  BY DEF ToReplace, InState, Replacing
<1>2. /\ SameRoster(r, m) /\ m \in RoomType
      /\ \A k \in Ids : m.invites[k].of = r.invites[k].of
      /\ \A k \in Ids : m.invites[k].state = IF k \in {i} THEN "revoked" ELSE r.invites[k].state
  <2>1. {i} \subseteq Ids BY <1>1
  <2>. QED BY <2>1, Markings, MarkedType
<1>. HIDE DEF m
<1>3. /\ SameRoster(m, s)
      /\ \A k \in Ids : s.invites[k].of = m.invites[k].of
      /\ \A k \in Ids : s.invites[k].state = IF k \in {j} THEN "live" ELSE m.invites[k].state
  <2>1. {j} \subseteq Ids BY <1>1
  <2>. QED BY <1>2, <2>1, Markings
<1>. HIDE DEF s
<1>4. /\ SameRoster(r, s) /\ s.invites[i].state = "revoked" /\ s.invites[j].state = "live"
      /\ \A k \in Ids : s.invites[k].of = r.invites[k].of
      /\ \A k \in Ids : k # i /\ k # j => s.invites[k].state = r.invites[k].state
  BY <1>1, <1>2, <1>3 DEF SameRoster
<1>5. Recorded(s) = Recorded(r) /\ ToReplace(s) \subseteq ToReplace(r)
  BY <1>1, <1>4 DEF Recorded, ToReplace, InState
<1>6. \A k \in Ids : Replacing(s, k) \subseteq Replacing(r, k) BY <1>4 DEF Replacing, InState
<1>7. ASSUME NEW k \in Recorded(r) PROVE LegalInvite(s, k)
  <2>1. k \in Ids /\ LegalInvite(r, k) /\ r.invites[k].of \in {0} \cup Recorded(r)
    BY DEF Books, LegalInvites, LegalInvite, Recorded
  <2>2. s.invites[k].of = r.invites[k].of /\ s.invites[k].of \in {0} \cup Recorded(s)
    BY <1>4, <1>5, <2>1
  <2>3. /\ r.invites[k].of # i /\ r.invites[k].of # j => SourceOf(s, k) = SourceOf(r, k)
        /\ r.invites[k].of = i => SourceOf(s, k) = "revoked" /\ SourceOf(r, k) = "replacement_required"
        /\ r.invites[k].of = j => SourceOf(r, k) = "receipt_pending"
    <3>1. 0 \notin Ids BY Constants DEF Ids
    <3>2. r.invites[k].of # i /\ r.invites[k].of # j => SourceOf(s, k) = SourceOf(r, k)
      BY <1>4, <2>1, <2>2 DEF SourceOf, Recorded
    <3>. QED BY <1>1, <1>4, <2>2, <3>1, <3>2 DEF SourceOf
  <2>4. CASE k = i BY <1>1, <1>4, <2>1, <2>2, <2>3, <2>4 DEF LegalInvite
  <2>5. CASE k = j BY <1>1, <1>4, <2>1, <2>2, <2>3, <2>5 DEF LegalInvite
  <2>6. CASE k # i /\ k # j
    <3>1. s.invites[k].state = r.invites[k].state BY <1>4, <2>1, <2>6
    <3>2. s.invites[k].state = "receipt_pending" =>
            SourceOf(s, k) = "replacement_required" /\ Replacing(s, s.invites[k].of) = {k}
      <4>1. SUFFICES ASSUME r.invites[k].state = "receipt_pending"
            PROVE  SourceOf(s, k) = "replacement_required" /\ Replacing(s, r.invites[k].of) = {k}
        BY <2>2, <3>1
      <4>2. SourceOf(r, k) = "replacement_required" /\ Replacing(r, r.invites[k].of) = {k}
        BY <2>1, <4>1 DEF LegalInvite
      <4>3. r.invites[k].of # i BY <2>6, <4>2
      <4>4. r.invites[k].of # j BY <2>3, <4>2
      <4>5. r.invites[k].of \in Ids BY <2>1, <4>2 DEF SourceOf, Recorded
      <4>6. k \in Replacing(s, r.invites[k].of) BY <2>1, <2>2, <3>1, <4>1 DEF Replacing, InState
      <4>. QED BY <1>6, <2>3, <4>2, <4>3, <4>4, <4>5, <4>6
    <3>. QED BY <2>1, <2>2, <2>3, <3>1, <3>2 DEF LegalInvite
  <2>. QED BY <2>4, <2>5, <2>6
<1>8. LegalInvites(s) BY <1>5, <1>7 DEF LegalInvites
<1>9. Books(s, v, sec) BY <1>4, <1>5, <1>8, ReissuedBooks
<1>. QED BY <1>9 DEF s, m

(* Another invite is recorded, that nobody came by: a new one, or the replacement of one *)
(* that has none.                                                                        *)
LEMMA RecordedBooks ==
  ASSUME NEW r \in RoomType, NEW v, NEW sec, Books(r, v, sec), NEW i \in Ids, i \notin Recorded(r),
         \A p \in Joined(v) : v[p] # i, NEW new \in InviteType,
         \/ new.state = "live" /\ new.of = 0
         \/ /\ new.state = "receipt_pending" /\ new.of \in ToReplace(r)
            /\ Replacing(r, new.of) = {},
         NEW s, s = [r EXCEPT !.invites[i] = new]
  PROVE  Books(s, v, sec)
<1>1. /\ s.seats = r.seats /\ s.epoch = r.epoch /\ s.invites[i] = new
      /\ \A k \in Ids : k # i => s.invites[k] = r.invites[k]
  <2>1. r.invites \in [Ids -> InviteType] BY Fields
  <2>. DEFINE f == [r.invites EXCEPT ![i] = new]
  <2>2. s = [r EXCEPT !.invites = f] OBVIOUS
  <2>3. f[i] = new /\ \A k \in Ids : k # i => f[k] = r.invites[k] BY <2>1
  <2>. HIDE DEF f
  <2>4. s.seats = r.seats /\ s.epoch = r.epoch /\ s.invites = f BY <2>2 DEF RoomType
  <2>. QED BY <2>3, <2>4
<1>2. /\ Recorded(s) = Recorded(r) \cup {i} /\ ToReplace(s) = ToReplace(r)
      /\ r.invites[i].state = "none" /\ 0 \notin Ids
  BY <1>1, Constants DEF Recorded, ToReplace, InState, Ids
<1>3. /\ \A states : SeatsIn(s, states) = SeatsIn(r, states)
      /\ Active(s) = Active(r) /\ Gone(s) = Gone(r) /\ \A p : NextSlot(s, p) = NextSlot(r, p)
  <2>. USE <1>1
  <2>1. s.seats = r.seats OBVIOUS
  <2>. QED BY ONLY <2>1, SameSeats
<1>4. \A p : Seated(s, p) <=> Seated(r, p) BY <1>3 DEF Seated
<1>5. ASSUME NEW p \in Joined(v), v[p] \in Ids PROVE Blocked(s, p, v[p]) <=> Blocked(r, p, v[p])
  <2>1. s.invites[v[p]] = r.invites[v[p]] BY <1>1, <1>5
  <2>. QED BY <1>1, <1>3, <2>1 DEF Blocked
<1>6. Counted(s) BY <1>1, <1>3 DEF Books, Counted
<1>7. Housed(s, v) BY <1>3, <1>4, <1>5 DEF Books, Housed
<1>8. OneSeat(s) BY <1>3 DEF Books, OneSeat
<1>9. Cared(s, v) /\ Lost(s, sec)
  <2>1. ToReplace(r) \subseteq Ids BY DEF ToReplace, InState
  <2>. QED BY <1>2, <1>4, <1>5, <2>1 DEF Books, Cared, Lost
<1>10. \A k \in Ids : Replacing(s, k) = Replacing(r, k)
                         \cup (IF new.state = "receipt_pending" /\ new.of = k THEN {i} ELSE {})
  BY <1>1, <1>2 DEF Replacing, InState
<1>11. ASSUME NEW k \in Recorded(r) PROVE LegalInvite(s, k)
  <2>1. k \in Ids /\ LegalInvite(r, k) /\ r.invites[k].of \in {0} \cup Recorded(r) /\ k # i
    BY DEF Books, LegalInvites, LegalInvite, Recorded
  <2>2. s.invites[k] = r.invites[k] /\ r.invites[k].of # i BY <1>1, <1>2, <2>1 DEF Recorded
  <2>3. SourceOf(s, k) = SourceOf(r, k)
    <3>1. r.invites[k].of # 0 => s.invites[r.invites[k].of] = r.invites[r.invites[k].of]
      BY <1>1, <2>1, <2>2 DEF Recorded
    <3>. QED BY <2>2, <3>1 DEF SourceOf
  <2>4. ASSUME r.invites[k].state = "receipt_pending"
        PROVE  Replacing(s, r.invites[k].of) = Replacing(r, r.invites[k].of)
    <3>1. SourceOf(r, k) = "replacement_required" /\ Replacing(r, r.invites[k].of) = {k}
      BY <2>1, <2>4 DEF LegalInvite
    <3>2. r.invites[k].of \in Ids BY <2>1, <3>1 DEF SourceOf, Recorded
    <3>3. ~(new.state = "receipt_pending" /\ new.of = r.invites[k].of) BY <3>1
    <3>. QED BY <1>10, <3>2, <3>3
  <2>. QED BY <1>2, <2>1, <2>2, <2>3, <2>4 DEF LegalInvite
<1>12. LegalInvite(s, i)
  <2>1. CASE new.state = "live" /\ new.of = 0 BY <1>1, <2>1 DEF LegalInvite, SourceOf
  <2>2. CASE /\ new.state = "receipt_pending" /\ new.of \in ToReplace(r)
             /\ Replacing(r, new.of) = {}
    <3>1. new.of \in Ids /\ new.of \in Recorded(r) /\ new.of # i
          /\ r.invites[new.of].state = "replacement_required"
      BY <1>2, <2>2 DEF ToReplace, InState, Recorded
    <3>2. SourceOf(s, i) = "replacement_required" BY <1>1, <1>2, <3>1 DEF SourceOf
    <3>3. Replacing(s, new.of) = {i} BY <1>10, <2>2, <3>1
    <3>. QED BY <1>1, <1>2, <2>2, <3>1, <3>2, <3>3 DEF LegalInvite
  <2>. QED BY <2>1, <2>2
<1>13. LegalInvites(s) BY <1>2, <1>11, <1>12 DEF LegalInvites
<1>. QED BY <1>6, <1>7, <1>8, <1>9, <1>13 DEF Books

(* A peer that has no seat gets its next one.                              *)
LEMMA PendingBooks ==
  ASSUME NEW r \in RoomType, NEW c, NEW out, Sound(r, c, out), NEW v, NEW sec, Books(r, v, sec),
         NEW p \in Peers, ~Seated(r, p), NextSlot(r, p) \in Slots,
         NEW seat, seat.state = "pending",
         NEW s, s = [r EXCEPT !.seats[NextSlot(r, p)] = seat]
  PROVE  Books(s, v, sec)
<1>. DEFINE z == NextSlot(r, p)
<1>1. /\ s.invites = r.invites /\ s.epoch = r.epoch /\ s.seats[z] = seat
      /\ \A x \in Slots : x # z => s.seats[x] = r.seats[x]
  <2>1. r.seats \in [Slots -> SeatType] BY Fields
  <2>. HIDE DEF z
  <2>. DEFINE f == [r.seats EXCEPT ![z] = seat]
  <2>2. s = [r EXCEPT !.seats = f] BY DEF z
  <2>3. f[z] = seat /\ \A x \in Slots : x # z => f[x] = r.seats[x] BY <2>1 DEF z
  <2>. HIDE DEF f
  <2>4. s.invites = r.invites /\ s.epoch = r.epoch /\ s.seats = f BY <2>2 DEF RoomType
  <2>. QED BY <2>3, <2>4
<1>2. z \in Slots /\ z[1] = p /\ r.seats[z].state = "none"
  BY NextSlotUnused DEF Sound, Used, NextSlot
<1>. HIDE DEF z
<1>3. /\ Active(s) = Active(r) /\ SeatsIn(s, {"removed"}) = SeatsIn(r, {"removed"})
      /\ SeatsIn(s, {"pending", "active"}) = SeatsIn(r, {"pending", "active"}) \cup {z}
      /\ Gone(s) = Gone(r) /\ \A x \in Gone(r) : s.seats[x] = r.seats[x]
  BY <1>1, <1>2 DEF Active, SeatsIn, Gone
<1>4. Seated(s, p) BY <1>2, <1>3 DEF Seated
<1>5. ASSUME NEW q, q # p PROVE (Seated(s, q) <=> Seated(r, q)) /\ NextSlot(s, q) = NextSlot(r, q)
  <2>1. \A x \in Slots : x[1] = q => s.seats[x] = r.seats[x] BY <1>1, <1>2, <1>5
  <2>. QED BY <2>1, SeatedByPeer
<1>6. \A q, i : Blocked(s, q, i) <=> Blocked(r, q, i) BY <1>1, <1>3 DEF Blocked
<1>7. Counted(s) BY <1>1, <1>3 DEF Books, Counted
<1>8. Housed(s, v) BY <1>4, <1>5, <1>6 DEF Books, Housed
<1>9. ToReplace(s) = ToReplace(r) BY <1>1 DEF ToReplace, InState
<1>10. Cared(s, v) /\ Lost(s, sec) BY <1>4, <1>5, <1>6, <1>9 DEF Books, Cared, Lost
<1>11. OneSeat(s)
  <2>1. \A x \in SeatsIn(r, {"pending", "active"}) : x[1] # p BY DEF Seated
  <2>. QED BY <1>2, <1>3, <2>1 DEF Books, OneSeat
<1>12. LegalInvites(s)
  BY <1>1 DEF Books, LegalInvites, LegalInvite, Recorded, Replacing, InState, SourceOf
<1>. QED BY <1>7, <1>8, <1>10, <1>11, <1>12 DEF Books

(* Contacts come by invites that have a secret, and find a seat; others leave. *)
Brought(r, v, w) ==
  \A p \in Joined(w) :
    \/ p \in Joined(v) /\ w[p] = v[p]
    \/ w[p] \notin Ids
    \/ w[p] \notin ToReplace(r) /\ NextSlot(r, p) \in Slots
LEMMA OutsideBooks ==
  ASSUME NEW r, NEW v, NEW sec, Books(r, v, sec), NEW w, Brought(r, v, w), NEW less, Lost(r, less)
  PROVE  Books(r, w, less)
<1>1. ToReplace(r) \subseteq Ids BY DEF ToReplace, InState
<1>. QED BY <1>1 DEF Books, Housed, Cared, Brought

-----------------------------------------------------------------------------
(* The room's books are in order whatever step is taken, and so are those of the room that *)
(* a pass will save.  What an operation is about to do is still what it has found to do:   *)
(* to replace what has no replacement, to seat who has no seat.                            *)
CameBy(r, v) == \A p \in Peers : v[p] \in Ids => v[p] \in Recorded(r)
Ledger(r, v, sec, list) == Books(r, v, sec) /\ CameBy(r, v) /\ sec \subseteq list
Wanting(r, i) == i \in ToReplace(r) /\ Replacing(r, i) = {}
Rotating == {"rotate", "rotated", "replace", "replaced"}
OpLedger(r, v, sec, o) ==
  /\ o.pc \in Passing => Books(o.next, v, sec) /\ Recorded(o.next) = Recorded(r)
  /\ o.pc \notin Passing => o.next = NewRoom
  /\ o.pc = "pend" => ~Seated(r, o.seat[1])
  /\ o.pc = "record" => o.offer.state = "live" /\ o.offer.of = 0
  /\ o.pc = "replaced" => o.offer.state = "receipt_pending" /\ Wanting(r, o.offer.of)
  /\ o.pc = "replace" => Wanting(r, o.target)
  /\ o.pc = "rotated" => o.target \in ToReplace(r)
  /\ o.pc \in Rotating => o.todo \subseteq ToReplace(r)
  /\ o.pc \in {"revoking", "revoked"} => o.target \in Recorded(r)
Accounted(r, v, sec, list, o) == Ledger(r, v, sec, list) /\ OpLedger(r, v, sec, o)
RInv == IInv /\ Accounted(room, via, secrets, listed, op)
Balanced == Accounted(room', via', secrets', listed', op')

LEMMA BalancedIsKept == Balanced => Accounted(room, via, secrets, listed, op)'
BY DEF Balanced, Accounted, Ledger, OpLedger, Books, CameBy, Wanting, Counted, Housed, OneSeat,
       LegalInvites, LegalInvite, SourceOf, ToReplace, Cared, Lost, Joined, InState, Replacing,
       Recorded, Seated, SeatsIn, Active, Blocked, Gone, NextSlot

(* What the invariant says of the values that a step starts from.          *)
LEMMA Given ==
  ASSUME RInv
  PROVE  /\ room \in RoomType /\ op \in OpType /\ clock \in Nat /\ Sound(room, clock, outlived)
         /\ via \in [Peers -> {Absent, External} \cup Ids]
         /\ Recorded(room) \subseteq 1..minted /\ secrets \subseteq 1..minted
         /\ minted \in 0..MaxInvites /\ MaxInvites \in Nat /\ 1..minted \subseteq Ids
         /\ Ledger(room, via, secrets, listed) /\ Books(room, via, secrets)
         /\ OpLedger(room, via, secrets, op) /\ ToReplace(room) \subseteq Recorded(room)
<1>1. clock \in Nat /\ minted \in 0..MaxInvites /\ MaxInvites \in Nat
  BY Constants DEF RInv, IInv, Types, ClockOK, CoreOK
<1>2. 1..minted \subseteq Ids BY <1>1 DEF Ids
<1>3. ToReplace(room) \subseteq Recorded(room) BY DEF ToReplace, InState, Recorded
<1>. QED BY <1>1, <1>2, <1>3 DEF RInv, IInv, Types, RoomOK, OpOK, CoreOK, Accounted, Ledger

(* Operations that have nothing in hand, and those that go on with what they had. *)
LEMMA AtEase ==
  ASSUME NEW r, NEW v, NEW sec, NEW o, o.pc \in {"idle", "look", "unseat"}, o.next = NewRoom
  PROVE  OpLedger(r, v, sec, o)
BY DEF OpLedger, Passing, Rotating

LEMMA IdleAtEase ==
  /\ \A r, v, sec : OpLedger(r, v, sec, Idle)
  /\ Idle.next = NewRoom /\ Idle.pc = "idle"
<1>1. Idle.next = NewRoom /\ Idle.pc = "idle" BY DEF Idle
<1>. QED BY <1>1, AtEase

LEMMA Onward ==
  ASSUME NEW r, NEW v, NEW sec, NEW o, OpLedger(r, v, sec, o), NEW p,
         o.pc \in Passing, p.pc \in Passing, p.next = o.next
  PROVE  OpLedger(r, v, sec, p)
BY DEF OpLedger, Passing, Rotating

(* Contacts and secrets change, the room and the operation do not.         *)
LEMMA OutsideOp ==
  ASSUME NEW r, NEW v, NEW sec, NEW o, OpLedger(r, v, sec, o), NEW w, NEW less,
         o.pc \in Passing => Books(o.next, w, less)
  PROVE  OpLedger(r, w, less, o)
BY DEF OpLedger

(* A pass: whoever departed is removed, whoever is to be admitted has a seat to take, and *)
(* the invites are settled after that.                                                    *)
LEMMA PassBooks ==
  ASSUME RInv, NEW t \in 0..MaxClock, Look(t) \/ Announce(t) PROVE Balanced
<1>. DEFINE left == Left(t)
            entered == Entered(t)
            settled == Settled(Entered(t))
            next == Reconciled(t)
<1>1. PICK o \in OpType : Reconcile(o, t)
  <2>. QED BY Given, IdleType DEF Look, Announce
<1>2. Types /\ UNCHANGED core BY DEF RInv, IInv, Look, Announce
<1>3. /\ left \in RoomType /\ entered \in RoomType /\ settled \in RoomType /\ next \in RoomType
      /\ Recorded(left) = Recorded(room) /\ Recorded(next) = Recorded(room)
  BY <1>2, ReconciledType, SettledType
<1>4. (room' = room \/ room' = left) /\ (Departed(room) # {} => clock <= t) /\ listed' = listed
  <2>1. listed' = listed BY <1>1, ReconcileUnfolded
  <2>2. CASE Departed(room) = {} BY <1>1, <2>1, <2>2 DEF Reconcile, file
  <2>3. CASE Departed(room) # {}
    <3>1. room' = left /\ Now(t) BY <1>1, <2>3, ReconcileUnfolded
    <3>2. clock <= t BY <3>1, Given DEF Now
    <3>. QED BY <2>1, <3>1, <3>2
  <2>. QED BY <2>2, <2>3
<1>5. Books(left, via, secrets) /\ \E c \in Nat : \E out : Sound(left, c, out)
  <2>. DEFINE xs == Departed(room)
  <2>1. xs \subseteq SeatsIn(room, {"pending", "active"}) BY DEF Departed, Active, SeatsIn
  <2>2. t \in Nat BY Constants
  <2>3. xs # {} => clock <= t BY <1>4
  <2>. HIDE DEF xs
  <2>4. Books(Removed(room, xs, t), via, secrets) BY <2>1, <2>3, Given, RemovedBooks
  <2>5. \E c \in Nat : \E out : Sound(Removed(room, xs, t), c, out)
    <3>1. CASE xs = {}
      <4>1. clock <= clock BY Given
      <4>. QED BY <2>1, <3>1, <4>1, Given, RemovedSound
    <3>2. CASE xs # {}
      <4>1. clock <= t /\ (xs # {} => t <= t) BY <2>2, <2>3, <3>2
      <4>. DEFINE more == outlived \cup {<<x[1], i>> : x \in xs, i \in Recorded(room)}
      <4>2. room \in RoomType /\ clock \in Nat /\ Sound(room, clock, outlived) BY Given
      <4>3. Sound(Removed(room, xs, t), t, more)
        BY ONLY <2>1, <2>2, <4>1, <4>2, t \in 0..MaxClock, RemovedSound
      <4>. QED BY <2>2, <4>3
    <3>. QED BY <3>1, <3>2
  <2>. QED BY <2>4, <2>5 DEF xs, Left
<1>6. /\ Books(entered, via, secrets)
      /\ \A p \in Joined(via) : via[p] \in InState(entered, "live") =>
           Seated(entered, p) \/ Blocked(entered, p, via[p])
  <2>. HIDE DEF left
  <2>1. Books(Admitted(left), via, secrets)
        /\ \A p \in Joined(via) : via[p] \in InState(Admitted(left), "live") =>
             Seated(Admitted(left), p) \/ Blocked(Admitted(left), p, via[p])
    BY <1>3, <1>5, Given, AdmittedBooks
  <2>. QED BY <2>1 DEF Entered, left
<1>. HIDE DEF entered
<1>7. Books(settled, via, secrets)
  <2>1. secrets \subseteq listed BY Given DEF Ledger
  <2>2. Books(Settled(entered), via, secrets) BY <1>3, <1>6, <2>1, SettledBooks
  <2>. QED BY <2>2 DEF entered
<1>8. Books(next, via, secrets)
  <2>. HIDE DEF settled
  <2>1. Books(Activated(settled), via, secrets) BY <1>3, <1>7, ActivatedBooks
  <2>. QED BY <2>1 DEF Reconciled, settled
<1>9. op'.pc \in Passing /\ op'.next = next
  <2>1. PICK new : op' = Advance([o EXCEPT !.next = next, !.todo = listed \ Recorded(room),
                                           !.brief = Briefings(next, new)])
    BY <1>1, ReconcileUnfolded
  <2>. HIDE DEF next
  <2>. QED BY <1>1, <2>1 DEF OpType, Advance, Passing
<1>. HIDE DEF left, settled, next
<1>10. Recorded(room') = Recorded(room) BY <1>3, <1>4
<1>11. Ledger(room', via', secrets', listed')
  <2>1. Books(room', via, secrets) BY <1>4, <1>5, Given
  <2>2. CameBy(room', via) BY <1>10, Given DEF CameBy, Ledger
  <2>. QED BY <1>2, <1>4, <2>1, <2>2, Given DEF Ledger, core
<1>12. OpLedger(room', via', secrets', op')
  BY <1>2, <1>3, <1>8, <1>9, <1>10 DEF OpLedger, Passing, Rotating, core
<1>. QED BY <1>11, <1>12 DEF Balanced, Accounted

(* What is left alone, and what only the room's file is told.              *)
LEMMA LedgerStays ==
  ASSUME RInv, UNCHANGED <<room, via>>, secrets' \subseteq secrets, secrets' \subseteq listed'
  PROVE  Ledger(room', via', secrets', listed')
<1>1. Lost(room, secrets') BY Given DEF Books, Lost
<1>. QED BY <1>1, Given DEF Ledger, Books

LEMMA RestBooks ==
  ASSUME RInv, \/ ReadContacts \/ ReadInvites \/ RecordFails \/ Throws \/ Crash \/ Recovered
               \/ ReconcileRoom \/ RecoverInvites \/ \E b \in op.brief : Brief(b)
               \/ UNCHANGED vars
  PROVE  Balanced
<1>1. UNCHANGED <<room, via>>
  BY DEF ReadContacts, ReadInvites, RecordFails, Throws, Crash, Recovered, ReconcileRoom,
         RecoverInvites, Brief, vars, file, core
<1>2. secrets' \subseteq secrets /\ secrets' \subseteq listed'
  <2>1. secrets \subseteq listed BY Given DEF Ledger
  <2>. QED BY <2>1 DEF ReadContacts, ReadInvites, RecordFails, Throws, Crash, Recovered, ReconcileRoom,
         RecoverInvites, Brief, vars, core, cache, RefreshCaches
<1>3. Ledger(room', via', secrets', listed') BY <1>1, <1>2, LedgerStays
<1>4. OpLedger(room', via', secrets', op')
  <2>1. CASE op' = Idle \/ op' = [Idle EXCEPT !.pc = "look"]
             \/ op' = [Idle EXCEPT !.pc = "look", !.after = "recover"]
    <3>. DEFINE idle == Idle
    <3>1. idle \in OpType /\ idle.next = NewRoom /\ idle.pc = "idle" BY IdleType, IdleAtEase
    <3>. HIDE DEF idle
    <3>2. op' = idle \/ op' = [idle EXCEPT !.pc = "look"]
          \/ op' = [idle EXCEPT !.pc = "look", !.after = "recover"]
      BY <2>1 DEF idle
    <3>3. op'.pc \in {"idle", "look"} /\ op'.next = NewRoom BY <3>1, <3>2 DEF OpType
    <3>. QED BY <3>3, AtEase
  <2>2. CASE UNCHANGED <<room, core, op>>
    BY <2>2, Given DEF core
  <2>3. ASSUME NEW b \in op.brief, Brief(b) PROVE OpLedger(room', via', secrets', op')
    <3>. DEFINE o == [op EXCEPT !.brief = @ \ {b}]
    <3>1. UNCHANGED <<room, core>> /\ o \in OpType /\ o.next = op.next /\ o.pc = "brief" /\ op.pc = "brief"
      BY <2>3, Given DEF Brief, OpType, At, file
    <3>2. op' = o \/ op' = Idle \/ op' = Advance(o) BY <2>3 DEF Brief
    <3>. HIDE DEF o
    <3>3. op' = Idle \/ (op'.pc \in Passing /\ op.pc \in Passing /\ op'.next = op.next)
      BY <3>1, <3>2, AdvanceType DEF Passing
    <3>4. OpLedger(room, via, secrets, op') BY <3>3, Given, Onward, IdleAtEase
    <3>. QED BY <3>1, <3>4 DEF core
  <2>. QED BY <2>1, <2>2, <2>3 DEF ReadContacts, ReadInvites, RecordFails, Throws, Crash, Recovered,
         ReconcileRoom, RecoverInvites, vars, file, core, Done
<1>. QED BY <1>3, <1>4 DEF Balanced, Accounted

(* The invites are changed, and the operation is done with it or goes on to replace them. *)
LEMMA SaveBooks == ASSUME RInv, Save PROVE Balanced
<1>1. /\ op.pc \in Passing /\ room' = op.next /\ UNCHANGED <<core, listed>>
  BY DEF Save, At, Passing, cache
<1>2. Books(op.next, via, secrets) /\ Recorded(op.next) = Recorded(room)
  BY <1>1, Given DEF OpLedger
<1>3. Ledger(room', via', secrets', listed')
  BY <1>1, <1>2, Given DEF Ledger, CameBy, core
<1>4. op'.next = NewRoom /\ (op'.pc = "idle" \/ (op'.pc = "rotate" /\ op'.todo = ToReplace(room')))
  BY IdleAtEase, IdleType DEF Save, Idle, ToReplace
<1>5. OpLedger(room', via', secrets', op') BY <1>4 DEF OpLedger, Passing, Rotating
<1>. QED BY <1>3, <1>5 DEF Balanced, Accounted

LEMMA MarkBooks ==
  ASSUME RInv, SaveRevoked \/ SaveRotated \/ \E i, j \in Ids : ConfirmRecovered(i, j) PROVE Balanced
<1>. USE DEF Passing, Rotating
<1>1. UNCHANGED <<core, listed>> BY DEF SaveRevoked, SaveRotated, ConfirmRecovered, cache
<1>2. ASSUME Books(room', via, secrets), Recorded(room) \subseteq Recorded(room')
      PROVE  Ledger(room', via', secrets', listed')
  BY <1>1, <1>2, Given DEF Ledger, CameBy, core
<1>3. CASE SaveRevoked
  <2>. DEFINE i == op.target
              is == WithReplacement(op.target)
  <2>1. i \in Recorded(room) /\ i \in Ids /\ room' = Marked(room, is, "revoked") /\ op' = Idle
    BY <1>3, Given DEF SaveRevoked, At, Done, OpLedger, Recorded
  <2>2. Replacing(room, i) \subseteq InState(room, "receipt_pending")
        /\ InState(room, "receipt_pending") \subseteq Recorded(room)
    BY DEF Replacing, InState, Recorded
  <2>3. is \subseteq Recorded(room) /\ is \subseteq Ids
    <3>1. is \subseteq Recorded(room) BY <2>1, <2>2 DEF WithReplacement
    <3>. QED BY <3>1 DEF Recorded
  <2>4. ASSUME NEW j \in InState(room, "receipt_pending"), room.invites[j].of \in is PROVE j \in is
    <3>. DEFINE o == room.invites[j].of
    <3>1. LegalInvite(room, j) /\ room.invites[j].state = "receipt_pending" /\ o \in Ids
      <4>. HIDE DEF is
      <4>. QED BY <2>2, <2>3, <2>4, Given DEF Books, LegalInvites, InState
    <3>2. SourceOf(room, j) = "replacement_required" /\ 0 \notin Ids
      BY <3>1, Constants DEF LegalInvite, Ids
    <3>3. room.invites[o].state = "replacement_required" BY <3>1, <3>2 DEF SourceOf
    <3>4. o \notin Replacing(room, i) BY <3>3 DEF Replacing, InState
    <3>5. o = i BY <2>4, <3>4 DEF WithReplacement
    <3>6. j \in Replacing(room, i) BY <3>1, <3>5 DEF Replacing
    <3>. QED BY <3>3, <3>5, <3>6 DEF WithReplacement
  <2>. HIDE DEF i, is
  <2>5. Books(room', via, secrets) BY <2>1, <2>3, <2>4, Given, RevokedBooks
  <2>6. is \subseteq Ids BY <2>3 DEF Recorded
  <2>7. Recorded(room) \subseteq Recorded(room') BY <2>1, <2>6, Given, MarkedType
  <2>. QED BY <1>2, <2>1, <2>5, <2>7, IdleAtEase DEF Balanced, Accounted
<1>4. CASE SaveRotated
  <2>. DEFINE i == op.target
              is == Replacing(room, op.target)
  <2>1. i \in ToReplace(room) /\ i \in Ids /\ room' = Marked(room, is, "revoked")
        /\ op.pc = "rotated" /\ op' = [op EXCEPT !.pc = "replace"] /\ op.todo \subseteq ToReplace(room)
    BY <1>4, Given DEF SaveRotated, At, OpLedger, ToReplace, InState
  <2>2. is \subseteq InState(room, "receipt_pending")
        /\ InState(room, "receipt_pending") \subseteq Recorded(room)
    BY DEF Replacing, InState, Recorded
  <2>3. is \subseteq Recorded(room) /\ is \subseteq Ids BY <2>2 DEF Recorded
  <2>4. ASSUME NEW j \in InState(room, "receipt_pending"), room.invites[j].of \in is PROVE j \in is
    <3>. DEFINE o == room.invites[j].of
    <3>1. LegalInvite(room, j) /\ room.invites[j].state = "receipt_pending" /\ o \in Ids
      BY <2>2, <2>3, <2>4, Given DEF Books, LegalInvites, InState
    <3>2. SourceOf(room, j) = "replacement_required" /\ 0 \notin Ids
      BY <3>1, Constants DEF LegalInvite, Ids
    <3>3. room.invites[o].state = "replacement_required" BY <3>1, <3>2 DEF SourceOf
    <3>. QED BY <2>4, <3>3 DEF Replacing, InState
  <2>. HIDE DEF i, is
  <2>5. Books(room', via, secrets) BY <2>1, <2>3, <2>4, Given, RevokedBooks
  <2>6. Recorded(room) \subseteq Recorded(room') BY <2>1, <2>3, Given, MarkedType
  <2>7. /\ \A k \in Ids : room'.invites[k].of = room.invites[k].of
        /\ \A k \in Ids : room'.invites[k].state = IF k \in is THEN "revoked" ELSE room.invites[k].state
    BY <2>1, <2>3, Given, Markings
  <2>8. ToReplace(room') = ToReplace(room) BY <2>2, <2>7 DEF ToReplace, InState
  <2>9. Replacing(room', i) = {} BY <2>7 DEF Replacing, InState, is, i
  <2>10. op'.pc = "replace" /\ op'.target = i /\ op'.todo = op.todo /\ op'.next = op.next
    BY <2>1, Given DEF OpType, i
  <2>11. op.next = NewRoom BY <2>1, Given DEF OpLedger
  <2>12. OpLedger(room', via', secrets', op')
    BY <2>1, <2>8, <2>9, <2>10, <2>11 DEF OpLedger, Wanting
  <2>. QED BY <1>2, <2>5, <2>6, <2>12 DEF Balanced, Accounted
<1>5. ASSUME NEW i \in Ids, NEW j \in Ids, ConfirmRecovered(i, j) PROVE Balanced
  <2>1. i \in ToReplace(room) /\ j \in Replacing(room, i)
        /\ room' = Marked(Marked(room, {i}, "revoked"), {j}, "live")
        /\ op' = [Idle EXCEPT !.pc = "look"]
    BY <1>5 DEF ConfirmRecovered, ToReplace
  <2>2. Books(room', via, secrets) BY <2>1, Given, ConfirmedBooks
  <2>3. Recorded(room) \subseteq Recorded(room')
    <3>1. {i} \subseteq Ids /\ {j} \subseteq Ids OBVIOUS
    <3>2. Marked(room, {i}, "revoked") \in RoomType
          /\ Recorded(Marked(room, {i}, "revoked")) = Recorded(room) \cup {i}
      BY <3>1, Given, MarkedType
    <3>3. Recorded(room') = Recorded(room) \cup {i} \cup {j} BY <2>1, <3>1, <3>2, MarkedType
    <3>. QED BY <3>3
  <2>4. op'.pc = "look" /\ op'.next = NewRoom BY <2>1 DEF Idle
  <2>5. OpLedger(room', via', secrets', op') BY <2>4, AtEase
  <2>. QED BY <1>2, <2>2, <2>3, <2>5 DEF Balanced, Accounted
<1>. QED BY <1>3, <1>4, <1>5

LEMMA EditBooks ==
  ASSUME RInv, \/ UpdateBriefing
               \/ \E role \in Roles : DeleteRoleBriefing(role)
               \/ \E role \in Roles, text \in Texts : SetRoleBriefing(role, text)
  PROVE  Balanced
<1>1. /\ room'.seats = room.seats /\ room'.invites = room.invites /\ room'.epoch = room.epoch
      /\ UNCHANGED <<core, listed>>
  BY Given DEF UpdateBriefing, DeleteRoleBriefing, SetRoleBriefing, RoomType, cache
<1>2. SameRoster(room, room') /\ ToReplace(room') = ToReplace(room) /\ Recorded(room') = Recorded(room)
  BY <1>1 DEF SameRoster, ToReplace, InState, Recorded
<1>3. LegalInvites(room')
  BY <1>1, Given DEF Books, LegalInvites, LegalInvite, Recorded, Replacing, InState, SourceOf
<1>4. Books(room', via, secrets) BY <1>2, <1>3, Given, ReissuedBooks
<1>5. Ledger(room', via', secrets', listed') BY <1>1, <1>2, <1>4, Given DEF Ledger, CameBy, core
<1>6. op' = Idle \/ (op'.pc = "brief" /\ op'.next = room')
  BY DEF UpdateBriefing, DeleteRoleBriefing, SetRoleBriefing, Send, Done, Idle
<1>7. OpLedger(room', via', secrets', op')
  BY <1>1, <1>4, <1>6, IdleAtEase DEF OpLedger, Passing, Rotating, core
<1>. QED BY <1>5, <1>7 DEF Balanced, Accounted

LEMMA RecordBooks == ASSUME RInv, NEW t \in 0..MaxClock, Record(t) PROVE Balanced
<1>. DEFINE new == [op.offer EXCEPT !.created = t]
            i == op.target
<1>1. /\ op.pc \in {"record", "replaced"} /\ i \in Ids /\ i \notin Recorded(room)
      /\ room' = [room EXCEPT !.invites[i] = new] /\ UNCHANGED <<core, listed>>
  <2>1. op.pc \in {"record", "replaced"} /\ room' = [room EXCEPT !.invites[i] = new]
        /\ UNCHANGED <<core, listed>>
    BY DEF Record, cache
  <2>2. i \in 0..minted /\ i # 0 BY <2>1 DEF RInv, IInv, Types, OpOK, Targeted
  <2>3. i \in 1..minted BY <2>2, Given
  <2>4. i \notin Recorded(room) BY <2>1 DEF RInv, IInv, OpSound
  <2>. QED BY <2>1, <2>3, <2>4, Given
<1>2. op.offer \in InviteType BY Given DEF OpType
<1>3. new \in InviteType /\ new.state = op.offer.state /\ new.of = op.offer.of
  BY <1>2 DEF InviteType
<1>4. \/ op.pc = "record" /\ new.state = "live" /\ new.of = 0
      \/ /\ op.pc = "replaced" /\ new.state = "receipt_pending" /\ new.of \in ToReplace(room)
         /\ Replacing(room, new.of) = {} /\ op.todo \subseteq ToReplace(room)
  BY <1>1, <1>3, Given DEF OpLedger, Wanting, Rotating
<1>5. \A p \in Joined(via) : via[p] # i BY <1>1, Given DEF Ledger, CameBy, Joined
<1>6. op' = Idle \/ (op.pc = "replaced" /\ op' = [op EXCEPT !.pc = "rotate", !.todo = @ \ {op.offer.of}])
  BY <1>1 DEF Record, At
<1>. HIDE DEF new, i
<1>7. Books(room', via, secrets) BY <1>1, <1>3, <1>4, <1>5, Given, RecordedBooks
<1>8. room'.invites = [room.invites EXCEPT ![i] = new] /\ room.invites \in [Ids -> InviteType]
  BY <1>1, Given, Fields DEF RoomType
<1>9. Recorded(room) \subseteq Recorded(room') /\ ToReplace(room) \subseteq ToReplace(room')
  BY <1>1, <1>8 DEF Recorded, ToReplace, InState
<1>10. Ledger(room', via', secrets', listed')
  BY <1>1, <1>7, <1>9, Given DEF Ledger, CameBy, core
<1>11. OpLedger(room', via', secrets', op')
  <2>1. CASE op' = Idle BY <2>1, IdleAtEase
  <2>2. CASE op.pc = "replaced" /\ op' = [op EXCEPT !.pc = "rotate", !.todo = @ \ {op.offer.of}]
    <3>1. op'.pc = "rotate" /\ op'.todo \subseteq op.todo /\ op'.next = op.next
      BY <2>2, Given DEF OpType
    <3>2. op.next = NewRoom /\ op.todo \subseteq ToReplace(room')
      BY <1>4, <1>9, <2>2, Given DEF OpLedger, Passing
    <3>. QED BY <3>1, <3>2 DEF OpLedger, Passing, Rotating
  <2>. QED BY <1>6, <2>1, <2>2
<1>. QED BY <1>10, <1>11 DEF Balanced, Accounted

LEMMA SeatBooks ==
  ASSUME RInv, SavePending \/ \E t \in 0..MaxClock : Unseat(t) PROVE Balanced
<1>1. UNCHANGED <<core, listed>> BY DEF SavePending, Unseat, cache
<1>2. ASSUME Books(room', via, secrets), room'.invites = room.invites, op'.pc \in {"idle", "look"},
             op'.next = NewRoom
      PROVE  Balanced
  <2>1. Ledger(room', via', secrets', listed')
    BY <1>1, <1>2, Given DEF Ledger, CameBy, core, Recorded
  <2>. QED BY <1>2, <2>1, AtEase DEF Balanced, Accounted
<1>3. CASE SavePending
  <2>. DEFINE seat == Seat("pending", External, op.offer.role)
  <2>1. op.pc = "pend" /\ room' = [room EXCEPT !.seats[op.seat] = seat] /\ op.seat \in Slots
        /\ op' = [Idle EXCEPT !.pc = "look"]
    BY <1>3 DEF SavePending, At, RInv, IInv, Types, OpOK
  <2>2. PICK p \in Peers : op.seat = NextSlot(room, p) BY <2>1 DEF RInv, IInv, OpSound
  <2>3. op.seat[1] = p /\ ~Seated(room, p) /\ NextSlot(room, p) \in Slots
    BY <2>1, <2>2, Given DEF OpLedger, NextSlot
  <2>4. seat.state = "pending" BY DEF Seat
  <2>5. op'.pc = "look" /\ op'.next = NewRoom BY <2>1 DEF Idle
  <2>. HIDE DEF seat
  <2>6. room' = [room EXCEPT !.seats[NextSlot(room, p)] = seat] BY <2>1, <2>2
  <2>7. Books(room', via, secrets) BY <2>3, <2>4, <2>6, Given, PendingBooks
  <2>8. room'.invites = room.invites BY <2>6, Given DEF RoomType
  <2>. QED BY <1>2, <2>5, <2>7, <2>8
<1>4. ASSUME NEW t \in 0..MaxClock, Unseat(t) PROVE Balanced
  <2>. DEFINE xs == {op.seat}
  <2>1. xs \subseteq SeatsIn(room, {"pending", "active"})
    BY <1>4 DEF Unseat, At, RInv, IInv, OpSound
  <2>2. room' = Removed(room, xs, t) /\ clock <= t /\ op' = Idle
    BY <1>4, Given, Constants DEF Unseat, Now, Done
  <2>. HIDE DEF xs
  <2>3. Books(room', via, secrets) BY <2>1, <2>2, Given, RemovedBooks
  <2>4. room'.invites = room.invites
    <3>1. xs \subseteq Slots BY <2>1 DEF SeatsIn
    <3>2. PICK f \in [Slots -> SeatType], e \in Nat : room' = WithSeats(room, f, e)
      <4>1. room \in RoomType BY Given
      <4>. QED BY <2>2, <3>1, <4>1, RemovedType
    <3>. QED BY <3>2, Given, Reseated
  <2>. QED BY <1>2, <2>2, <2>3, <2>4, IdleAtEase
<1>. QED BY <1>3, <1>4

(* Secrets are generated and revoked, and the operation keeps what it has to record. *)
LEMMA SecretBooks ==
  ASSUME RInv, \/ \E i \in Ids : RevokeSecret(i) \/ Rotate(i) \/ RevokeInvite(i)
               \/ Replace \/ \E o \in Offers : CreateInvite(o)
  PROVE  Balanced
<1>. USE DEF Passing, Rotating
<1>1. UNCHANGED <<room, via>>
  BY DEF RevokeSecret, Rotate, RevokeInvite, Replace, CreateInvite, file, core
<1>2. ASSUME NEW i \in Ids, RevokeSecret(i) PROVE Balanced
  <2>. DEFINE o == [op EXCEPT !.todo = @ \ {i}]
  <2>1. secrets' \subseteq secrets /\ listed' = secrets' /\ op.pc \in {"orphans", "revoking"}
    BY <1>2 DEF RevokeSecret, RefreshCaches
  <2>2. Ledger(room', via', secrets', listed') BY <1>1, <2>1, LedgerStays
  <2>3. o \in OpType /\ o.next = op.next /\ o.pc = op.pc /\ o.target = op.target
    BY Given DEF OpType
  <2>4. /\ op.pc = "orphans" => op' = Advance(o)
        /\ op.pc = "revoking" => op' = [o EXCEPT !.pc = IF o.todo = {} THEN "revoked" ELSE @]
    BY <1>2 DEF RevokeSecret, At
  <2>. HIDE DEF o
  <2>5. /\ op.pc = "orphans" => op'.pc \in Passing
        /\ op.pc = "revoking" => op'.pc \in {"revoking", "revoked"} /\ op'.target = op.target
        /\ op'.next = op.next
    BY <2>1, <2>3, <2>4, AdvanceType DEF OpType
  <2>6. op.pc = "orphans" => Books(op.next, via, secrets')
    <3>1. SUFFICES ASSUME op.pc = "orphans" PROVE Books(op.next, via, secrets') OBVIOUS
    <3>2. Books(op.next, via, secrets) BY <3>1, Given DEF OpLedger
    <3>. QED BY <2>1, <3>2 DEF Books, Lost
  <2>7. OpLedger(room', via', secrets', op')
    BY <1>1, <2>1, <2>5, <2>6, Given DEF OpLedger
  <2>. QED BY <2>2, <2>7 DEF Balanced, Accounted
<1>3. ASSUME NEW i \in Ids, Rotate(i) PROVE Balanced
  <2>1. op.pc = "rotate" /\ i \in op.todo /\ secrets' \subseteq secrets
        /\ secrets' \subseteq listed'
    <3>1. secrets \subseteq listed BY Given DEF Ledger
    <3>. QED BY <1>3, <3>1 DEF Rotate, At, RefreshCaches, cache
  <2>2. Ledger(room', via', secrets', listed') BY <1>1, <2>1, LedgerStays
  <2>3. op' = [op EXCEPT !.pc = IF Replacing(room, i) = {} THEN "replace" ELSE "rotated", !.target = i]
    BY <1>3 DEF Rotate
  <2>4. /\ op'.pc = IF Replacing(room, i) = {} THEN "replace" ELSE "rotated"
        /\ op'.target = i /\ op'.todo = op.todo /\ op'.next = op.next
    BY <2>3, Given DEF OpType
  <2>5. op.todo \subseteq ToReplace(room) /\ op.next = NewRoom BY <2>1, Given DEF OpLedger
  <2>6. OpLedger(room', via', secrets', op')
    BY <1>1, <2>1, <2>4, <2>5 DEF OpLedger, Wanting
  <2>. QED BY <2>2, <2>6 DEF Balanced, Accounted
<1>4. ASSUME NEW i \in Ids, RevokeInvite(i) PROVE Balanced
  <2>1. i \in Recorded(room) /\ UNCHANGED <<secrets, listed>>
        /\ op' = [Idle EXCEPT !.pc = "revoking", !.target = i, !.todo = WithReplacement(i)]
    BY <1>4 DEF RevokeInvite, core, cache
  <2>2. op'.pc = "revoking" /\ op'.target = i /\ op'.next = NewRoom BY <2>1 DEF Idle
  <2>3. secrets \subseteq listed BY Given DEF Ledger
  <2>4. Ledger(room', via', secrets', listed') BY <1>1, <2>1, <2>3, LedgerStays
  <2>5. OpLedger(room', via', secrets', op') BY <1>1, <2>1, <2>2 DEF OpLedger
  <2>. QED BY <2>4, <2>5 DEF Balanced, Accounted
(* A secret that is generated is no invite's yet.                          *)
<1>5. ASSUME Generate, secrets' \subseteq secrets \cup {minted'}, listed' = secrets'
      PROVE  Ledger(room', via', secrets', listed')
  <2>1. minted' \notin 1..minted BY <1>5, Given DEF Generate
  <2>2. ToReplace(room) \cap secrets = {} BY Given DEF Books, Lost
  <2>3. Lost(room, secrets') BY <1>5, <2>1, <2>2, Given DEF Lost
  <2>. QED BY <1>1, <1>5, <2>3, Given DEF Ledger, Books
<1>6. CASE Replace
  <2>1. op.pc = "replace" /\ Generate /\ secrets' \subseteq secrets \cup {minted'} /\ listed' = secrets'
        /\ op' = [op EXCEPT !.pc = "replaced", !.target = minted', !.offer =
              [room.invites[op.target] EXCEPT !.state = "receipt_pending", !.of = op.target,
                                              !.accepted = {}]]
    BY <1>6 DEF Replace, At, RefreshCaches
  <2>2. Wanting(room, op.target) /\ op.todo \subseteq ToReplace(room) /\ op.next = NewRoom
    BY <2>1, Given DEF OpLedger
  <2>. DEFINE i == op.target
              new == [room.invites[op.target] EXCEPT !.state = "receipt_pending", !.of = op.target,
                                                     !.accepted = {}]
  <2>3. i \in Ids BY <2>2 DEF Wanting, ToReplace, InState
  <2>4. room.invites[i] \in InviteType BY <2>3, Given, Fields
  <2>5. new.state = "receipt_pending" /\ new.of = i BY <2>4 DEF InviteType
  <2>6. op' = [op EXCEPT !.pc = "replaced", !.target = minted', !.offer = new] BY <2>1
  <2>. HIDE DEF i, new
  <2>7. op'.pc = "replaced" /\ op'.offer = new /\ op'.todo = op.todo /\ op'.next = op.next
    BY <2>6, Given DEF OpType
  <2>8. OpLedger(room', via', secrets', op')
    BY <1>1, <2>2, <2>5, <2>7 DEF OpLedger, i
  <2>. QED BY <1>5, <2>1, <2>8 DEF Balanced, Accounted
<1>7. ASSUME NEW o \in Offers, CreateInvite(o) PROVE Balanced
  <2>. DEFINE new == [NoInvite EXCEPT !.state = "live", !.mode = o.mode, !.role = o.role, !.min = o.min]
  <2>1. Generate /\ secrets' \subseteq secrets \cup {minted'} /\ listed' = secrets'
        /\ op' = [Idle EXCEPT !.pc = "record", !.target = minted', !.offer = new]
    BY <1>7 DEF CreateInvite, RefreshCaches
  <2>2. new.state = "live" /\ new.of = 0 BY DEF NoInvite
  <2>. HIDE DEF new
  <2>3. op'.pc = "record" /\ op'.offer = new /\ op'.next = NewRoom BY <2>1 DEF Idle
  <2>4. OpLedger(room', via', secrets', op') BY <2>2, <2>3 DEF OpLedger
  <2>. QED BY <1>5, <2>1, <2>4 DEF Balanced, Accounted
<1>. QED BY <1>2, <1>3, <1>4, <1>6, <1>7

(* Contacts come and go, and an operation finds them so.                   *)
LEMMA MoveBooks ==
  ASSUME RInv, UNCHANGED <<room, op>>, secrets' \subseteq secrets, listed' = listed,
         \A p \in Joined(via') :
            \/ p \in Joined(via) /\ via'[p] = via[p]
            \/ via'[p] \notin Ids
            \/ via'[p] \in secrets \cap Recorded(room) /\ HasRoom(p)
  PROVE  Balanced
<1>1. ASSUME NEW r, Books(r, via, secrets), r = room \/ r = op.next PROVE Books(r, via', secrets')
  <2>1. Lost(r, secrets') BY <1>1 DEF Books, Lost
  <2>2. Brought(r, via, via')
    <3>1. \A i \in secrets : i \notin ToReplace(r) BY <1>1 DEF Books, Lost
    <3>2. \A p : HasRoom(p) => NextSlot(r, p) \in Slots BY <1>1 DEF HasRoom
    <3>. SUFFICES ASSUME NEW p \in Joined(via')
         PROVE  \/ p \in Joined(via) /\ via'[p] = via[p]
                \/ via'[p] \notin Ids
                \/ via'[p] \notin ToReplace(r) /\ NextSlot(r, p) \in Slots
      BY DEF Brought
    <3>3. CASE via'[p] \in secrets \cap Recorded(room) /\ HasRoom(p) BY <3>1, <3>2, <3>3
    <3>. QED BY <3>3
  <2>. QED BY <1>1, <2>1, <2>2, OutsideBooks
<1>2. Books(room, via', secrets') BY <1>1, Given
<1>3. CameBy(room, via')
  <2>1. SUFFICES ASSUME NEW p \in Peers, via'[p] \in Ids PROVE via'[p] \in Recorded(room) BY DEF CameBy
  <2>2. Absent \notin Ids BY Constants DEF Absent, Ids
  <2>3. p \in Joined(via') BY <2>1, <2>2 DEF Joined
  <2>. QED BY <2>1, <2>3, Given DEF Ledger, CameBy
<1>4. Ledger(room', via', secrets', listed') BY <1>2, <1>3, Given DEF Ledger
<1>5. op.pc \in Passing => Books(op.next, via', secrets') BY <1>1, Given DEF OpLedger
<1>6. OpLedger(room', via', secrets', op') BY <1>5, Given, OutsideOp
<1>. QED BY <1>4, <1>6 DEF Balanced, Accounted

LEMMA ContactBooks ==
  ASSUME RInv, \/ \E p \in Peers, i \in Ids : Join(p, i) \/ LoseSecret(i)
               \/ \E p \in Peers : Establish(p) \/ Leave(p)
               \/ \E x \in Slots : RemoveContact(x)
               \/ \E p \in Peers, role \in Roles : AcceptExternal(p, role)
  PROVE  Balanced
<1>0. /\ via \in [Peers -> {Absent, External} \cup Ids]
      /\ Absent \notin Ids /\ External \notin Ids /\ Absent # External
  BY Given, Constants DEF Absent, External, Ids
<1>1. ASSUME NEW p \in Peers, NEW i \in Ids, Join(p, i) PROVE Balanced
  <2>1. /\ UNCHANGED <<room, op, listed>> /\ secrets' \subseteq secrets
        /\ via' = [via EXCEPT ![p] = i] /\ i \in secrets \cap Recorded(room) /\ HasRoom(p)
    BY <1>1 DEF Join, Move, file, cache, HandedOut
  <2>. QED BY <1>0, <2>1, MoveBooks DEF Joined
<1>2. ASSUME NEW i, LoseSecret(i) PROVE Balanced
  <2>1. UNCHANGED <<room, op, listed, via>> /\ secrets' \subseteq secrets
    BY <1>2 DEF LoseSecret, Move, file, cache
  <2>. QED BY <2>1, MoveBooks DEF Joined
<1>3. ASSUME NEW p \in Peers, Establish(p) PROVE Balanced
  <2>1. UNCHANGED <<room, op, listed, secrets>> /\ via' = [via EXCEPT ![p] = External]
    BY <1>3 DEF Establish, Move, file, cache
  <2>. QED BY <1>0, <2>1, MoveBooks DEF Joined
<1>4. ASSUME NEW p \in Peers, via' = [via EXCEPT ![p] = Absent]
      PROVE  \A q \in Joined(via') : q \in Joined(via) /\ via'[q] = via[q]
  BY <1>0, <1>4 DEF Joined
<1>5. ASSUME NEW p \in Peers, Leave(p) PROVE Balanced
  <2>1. UNCHANGED <<room, op, listed, secrets>> /\ via' = [via EXCEPT ![p] = Absent]
    BY <1>5 DEF Leave, Move, file, cache
  <2>. QED BY <1>4, <2>1, MoveBooks
<1>6. ASSUME NEW x \in Slots, RemoveContact(x) PROVE Balanced
  <2>1. UNCHANGED <<room, listed, secrets>>
        /\ (via' = via \/ (x[1] \in Peers /\ via' = [via EXCEPT ![x[1]] = Absent]))
    BY <1>6 DEF RemoveContact, file, core, Slots
  <2>2. \A q \in Joined(via') : q \in Joined(via) /\ via'[q] = via[q] BY <1>4, <2>1
  <2>3. Books(room, via', secrets)
    <3>1. Lost(room, secrets) BY Given DEF Books
    <3>2. \A p \in Joined(via') : p \in Joined(via) /\ via'[p] = via[p] BY <2>2
    <3>3. Brought(room, via, via') BY ONLY <3>2 DEF Brought
    <3>. QED BY <3>1, <3>3, Given, OutsideBooks
  <2>4. CameBy(room, via')
    <3>1. \A q \in Peers : via'[q] \in Ids => via'[q] = via[q] BY <1>0, <2>2 DEF Joined
    <3>2. CameBy(room, via) BY Given DEF Ledger
    <3>. QED BY <3>1, <3>2 DEF CameBy
  <2>5. Ledger(room', via', secrets', listed') BY <2>1, <2>3, <2>4, Given DEF Ledger
  <2>6. op'.pc \in {"idle", "unseat"} /\ op'.next = NewRoom BY <1>6 DEF RemoveContact, Idle
  <2>7. OpLedger(room', via', secrets', op') BY <2>6, AtEase
  <2>. QED BY <2>5, <2>7 DEF Balanced, Accounted
<1>7. ASSUME NEW p \in Peers, NEW role \in Roles, AcceptExternal(p, role) PROVE Balanced
  <2>1. UNCHANGED <<room, via, secrets>> /\ listed' = secrets'
    BY <1>7 DEF AcceptExternal, file, RefreshCaches
  <2>2. Ledger(room', via', secrets', listed') BY <2>1, LedgerStays
  <2>3. \/ op' = Idle
        \/ op'.pc = "pend" /\ op'.next = NewRoom /\ op'.seat[1] = p /\ ~Seated(room, p)
    BY <1>7 DEF AcceptExternal, Idle, NextSlot
  <2>4. OpLedger(room', via', secrets', op')
    BY <2>1, <2>3, IdleAtEase DEF OpLedger, Passing, Rotating
  <2>. QED BY <2>2, <2>4 DEF Balanced, Accounted
<1>. QED BY <1>1, <1>2, <1>3, <1>5, <1>6, <1>7

LEMMA BalancedByAll == RInv /\ [Next]_vars => RInv'
<1>. SUFFICES ASSUME RInv, [Next]_vars PROVE RInv' OBVIOUS
<1>1. IInv' BY KeptByAll DEF RInv, Kept
<1>2. Balanced
  <2>1. CASE Follow BY <2>1, PassBooks, RestBooks DEF Follow
  <2>2. CASE Continue
    BY <2>2, PassBooks, RecordBooks, SeatBooks, SecretBooks, RestBooks, SaveBooks, MarkBooks DEF Continue
  <2>3. CASE Requests BY <2>3, RestBooks, EditBooks, SecretBooks, MarkBooks, ContactBooks DEF Requests
  <2>4. CASE Environment BY <2>4, ContactBooks, RestBooks DEF Environment
  <2>5. CASE UNCHANGED vars BY <2>5, RestBooks
  <2>. QED BY <2>1, <2>2, <2>3, <2>4, <2>5 DEF Next
<1>. QED BY <1>1, <1>2, BalancedIsKept DEF RInv

LEMMA RInvInit == Init => RInv
<1>. SUFFICES ASSUME Init PROVE RInv OBVIOUS
<1>1. IInv BY IInvInit
<1>2. /\ room = NewRoom /\ secrets = {} /\ op = Idle /\ via = [p \in Peers |-> Absent] BY DEF Init
<1>3. Recorded(room) = {} /\ ToReplace(room) = {}
  BY <1>2, InitialValues DEF ToReplace, InState, Recorded
<1>4. /\ \A states : "none" \notin states => SeatsIn(room, states) = {}
      /\ room.epoch = 0
  BY <1>2 DEF NewRoom, NoSeat, SeatsIn
<1>5. Joined(via) = {} BY <1>2 DEF Joined
<1>6. Counted(room)
  <2>1. Active(room) = {} /\ SeatsIn(room, {"removed"}) = {} BY <1>4 DEF Active
  <2>2. Cardinality({}) = 0 BY FS_EmptySet
  <2>. QED BY <1>4, <2>1, <2>2 DEF Counted
<1>7. OneSeat(room) BY <1>4 DEF OneSeat
<1>8. Books(room, via, secrets)
  BY <1>3, <1>5, <1>6, <1>7 DEF Books, Housed, LegalInvites, Cared, Lost
<1>9. CameBy(room, via)
  <2>1. Absent \notin Ids BY Constants DEF Absent, Ids
  <2>. QED BY <1>2, <2>1 DEF CameBy
<1>. QED BY <1>1, <1>2, <1>8, <1>9, IdleAtEase DEF RInv, Accounted, Ledger

LEMMA RInvHolds == Spec => []RInv
<1>. QED BY RInvInit, BalancedByAll, PTL DEF Spec

(* What RoomSchema demands of every room that is saved (contracts.ts:400-430 and 549-565) *)
(* holds of what is saved, and of what is about to be: no save is refused for the roster  *)
(* or for the lineage of the invites.                                                     *)
THEOREM NoSaveIsRefusedHolds == Spec => []NoSaveIsRefused
<1>1. RInv => NoSaveIsRefused
  <2>. SUFFICES ASSUME RInv PROVE Legal(room) /\ Legal(op.next) BY DEF NoSaveIsRefused
  <2>1. Legal(room)
    <3>1. OneSeat(room) /\ LegalInvites(room) BY Given DEF Books
    <3>. QED BY <3>1, BooksAreLegal
  <2>2. CASE op.pc \in Passing
    <3>1. OneSeat(op.next) /\ LegalInvites(op.next) BY <2>2, Given DEF OpLedger, Books
    <3>. QED BY <2>1, <3>1, BooksAreLegal
  <2>3. CASE op.pc \notin Passing
    <3>1. op.next = NewRoom BY <2>3, Given DEF OpLedger
    <3>2. Recorded(op.next) = {} BY <3>1, InitialValues
    <3>3. SeatsIn(op.next, {"pending", "active"}) = {} BY <3>1 DEF SeatsIn, NewRoom, NoSeat
    <3>4. Legal(op.next) BY <3>2, <3>3 DEF Legal
    <3>. QED BY <2>1, <3>4
  <2>. QED BY <2>1, <2>2, <2>3
<1>. QED BY <1>1, RInvHolds, PTL

(* An invite is only given up when no contact that came by it was still to be admitted: *)
(* the contacts are read again after the invites were (service.ts:1718).                *)
THEOREM NobodyIsStranded == Spec => []NobodyStranded
<1>1. RInv => NobodyStranded BY Given DEF Books, Cared, NobodyStranded, Joined, contacts, ToReplace
<1>. QED BY <1>1, RInvHolds, PTL

-----------------------------------------------------------------------------
(* Whoever a pass will seat in an active room has the briefings in the archive, or they *)
(* are still to be sent by it (todo); an edit that is being sent is no pass.            *)
ToldOf(bs, todo, p, kind, version) ==
  \/ \E b \in bs : b.to = p /\ b.kind = kind /\ b.version = version
  \/ \E b \in todo : b.kind = kind /\ p \in b.to
Told(r, x, bs, todo) ==
  LET role == r.seats[x].role
  IN /\ ToldOf(bs, todo, x[1], "common", r.version)
     /\ r.roles[role].version > 0 => ToldOf(bs, todo, x[1], role, r.roles[role].version)
Staying(r, x) == r.state = "active" /\ x \in Active(r)
OpBriefs(r, bs, o) ==
  /\ o.after = "edited" => o.pc = "brief" /\ o.todo = {}
  /\ o.pc = "save" => o.brief = {}
  /\ o.pc \in Passing /\ o.after # "edited" /\ o.next.state = "active" =>
       \A x \in Active(o.next) : Staying(r, x) \/ Told(o.next, x, bs, o.brief)
BInv == RInv /\ OpBriefs(room, briefs, op)
SeatedBriefed == room'.state = "active" => \A x \in Active(room') : Briefed(room', x) \/ Staying(room, x)
BriefsKept == OpBriefs(room', briefs', op') /\ SeatedBriefed

LEMMA Unhurried ==
  ASSUME NEW r, NEW bs, NEW o, o.pc \notin Passing, o.after # "edited" PROVE OpBriefs(r, bs, o)
BY DEF OpBriefs, Passing

(* Nobody is seated by steps that leave the state as it is and seat nobody. *)
LEMMA NobodyNew ==
  ASSUME room'.state = room.state, Active(room') \subseteq Active(room) PROVE SeatedBriefed
BY DEF SeatedBriefed, Staying

LEMMA IdleUnhurried == Idle.pc = "idle" /\ Idle.after = "idle" /\ Idle.todo = {}
BY DEF Idle

(* Steps that leave the room and the archive as they are.                  *)
LEMMA QuietBriefs ==
  ASSUME BInv, \/ ReadContacts \/ ReadInvites \/ Environment \/ Recovered \/ ReconcileRoom
               \/ RecoverInvites \/ UNCHANGED vars
               \/ \E i \in Ids : RevokeSecret(i) \/ Rotate(i) \/ RevokeInvite(i)
               \/ Replace \/ \E o \in Offers : CreateInvite(o)
               \/ \E x \in Slots : RemoveContact(x)
               \/ \E p \in Peers, role \in Roles : AcceptExternal(p, role)
  PROVE  BriefsKept
<1>1. UNCHANGED <<room, briefs>>
  BY DEF ReadContacts, ReadInvites, Environment, Join, LoseSecret, Establish, Leave, Move, RecordFails,
         Throws, Crash, Recovered, ReconcileRoom, RecoverInvites, vars, file, RevokeSecret, Rotate,
         RevokeInvite, Replace, CreateInvite, RemoveContact, AcceptExternal
<1>2. SeatedBriefed BY <1>1, NobodyNew
<1>3. OpBriefs(room, briefs, op) /\ op \in OpType BY Given DEF BInv
<1>4. \/ op' = op
      \/ op'.pc \notin Passing /\ op'.after # "edited"
      \/ /\ op.pc = "orphans" /\ op'.pc \in Passing /\ op'.next = op.next /\ op'.brief = op.brief
         /\ op'.after = op.after /\ (op'.pc = "save" => op.brief = {})
  <2>. USE IdleUnhurried DEF Passing
  <2>1. CASE ReadContacts \/ ReadInvites \/ UNCHANGED vars
    BY <2>1 DEF ReadContacts, ReadInvites, vars
  <2>2. CASE Environment
    BY <2>2 DEF Environment, Join, LoseSecret, Establish, Leave, Move, RecordFails, Throws, Crash, Done
  <2>3. CASE Recovered \/ ReconcileRoom \/ RecoverInvites
    BY <2>3 DEF Recovered, ReconcileRoom, RecoverInvites, Done, Idle
  <2>4. CASE \/ \E i \in Ids : RevokeInvite(i)
             \/ \E o \in Offers : CreateInvite(o)
             \/ \E x \in Slots : RemoveContact(x)
             \/ \E p \in Peers, role \in Roles : AcceptExternal(p, role)
    <3>1. CASE \E i \in Ids : RevokeInvite(i) BY <3>1 DEF RevokeInvite, Idle
    <3>2. CASE \E o \in Offers : CreateInvite(o) BY <3>2 DEF CreateInvite, Idle
    <3>3. CASE \E x \in Slots : RemoveContact(x) BY <3>3 DEF RemoveContact, Idle
    <3>4. CASE \E p \in Peers, role \in Roles : AcceptExternal(p, role) BY <3>4 DEF AcceptExternal, Idle
    <3>. QED BY <2>4, <3>1, <3>2, <3>3, <3>4
  <2>5. ASSUME NEW i \in Ids, Rotate(i) PROVE op'.pc \notin Passing /\ op'.after # "edited"
    <3>1. op.pc = "rotate" /\ op.after # "edited" BY <1>3, <2>5 DEF Rotate, At, OpBriefs
    <3>2. op' = [op EXCEPT !.pc = IF Replacing(room, i) = {} THEN "replace" ELSE "rotated", !.target = i]
      BY <2>5 DEF Rotate
    <3>. QED BY <1>3, <3>1, <3>2 DEF OpType
  <2>6. CASE Replace
    <3>1. op.pc = "replace" /\ op.after # "edited" BY <1>3, <2>6 DEF Replace, At, OpBriefs
    <3>. DEFINE new == [room.invites[op.target] EXCEPT !.state = "receipt_pending", !.of = op.target,
                                                       !.accepted = {}]
    <3>2. op' = [op EXCEPT !.pc = "replaced", !.target = minted', !.offer = new] BY <2>6 DEF Replace
    <3>. HIDE DEF new
    <3>. QED BY <1>3, <3>1, <3>2 DEF OpType
  <2>7. ASSUME NEW i \in Ids, RevokeSecret(i)
        PROVE  \/ op'.pc \notin Passing /\ op'.after # "edited"
               \/ /\ op.pc = "orphans" /\ op'.pc \in Passing /\ op'.next = op.next
                  /\ op'.brief = op.brief /\ op'.after = op.after /\ (op'.pc = "save" => op.brief = {})
    <3>. DEFINE o == [op EXCEPT !.todo = @ \ {i}]
    <3>1. o \in OpType /\ o.next = op.next /\ o.pc = op.pc /\ o.brief = op.brief /\ o.after = op.after
      BY <1>3 DEF OpType
    <3>2. \/ op.pc = "orphans" /\ op' = Advance(o)
          \/ op.pc = "revoking" /\ op' = [o EXCEPT !.pc = IF o.todo = {} THEN "revoked" ELSE @]
      BY <2>7 DEF RevokeSecret, At
    <3>. HIDE DEF o
    <3>3. CASE op.pc = "orphans" /\ op' = Advance(o)
      <4>1. Advance(o).pc = "save" => o.brief = {} BY <3>1 DEF Advance, OpType
      <4>. QED BY <3>1, <3>3, <4>1, AdvanceType
    <3>4. CASE op.pc = "revoking" /\ op' = [o EXCEPT !.pc = IF o.todo = {} THEN "revoked" ELSE @]
      <4>1. op.after # "edited" BY <1>3, <3>4 DEF OpBriefs
      <4>. QED BY <3>1, <3>4, <4>1 DEF OpType
    <3>. QED BY <3>2, <3>3, <3>4
  <2>. QED BY <2>1, <2>2, <2>3, <2>4, <2>5, <2>6, <2>7
<1>5. OpBriefs(room, briefs, op')
  <2>1. CASE op' = op BY <1>3, <2>1
  <2>2. CASE op'.pc \notin Passing /\ op'.after # "edited" BY <2>2, Unhurried
  <2>3. CASE /\ op.pc = "orphans" /\ op'.pc \in Passing /\ op'.next = op.next
             /\ op'.brief = op.brief /\ op'.after = op.after /\ (op'.pc = "save" => op.brief = {})
    BY <1>3, <2>3 DEF OpBriefs, Passing
  <2>. QED BY <1>4, <2>1, <2>2, <2>3
<1>. QED BY <1>1, <1>2, <1>5 DEF BriefsKept

(* A pass briefs whoever it will seat.                                     *)
LEMMA BriefingsTell ==
  ASSUME NEW r, NEW xs, NEW x \in xs, NEW bs PROVE Told(r, x, bs, Briefings(r, xs))
<1>. DEFINE common == [kind |-> "common", to |-> {y[1] : y \in xs}]
            role == r.seats[x].role
            own == [kind |-> role, to |-> {x[1]}]
<1>1. common \in Briefings(r, xs) BY DEF Briefings, Common
<1>2. r.roles[role].version > 0 => own \in Briefings(r, xs) BY DEF Briefings
<1>3. common.kind = "common" /\ x[1] \in common.to /\ own.kind = role /\ x[1] \in own.to OBVIOUS
<1>4. ToldOf(bs, Briefings(r, xs), x[1], "common", r.version)
  <2>. HIDE DEF common
  <2>. QED BY <1>1, <1>3 DEF ToldOf
<1>5. r.roles[role].version > 0 => ToldOf(bs, Briefings(r, xs), x[1], role, r.roles[role].version)
  <2>. HIDE DEF own
  <2>. QED BY <1>2, <1>3 DEF ToldOf
<1>. QED BY <1>4, <1>5 DEF Told

LEMMA RemovedStatus ==
  ASSUME NEW r \in RoomType, NEW xs, xs \subseteq SeatsIn(r, {"pending", "active"}),
         NEW t \in 0..MaxClock
  PROVE  Removed(r, xs, t).state = r.state /\ Active(Removed(r, xs, t)) = Active(r) \ xs
<1>. DEFINE s == Removed(r, xs, t)
<1>1. xs \subseteq Slots BY DEF SeatsIn
<1>2. PICK f \in [Slots -> SeatType], e \in Nat :
        /\ s = WithSeats(r, f, e)
        /\ \A x \in Slots : f[x] = IF x \in xs THEN Vacated(r.seats[x], t) ELSE r.seats[x]
  BY <1>1, RemovedType
<1>3. s.state = r.state /\ s.seats = f BY <1>2 DEF WithSeats, RoomType
<1>4. \A x \in xs : s.seats[x].state # "active"
  <2>1. \A v \in SeatType : Vacated(v, t).state # "active" BY DEF Vacated, SeatType
  <2>. QED BY <1>1, <1>2, <1>3, <2>1, Fields
<1>5. \A x \in Slots \ xs : s.seats[x] = r.seats[x] BY <1>2, <1>3
<1>. HIDE DEF s
<1>6. Active(s) = Active(r) \ xs BY <1>1, <1>4, <1>5 DEF Active, SeatsIn
<1>. QED BY <1>3, <1>6 DEF s

LEMMA PassBriefs ==
  ASSUME BInv, NEW t \in 0..MaxClock, Look(t) \/ Announce(t) PROVE BriefsKept
<1>. DEFINE left == Left(t)
            next == Reconciled(t)
            new == IF next.state = "provisioning" THEN {}
                   ELSE IF left.state = "provisioning" THEN Active(next)
                   ELSE Active(next) \ Active(left)
            b == Briefings(next, new)
            todo == listed \ Recorded(room)
<1>1. PICK o \in OpType : Reconcile(o, t) /\ o.after # "edited"
  <2>1. op \in OpType BY Given DEF BInv
  <2>2. CASE Look(t)
    <3>1. op.after # "edited" BY <2>2 DEF Look, At, BInv, OpBriefs
    <3>. QED BY <2>1, <2>2, <3>1 DEF Look
  <2>3. CASE Announce(t) BY <2>3, IdleType, IdleUnhurried DEF Announce
  <2>. QED BY <2>2, <2>3
<1>2. /\ op' = Advance([o EXCEPT !.next = next, !.todo = todo, !.brief = b])
      /\ IF Departed(room) = {} THEN UNCHANGED file ELSE room' = left
  BY <1>1 DEF Reconcile, Left, Entered, Reconciled
<1>3. Types /\ room \in RoomType BY Given DEF BInv, RInv, IInv
<1>4. left \in RoomType /\ next \in RoomType BY <1>3, ReconciledType
<1>5. left.state = room.state /\ Active(left) = Active(room) \ Departed(room)
  <2>1. Departed(room) \subseteq SeatsIn(room, {"pending", "active"}) BY DEF Departed, Active, SeatsIn
  <2>. QED BY <1>3, <2>1, RemovedStatus DEF Left
<1>. HIDE DEF left
<1>6. room'.state = left.state /\ Active(room') = Active(left)
  <2>1. CASE Departed(room) = {} BY <1>2, <1>5, <2>1 DEF file
  <2>2. CASE Departed(room) # {} BY <1>2, <2>2
  <2>. QED BY <2>1, <2>2
<1>7. SeatedBriefed BY <1>5, <1>6, NobodyNew
<1>. HIDE DEF next
<1>8. b \subseteq [kind : {"common"} \cup Roles, to : SUBSET Peers]
  <2>1. new \subseteq Slots BY DEF Active, SeatsIn
  <2>. QED BY <1>4, <2>1, BriefingsType
<1>9. todo \subseteq Ids
  <2>1. listed \subseteq 1..minted BY <1>3 DEF Types, CacheOK
  <2>. QED BY <2>1, Given DEF BInv
<1>10. \A x \in Active(next) : next.state = "active" => Staying(room', x) \/ Told(next, x, briefs', b)
  <2>1. SUFFICES ASSUME NEW x \in Active(next), next.state = "active", x \notin new
        PROVE  Staying(room', x)
    BY BriefingsTell
  <2>2. left.state # "provisioning" /\ x \in Active(left) BY <2>1
  <2>3. left.state = "active" BY <1>4, <2>2 DEF RoomType
  <2>. QED BY <1>6, <2>2, <2>3 DEF Staying
<1>. HIDE DEF new, b, todo
<1>. DEFINE p == [o EXCEPT !.next = next, !.todo = todo, !.brief = b]
<1>11. p \in OpType /\ p.next = next /\ p.brief = b /\ p.after = o.after
  BY <1>1, <1>4, <1>8, <1>9 DEF OpType
<1>12. op' = Advance(p) BY <1>2
<1>. HIDE DEF p
<1>13. /\ op'.next = next /\ op'.brief = b /\ op'.after # "edited"
       /\ op'.pc = "save" => b = {}
  <2>1. Advance(p).pc = "save" => p.brief = {} BY <1>11 DEF Advance, OpType
  <2>. QED BY <1>1, <1>11, <1>12, <2>1, AdvanceType
<1>14. OpBriefs(room', briefs', op') BY <1>10, <1>13 DEF OpBriefs
<1>. QED BY <1>7, <1>14 DEF BriefsKept

(* What is sent is in the archive.                                         *)
LEMMA SentBriefs == ASSUME BInv, NEW b \in op.brief, Brief(b) PROVE BriefsKept
<1>. DEFINE o == [op EXCEPT !.brief = @ \ {b}]
            v == IF b.kind = "common" THEN [version |-> op.next.version, text |-> ""]
                 ELSE op.next.roles[b.kind]
            Has(p) == \E c \in briefs : c.to = p /\ c.kind = b.kind /\ c.version = v.version
            sent == {[to |-> p, kind |-> b.kind, version |-> v.version, text |-> v.text] :
                       p \in {q \in b.to : ~Has(q)}}
<1>1. /\ op.pc = "brief" /\ UNCHANGED room /\ briefs' = briefs \cup sent
      /\ op' = IF o.brief # {} THEN o ELSE IF op.after = "edited" THEN Idle ELSE Advance(o)
  BY DEF Brief, At, file
<1>2. /\ o \in OpType /\ o.next = op.next /\ o.pc = op.pc /\ o.brief = op.brief \ {b}
      /\ o.after = op.after /\ o.todo = op.todo
  BY Given DEF OpType, BInv
<1>3. SeatedBriefed BY <1>1, NobodyNew
<1>4. \A p \in b.to : \E c \in briefs' : c.to = p /\ c.kind = b.kind /\ c.version = v.version
  <2>. SUFFICES ASSUME NEW p \in b.to
       PROVE  \E c \in briefs' : c.to = p /\ c.kind = b.kind /\ c.version = v.version
    OBVIOUS
  <2>0. CASE Has(p)
    <3>. HIDE DEF v, sent
    <3>. QED BY <1>1, <2>0
  <2>1. SUFFICES ASSUME ~Has(p)
        PROVE  \E c \in briefs' : c.to = p /\ c.kind = b.kind /\ c.version = v.version
    BY <2>0
  <2>. DEFINE c == [to |-> p, kind |-> b.kind, version |-> v.version, text |-> v.text]
  <2>2. c \in sent BY <2>1
  <2>3. c.to = p /\ c.kind = b.kind /\ c.version = v.version OBVIOUS
  <2>. HIDE DEF c
  <2>. QED BY <1>1, <2>2, <2>3
<1>5. /\ b.kind = "common" => v.version = op.next.version
      /\ b.kind # "common" => v.version = op.next.roles[b.kind].version
  OBVIOUS
<1>6. briefs \subseteq briefs' BY <1>1
<1>. HIDE DEF o, v, Has, sent
<1>7. ASSUME NEW p, NEW kind, NEW version, ToldOf(briefs, op.brief, p, kind, version),
             kind = b.kind => version = v.version
      PROVE  ToldOf(briefs', o.brief, p, kind, version)
  BY <1>2, <1>4, <1>6, <1>7 DEF ToldOf
<1>8. ASSUME NEW x \in Active(op.next), Told(op.next, x, briefs, op.brief)
      PROVE  Told(op.next, x, briefs', o.brief)
  <2>. DEFINE role == op.next.seats[x].role
  <2>1. role \in Roles /\ "common" \notin Roles
    <3>1. op.next \in RoomType BY Given DEF BInv, OpType
    <3>2. x \in Slots BY DEF Active, SeatsIn
    <3>3. op.next.seats[x] \in SeatType BY <3>1, <3>2, Fields
    <3>. QED BY <3>3, MembershipConstants DEF SeatType
  <2>2. ToldOf(briefs', o.brief, x[1], "common", op.next.version)
    <3>1. ToldOf(briefs, op.brief, x[1], "common", op.next.version) BY <1>8 DEF Told
    <3>. QED BY <1>5, <1>7, <3>1
  <2>3. ASSUME op.next.roles[role].version > 0
        PROVE  ToldOf(briefs', o.brief, x[1], role, op.next.roles[role].version)
    <3>1. ToldOf(briefs, op.brief, x[1], role, op.next.roles[role].version) BY <1>8, <2>3 DEF Told
    <3>2. role = b.kind => op.next.roles[role].version = v.version BY <1>5, <2>1
    <3>. HIDE DEF role
    <3>. QED BY <1>7, <3>1, <3>2
  <2>. QED BY <2>2, <2>3 DEF Told
<1>9. OpBriefs(room, briefs', op')
  <2>0. OpBriefs(room, briefs, op) BY DEF BInv
  <2>1. CASE op' = o
    <3>1. op'.after = "edited" => op'.todo = {} BY <1>2, <2>0, <2>1 DEF OpBriefs
    <3>. QED BY <1>1, <1>2, <1>8, <2>0, <2>1, <3>1 DEF OpBriefs, Passing
  <2>2. CASE op' = Idle BY <2>2, IdleUnhurried, Unhurried DEF Passing
  <2>3. CASE op' = Advance(o) /\ o.brief = {} /\ op.after # "edited"
    <3>1. /\ op'.next = op.next /\ op'.brief = o.brief /\ op'.after = op.after
      BY <1>2, <2>3, AdvanceType
    <3>. QED BY <1>1, <1>8, <2>0, <2>3, <3>1 DEF OpBriefs, Passing
  <2>. QED BY <1>1, <2>1, <2>2, <2>3
<1>. QED BY <1>1, <1>3, <1>9 DEF BriefsKept

LEMMA SaveBriefs == ASSUME BInv, Save PROVE BriefsKept
<1>1. op.pc = "save" /\ room' = op.next BY DEF Save, At
<1>2. op.brief = {} /\ op.after # "edited" BY <1>1 DEF BInv, OpBriefs
<1>3. SeatedBriefed
  <2>1. SUFFICES ASSUME op.next.state = "active", NEW x \in Active(op.next)
        PROVE  Briefed(op.next, x) \/ Staying(room, x)
    BY <1>1 DEF SeatedBriefed
  <2>2. CASE Told(op.next, x, briefs, op.brief)
    BY <1>2, <2>2 DEF Told, ToldOf, Briefed
  <2>. QED BY <1>1, <1>2, <2>1, <2>2 DEF BInv, OpBriefs, Passing
<1>4. op'.pc \notin Passing /\ op'.after # "edited"
  BY IdleUnhurried DEF Save, Idle, Passing
<1>. QED BY <1>3, <1>4, Unhurried DEF BriefsKept

LEMMA MarkedStatus ==
  ASSUME NEW r \in RoomType, NEW is, is \subseteq Ids, NEW state \in {"live", "revoked"}
  PROVE  /\ Marked(r, is, state).state = r.state /\ Active(Marked(r, is, state)) = Active(r)
<1>1. Marked(r, is, state).seats = r.seats BY MarkedType
<1>2. Marked(r, is, state).state = r.state BY DEF Marked, RoomType
<1>. QED BY <1>1, <1>2, SameSeats

(* Steps that save an edit, an invite or a seat.                           *)
LEMMA FileBriefs ==
  ASSUME BInv, \/ SaveRevoked \/ SaveRotated \/ UpdateBriefing \/ SavePending
               \/ \E i, j \in Ids : ConfirmRecovered(i, j)
               \/ \E role \in Roles : DeleteRoleBriefing(role)
               \/ \E role \in Roles, text \in Texts : SetRoleBriefing(role, text)
               \/ \E t \in 0..MaxClock : Record(t) \/ Unseat(t)
  PROVE  BriefsKept
<1>0. Types /\ room \in RoomType /\ op \in OpType /\ OpBriefs(room, briefs, op) /\ IInv
  BY Given DEF BInv, RInv, IInv
<1>1. ASSUME room'.state = room.state, Active(room') \subseteq Active(room),
             op'.pc \notin Passing /\ op'.after # "edited"
      PROVE  BriefsKept
  BY <1>1, NobodyNew, Unhurried DEF BriefsKept
<1>2. CASE SaveRevoked \/ SaveRotated
  <2>1. PICK is \in SUBSET Ids : room' = Marked(room, is, "revoked")
    <3>1. Replacing(room, op.target) \subseteq Ids BY DEF Replacing, InState
    <3>2. CASE SaveRevoked
      <4>1. op.target \in Ids
        <5>1. op.target \in Recorded(room) BY <3>2, Given DEF SaveRevoked, At, OpLedger, BInv
        <5>. QED BY <5>1 DEF Recorded
      <4>2. WithReplacement(op.target) \subseteq Ids BY <3>1, <4>1 DEF WithReplacement
      <4>. QED BY <3>2, <4>2 DEF SaveRevoked
    <3>3. CASE SaveRotated BY <3>1, <3>3 DEF SaveRotated
    <3>. QED BY <1>2, <3>2, <3>3
  <2>2. room'.state = room.state /\ Active(room') = Active(room) BY <1>0, <2>1, MarkedStatus
  <2>3. op'.pc \notin Passing /\ op'.after # "edited"
    <3>1. CASE SaveRevoked BY <3>1, IdleUnhurried DEF SaveRevoked, Done, Passing
    <3>2. CASE SaveRotated
      <4>1. op.after # "edited" /\ op' = [op EXCEPT !.pc = "replace"]
        BY <1>0, <3>2 DEF SaveRotated, At, OpBriefs
      <4>. QED BY <1>0, <4>1 DEF OpType, Passing
    <3>. QED BY <1>2, <3>1, <3>2
  <2>. QED BY <1>1, <2>2, <2>3
<1>3. ASSUME NEW i \in Ids, NEW j \in Ids, ConfirmRecovered(i, j) PROVE BriefsKept
  <2>. DEFINE r == Marked(room, {i}, "revoked")
  <2>1. {i} \subseteq Ids /\ {j} \subseteq Ids OBVIOUS
  <2>2. r \in RoomType /\ r.state = room.state /\ Active(r) = Active(room)
    BY <1>0, <2>1, MarkedType, MarkedStatus
  <2>3. room' = Marked(r, {j}, "live") BY <1>3 DEF ConfirmRecovered
  <2>. HIDE DEF r
  <2>4. room'.state = r.state /\ Active(room') = Active(r) BY <2>1, <2>2, <2>3, MarkedStatus
  <2>5. op'.pc \notin Passing /\ op'.after # "edited" BY <1>3 DEF ConfirmRecovered, Idle, Passing
  <2>. QED BY <1>1, <2>2, <2>4, <2>5
<1>4. CASE \/ UpdateBriefing \/ \E role \in Roles : DeleteRoleBriefing(role)
           \/ \E role \in Roles, text \in Texts : SetRoleBriefing(role, text)
  <2>1. room'.seats = room.seats /\ room'.state = room.state
    BY <1>0, <1>4 DEF UpdateBriefing, DeleteRoleBriefing, SetRoleBriefing, RoomType
  <2>2. SeatedBriefed BY <2>1, SameSeats, NobodyNew
  <2>3. op' = Idle \/ (op'.pc = "brief" /\ op'.after = "edited" /\ op'.todo = {})
    BY <1>4 DEF UpdateBriefing, DeleteRoleBriefing, SetRoleBriefing, Send, Done, Idle
  <2>4. OpBriefs(room', briefs', op')
    <3>1. CASE op' = Idle BY <3>1, IdleUnhurried, Unhurried DEF Passing
    <3>2. CASE op'.pc = "brief" /\ op'.after = "edited" /\ op'.todo = {} BY <3>2 DEF OpBriefs
    <3>. QED BY <2>3, <3>1, <3>2
  <2>. QED BY <2>2, <2>4 DEF BriefsKept
<1>5. ASSUME NEW t \in 0..MaxClock, Record(t) PROVE BriefsKept
  <2>1. room'.state = room.state /\ room'.seats = room.seats
    <3>. DEFINE f == [room.invites EXCEPT ![op.target] = [op.offer EXCEPT !.created = t]]
    <3>1. room' = [room EXCEPT !.invites = f] BY <1>5 DEF Record
    <3>. HIDE DEF f
    <3>. QED BY <1>0, <3>1 DEF RoomType
  <2>2. Active(room') = Active(room) BY <2>1, SameSeats
  <2>3. op'.pc \notin Passing /\ op'.after # "edited"
    <3>1. CASE op' = Idle BY <3>1, IdleUnhurried DEF Passing
    <3>2. CASE op' = [op EXCEPT !.pc = "rotate", !.todo = @ \ {op.offer.of}]
      <4>1. op.after # "edited" BY <1>0, <1>5 DEF Record, OpBriefs
      <4>. QED BY <1>0, <3>2, <4>1 DEF OpType, Passing
    <3>. QED BY <1>5, <3>1, <3>2 DEF Record
  <2>. QED BY <1>1, <2>1, <2>2, <2>3
<1>6. ASSUME NEW t \in 0..MaxClock, Unseat(t) PROVE BriefsKept
  <2>. DEFINE xs == {op.seat}
  <2>1. xs \subseteq SeatsIn(room, {"pending", "active"}) BY <1>0, <1>6 DEF Unseat, At, IInv, OpSound
  <2>2. room' = Removed(room, xs, t) /\ op' = Idle BY <1>6 DEF Unseat, Done
  <2>. HIDE DEF xs
  <2>3. room'.state = room.state /\ Active(room') \subseteq Active(room)
    BY <1>0, <2>1, <2>2, RemovedStatus
  <2>. QED BY <1>1, <2>2, <2>3, IdleUnhurried DEF Passing
<1>7. CASE SavePending
  <2>. DEFINE seat == Seat("pending", External, op.offer.role)
              f == [room.seats EXCEPT ![op.seat] = seat]
  <2>1. room' = [room EXCEPT !.seats = f] BY <1>7 DEF SavePending
  <2>2. seat.state = "pending" /\ room.seats \in [Slots -> SeatType] BY <1>0, Fields DEF Seat
  <2>. HIDE DEF seat
  <2>3. \A x \in Slots : f[x] = seat \/ f[x] = room.seats[x] BY <2>2
  <2>. HIDE DEF f
  <2>4. room'.state = room.state /\ room'.seats = f BY <1>0, <2>1 DEF RoomType
  <2>5. Active(room') \subseteq Active(room) BY <2>2, <2>3, <2>4 DEF Active, SeatsIn
  <2>6. op'.pc \notin Passing /\ op'.after # "edited" BY <1>7 DEF SavePending, Idle, Passing
  <2>. QED BY <1>1, <2>4, <2>5, <2>6
<1>. QED BY <1>2, <1>3, <1>4, <1>5, <1>6, <1>7

LEMMA BriefsByAll == BInv /\ [Next]_vars => BInv' /\ SeatedBriefed
<1>. SUFFICES ASSUME BInv, [Next]_vars PROVE BInv' /\ SeatedBriefed OBVIOUS
<1>1. RInv' BY BalancedByAll DEF BInv
<1>2. BriefsKept
  <2>1. CASE Follow BY <2>1, PassBriefs, QuietBriefs DEF Follow
  <2>2. CASE Continue
    BY <2>2, PassBriefs, FileBriefs, QuietBriefs, SentBriefs, SaveBriefs DEF Continue
  <2>3. CASE Requests BY <2>3, QuietBriefs, FileBriefs DEF Requests
  <2>4. CASE Environment BY <2>4, QuietBriefs
  <2>5. CASE UNCHANGED vars BY <2>5, QuietBriefs
  <2>. QED BY <2>1, <2>2, <2>3, <2>4, <2>5 DEF Next
<1>3. OpBriefs(room, briefs, op)'
  BY <1>2 DEF BriefsKept, OpBriefs, Staying, Told, ToldOf, Active, SeatsIn
<1>. QED BY <1>1, <1>2, <1>3 DEF BInv, BriefsKept

(* Each change of the roster is counted once, and whoever it seats is briefed in it,       *)
(* though the save, the briefings and the SDK's contacts are separate writes, any of which *)
(* a throw or a crash may lose (reconcileUnlocked).                                        *)
THEOREM ChangesAreRecordedHolds == Spec => ChangesAreRecorded
<1>1. Init => BInv
  <2>. SUFFICES ASSUME Init PROVE BInv OBVIOUS
  <2>1. op = Idle BY DEF Init
  <2>2. OpBriefs(room, briefs, op) BY <2>1, IdleUnhurried, Unhurried DEF Passing
  <2>. QED BY <2>2, RInvInit DEF BInv
<1>2. BInv /\ [Next]_vars => BInv' BY BriefsByAll
<1>3. BInv /\ [Next]_vars
        => [room'.state = "active" =>
             \A x \in Active(room)' :
               Briefed(room', x) \/ (room.state = "active" /\ x \in Active(room))]_vars
  BY BriefsByAll DEF SeatedBriefed, Staying, Active, SeatsIn
<1>4. BInv => EpochCountsChanges BY Given DEF BInv, Books, Counted, EpochCountsChanges
<1>. QED BY <1>1, <1>2, <1>3, <1>4, PTL DEF Spec, ChangesAreRecorded, NobodySeatedUnbriefed
=============================================================================

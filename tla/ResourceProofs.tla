--------------------------- MODULE ResourceProofs ---------------------------
(* Theorems about ResourceViews and ResourceSession, for any bounds. *)
EXTENDS ResourceSession, SequenceTheorems, TLAPS

(* The shapes of both ends once n commits are published. *)
FrameKinds == {"snapshot", "part", "update", "page", "ready", "coverage", "resync"}
ViewAt(n) ==
  [epoch : Nat, live : BOOLEAN, failed : BOOLEAN, dirty : BOOLEAN, running : BOOLEAN,
   based : BOOLEAN, ready : BOOLEAN, payload : SUBSET (1..n), covered : 0..n]
ViewsAt(n) == [Views -> ViewAt(n)]
TasksAt(n) ==
  [pc : {"idle", "read", "others", "judge", "write", "flush", "ready"}, view : Views, epoch : Nat,
   attempt : 0..Attempts, got : SUBSET (1..n), from : 0..n, moved : BOOLEAN, source : -1..n,
   frames : Seq({"snapshot", "part", "update", "page"})]
FramesAt(n) ==
  [view : Views, epoch : Nat, kind : FrameKinds, content : SUBSET (1..n), after : SUBSET (1..n),
   source : -1..n]
BindingAt(n) ==
  [live : BOOLEAN, epoch : Nat, ready : BOOLEAN, failed : BOOLEAN, has : BOOLEAN, whole : BOOLEAN,
   pending : SUBSET (1..n), source : -1..n]
BindingsAt(n) == [Views -> BindingAt(n)]
PollAt(n) == [on : BOOLEAN, pc : {"idle", "tail", "answer"}, got : SUBSET (1..n), stale : BOOLEAN]
PollsAt(n) == [Views -> PollAt(n)]
PagesAt(n) == [rows : SUBSET (1..n), room : SUBSET (1..n), cached : BOOLEAN, deleted : BOOLEAN]
Posts == [kind : {"register", "remove"}, view : Views, epoch : Nat]
SessionsAt(n) ==
  [binding : BindingsAt(n), asked : [Views -> Nat], posts : SUBSET Posts, poll : PollsAt(n),
   wanted : BOOLEAN, page : PagesAt(n)]

StoreTypes == log \in Seq(Kinds) /\ watch \in {"ok", "pending", "failed"} /\ position \in Nat
StreamTypes ==
  /\ open \in BOOLEAN /\ view \in ViewsAt(position) /\ fence \in [Views -> Nat]
  /\ tail \in Seq(Jobs) /\ task \in TasksAt(position) /\ wire \in Seq(FramesAt(position))
  /\ task.pc = "write" => task.frames # <<>>
  /\ task.pc \in {"write", "flush"} => task.source # NoSource
SessionTypes ==
  /\ mode \in {"up", "down", "hidden"} /\ turns \in Nat
  /\ Here \in SessionsAt(position)
Types == StoreTypes /\ StreamTypes /\ SessionTypes

LEMMA TypesImplyTypeOK == Types => TypeOK
<1>. SUFFICES ASSUME Types PROVE TypeOK OBVIOUS
<1>1. ViewsTypeOK
  <2>1. ViewOK BY DEF Types, StreamTypes, ViewOK, ViewsAt, ViewAt
  <2>2. TaskOK BY DEF Types, StreamTypes, TaskOK, TasksAt
  <2>. QED BY <2>1, <2>2 DEF Types, StoreTypes, StreamTypes, ViewsTypeOK
<1>2. \A i \in DOMAIN wire : wire[i].view \in Views /\ wire[i].content \subseteq 1..position
  <2>. TAKE i \in DOMAIN wire
  <2>1. wire \in Seq(FramesAt(position)) BY DEF Types, StreamTypes
  <2>2. wire[i] \in FramesAt(position) BY <2>1, LenProperties, ElementOfSeq
  <2>. QED BY <2>2 DEF FramesAt
<1>3. binding \in BindingsAt(position) /\ asked \in [Views -> Nat] /\ posts \subseteq Posts
      /\ poll \in PollsAt(position) /\ page \in PagesAt(position) /\ wanted \in BOOLEAN
  BY DEF Types, SessionTypes, SessionsAt, Here
<1>. QED BY <1>1, <1>2, <1>3 DEF Types, SessionTypes, TypeOK, BindingsAt, BindingAt, Posts, PollsAt, PollAt, PagesAt

LEMMA ShapesGrow == ASSUME NEW n \in Nat, NEW m \in Nat, n <= m
  PROVE /\ ViewAt(n) \subseteq ViewAt(m) /\ ViewsAt(n) \subseteq ViewsAt(m)
        /\ TasksAt(n) \subseteq TasksAt(m)
        /\ FramesAt(n) \subseteq FramesAt(m) /\ SessionsAt(n) \subseteq SessionsAt(m)
<1>1. SUBSET (1..n) \subseteq SUBSET (1..m) /\ 0..n \subseteq 0..m /\ -1..n \subseteq -1..m OBVIOUS
<1>2. ViewAt(n) \subseteq ViewAt(m) BY <1>1 DEF ViewAt
<1>9. ViewsAt(n) \subseteq ViewsAt(m) BY <1>2 DEF ViewsAt
<1>3. TasksAt(n) \subseteq TasksAt(m) BY <1>1 DEF TasksAt
<1>4. FramesAt(n) \subseteq FramesAt(m) BY <1>1 DEF FramesAt
<1>5. BindingsAt(n) \subseteq BindingsAt(m) BY <1>1 DEF BindingsAt, BindingAt
<1>6. PollsAt(n) \subseteq PollsAt(m) BY <1>1 DEF PollsAt, PollAt
<1>7. PagesAt(n) \subseteq PagesAt(m) BY <1>1 DEF PagesAt
<1>8. SessionsAt(n) \subseteq SessionsAt(m) BY <1>5, <1>6, <1>7 DEF SessionsAt
<1>. QED BY <1>2, <1>3, <1>4, <1>8, <1>9

LEMMA TypesInit == Init => Types
<1>. SUFFICES ASSUME Init PROVE Types OBVIOUS
<1>1. position = 0 /\ StoreTypes BY DEF Init, StoreTypes, position
<1>2. view \in ViewsAt(0) BY DEF Init, ViewsAt, ViewAt, Off
<1>3. task \in TasksAt(0)
  <2>1. <<>> \in Seq({"snapshot", "part", "update", "page"}) OBVIOUS
  <2>. QED BY <2>1, BoundsAreNumbers DEF Init, TasksAt, Idle, NoSource, Views
<1>4. tail \in Seq(Jobs) /\ wire \in Seq(FramesAt(0)) BY EmptySeq DEF Init
<1>6. StreamTypes BY <1>1, <1>2, <1>3, <1>4 DEF Init, StreamTypes, Idle
<1>5. SessionTypes
  <2>1. Unbound \in BindingAt(0) /\ NoPoll \in PollAt(0) BY DEF BindingAt, PollAt, Unbound, NoPoll, NoSource
  <2>2. binding \in BindingsAt(0) /\ poll \in PollsAt(0) /\ page \in PagesAt(0)
    BY <2>1 DEF Init, BindingsAt, PollsAt, PagesAt
  <2>. QED BY <1>1, <2>2 DEF Init, SessionTypes, SessionsAt, Here
<1>. QED BY <1>1, <1>5, <1>6 DEF Types

-----------------------------------------------------------------------------
(* What the operations of the daemon's end make. *)
LEMMA IdleType == ASSUME NEW n \in Nat PROVE Idle \in TasksAt(n)
<1>1. <<>> \in Seq({"snapshot", "part", "update", "page"}) BY EmptySeq
<1>. QED BY <1>1, BoundsAreNumbers DEF TasksAt, Idle, NoSource, Views

LEMMA FrameType ==
  ASSUME Types, NEW v \in Views, NEW kind \in FrameKinds, NEW content \in SUBSET (1..position),
         NEW after \in SUBSET (1..position), NEW source \in -1..position
  PROVE  /\ Frame(v, kind, content, after, source) \in FramesAt(position)
         /\ <<Frame(v, kind, content, after, source)>> \in Seq(FramesAt(position))
<1>1. view[v].epoch \in Nat BY DEF Types, StreamTypes, ViewsAt, ViewAt
<1>2. Frame(v, kind, content, after, source) \in FramesAt(position) BY <1>1 DEF Frame, FramesAt
<1>. QED BY <1>2

LEMMA SendTypes ==
  ASSUME Types, NEW frames \in Seq(FramesAt(position)), Send(frames)
  PROVE  wire' \in Seq(FramesAt(position)) /\ open' \in BOOLEAN /\ (open' => open)
<1>1. wire \in Seq(FramesAt(position)) /\ open \in BOOLEAN BY DEF Types, StreamTypes
<1>2. wire \o frames \in Seq(FramesAt(position)) BY <1>1, ConcatProperties
<1>. QED BY <1>1, <1>2 DEF Send

LEMMA LeaveTypes ==
  ASSUME NEW n \in Nat, NEW job, job.view \in Views, job.epoch \in Nat, NEW vs \in ViewsAt(n),
         NEW rest \in Seq(Jobs), Leave(job, vs, rest)
  PROVE  view' \in ViewsAt(n) /\ tail' \in Seq(Jobs) /\ task' = Idle
<1>1. [view |-> job.view, epoch |-> job.epoch] \in Jobs BY DEF Jobs
<1>2. Append(rest, [view |-> job.view, epoch |-> job.epoch]) \in Seq(Jobs) BY <1>1, AppendProperties
<1>3. [vs EXCEPT ![job.view].running = FALSE] \in ViewsAt(n) BY DEF ViewsAt, ViewAt
<1>. QED BY <1>2, <1>3 DEF Leave

LEMMA HeardType ==
  ASSUME NEW n \in Nat, NEW v \in Views, view[v] \in ViewAt(n), NEW k, NEW w
  PROVE  Heard(v, k, w, n + 1) \in ViewAt(n + 1)
<1>1. n + 1 \in Nat /\ n <= n + 1 /\ n + 1 \in 0..n + 1 OBVIOUS
<1>2. view[v] \in ViewAt(n + 1) BY <1>1, ShapesGrow
<1>. QED BY <1>1, <1>2 DEF Heard, Schedule, ViewAt

LEMMA ContentType ==
  ASSUME Types, NEW v PROVE Content(v, position) \in SUBSET (1..position)
BY DEF Content

LEMMA OnlyType ==
  ASSUME NEW commits, NEW kinds PROVE Only(commits, kinds) \subseteq commits /\ History(commits) \subseteq commits
BY DEF Only, History

(* Each step of the daemon's end keeps its shape. *)
Now == StreamTypes' /\ UNCHANGED store

LEMMA EndTypes ==
  ASSUME Types, NEW vs \in ViewsAt(position), End(vs)
  PROVE  view' \in ViewsAt(position) /\ tail' \in Seq(Jobs) /\ task' = Idle
<1>1. task.view \in Views /\ task.epoch \in Nat /\ tail \in Seq(Jobs) /\ position \in Nat
  BY DEF Types, StreamTypes, StoreTypes, TasksAt
<1>. QED BY <1>1, LeaveTypes DEF End

LEMMA StreamTyped ==
  ASSUME Types, UNCHANGED store, view' \in ViewsAt(position), fence' \in [Views -> Nat],
         tail' \in Seq(Jobs), task' \in TasksAt(position), wire' \in Seq(FramesAt(position)),
         open' \in BOOLEAN, task'.pc = "write" => task'.frames # <<>>,
         task'.pc \in {"write", "flush"} => task'.source # NoSource
  PROVE  StreamTypes'
<1>1. position' = position BY DEF store, position
<1>. QED BY <1>1 DEF StreamTypes

LEMMA FailTypes ==
  ASSUME Types, Fail
  PROVE  /\ view' \in ViewsAt(position) /\ tail' \in Seq(Jobs) /\ task' = Idle
         /\ wire' \in Seq(FramesAt(position)) /\ open' \in BOOLEAN
<1>1. task.view \in Views /\ position \in Nat /\ view \in ViewsAt(position)
  BY DEF Types, StreamTypes, StoreTypes, TasksAt
<1>2. <<Frame(task.view, "resync", {}, {}, NoSource)>> \in Seq(FramesAt(position))
  BY <1>1, FrameType DEF NoSource, FrameKinds
<1>3. [view EXCEPT ![task.view].failed = TRUE] \in ViewsAt(position) BY <1>1 DEF ViewsAt, ViewAt
<1>. QED BY <1>2, <1>3, SendTypes, EndTypes DEF Fail

LEMMA Marked ==
  ASSUME NEW n, NEW vs \in ViewsAt(n), NEW v \in Views
  PROVE  /\ [vs EXCEPT ![v].dirty = FALSE] \in ViewsAt(n)
         /\ [vs EXCEPT ![v].failed = TRUE] \in ViewsAt(n)
         /\ [vs EXCEPT ![v].running = FALSE] \in ViewsAt(n)
         /\ [vs EXCEPT ![v].ready = TRUE] \in ViewsAt(n)
<1>. DEFINE P == SUBSET (1..n)  C == 0..n
            T == [epoch : Nat, live : BOOLEAN, failed : BOOLEAN, dirty : BOOLEAN, running : BOOLEAN,
                  based : BOOLEAN, ready : BOOLEAN, payload : P, covered : C]
<1>1. ViewsAt(n) = [Views -> T] BY DEF ViewsAt, ViewAt
<1>. HIDE DEF P, C
<1>2. ASSUME NEW r \in T
      PROVE  /\ [r EXCEPT !.dirty = FALSE] \in T /\ [r EXCEPT !.failed = TRUE] \in T
             /\ [r EXCEPT !.running = FALSE] \in T /\ [r EXCEPT !.ready = TRUE] \in T
  OBVIOUS
<1>. HIDE DEF T
<1>. QED BY <1>1, <1>2

LEMMA BeginTypes == ASSUME Types, Begin PROVE StreamTypes'
<1>. DEFINE job == Head(tail)  v == job.view  clean == [view EXCEPT ![v].dirty = FALSE]
<1>1. position \in Nat /\ view \in ViewsAt(position) /\ fence \in [Views -> Nat] /\ tail \in Seq(Jobs)
      /\ wire \in Seq(FramesAt(position)) /\ open \in BOOLEAN /\ tail # <<>>
      /\ UNCHANGED store /\ fence' = fence
  BY DEF Types, StreamTypes, StoreTypes, Begin
<1>2. job \in Jobs /\ Tail(tail) \in Seq(Jobs) BY <1>1, HeadTailProperties
<1>3. v \in Views /\ job.epoch \in Nat BY <1>2 DEF Jobs
<1>4. clean \in ViewsAt(position) /\ [clean EXCEPT ![v].failed = TRUE] \in ViewsAt(position)
  BY <1>1, <1>3, Marked
<1>5. Idle \in TasksAt(position) BY <1>1, IdleType
<1>8. Idle.pc = "idle" BY DEF Idle
<1>6. CASE Skip(view, job) \/ Skip(clean, job) \/ Skip([clean EXCEPT ![v].failed = TRUE], job)
  <2>1. view' \in ViewsAt(position) /\ tail' \in Seq(Jobs) /\ task' = Idle
    BY <1>1, <1>2, <1>3, <1>4, <1>6, LeaveTypes DEF Skip
  <2>2. <<Frame(v, "resync", {}, {}, NoSource)>> \in Seq(FramesAt(position))
    BY <1>1, <1>3, FrameType DEF NoSource, FrameKinds
  <2>3. \/ UNCHANGED <<open, wire>>
        \/ Send(<<Frame(v, "resync", {}, {}, NoSource)>>)
        \/ task' # Idle
    <3>1. CASE Attempt(1, job, clean)
      <4>1. task'.pc = "read" BY <1>5, <3>1 DEF Attempt, TasksAt
      <4>. QED BY <1>8, <4>1
    <3>. QED BY <3>1 DEF Begin
  <2>4. wire' \in Seq(FramesAt(position)) /\ open' \in BOOLEAN BY <1>1, <2>1, <2>2, <2>3, SendTypes
  <2>. QED BY <1>1, <1>5, <1>8, <2>1, <2>4, StreamTyped
<1>7. CASE Attempt(1, job, clean) /\ tail' = Tail(tail) /\ UNCHANGED <<open, wire>>
  <2>1. task' \in TasksAt(position) /\ task'.pc = "read"
    <3>1. 1 \in 0..Attempts /\ position \in 0..position BY <1>1, BoundsAreNumbers
    <3>. HIDE DEF job
    <3>. QED BY <1>3, <1>5, <1>7, <3>1 DEF Attempt, TasksAt
  <2>. QED BY <1>1, <1>2, <1>4, <1>7, <2>1, StreamTyped DEF Attempt
<1>. QED BY <1>6, <1>7 DEF Begin

(* What a step starts from. *)
LEMMA Shapes ==
  ASSUME Types
  PROVE  /\ position \in Nat /\ view \in ViewsAt(position) /\ fence \in [Views -> Nat]
         /\ tail \in Seq(Jobs) /\ task \in TasksAt(position) /\ wire \in Seq(FramesAt(position))
         /\ open \in BOOLEAN /\ task.view \in Views /\ task.got \in SUBSET (1..position)
         /\ task.source \in -1..position /\ task.attempt \in 0..Attempts
         /\ task.frames \in Seq({"snapshot", "part", "update", "page"})
         /\ Idle \in TasksAt(position) /\ Idle.pc = "idle"
<1>1. position \in Nat /\ task \in TasksAt(position) BY DEF Types, StoreTypes, StreamTypes
<1>2. Idle.pc = "idle" BY DEF Idle
<1>. QED BY <1>1, <1>2, IdleType DEF Types, StreamTypes, TasksAt

LEMMA ReadTypes ==
  ASSUME Types, ReadRoom \/ ReadListedRoom \/ ReadOtherRooms \/ ReadyFlushed \/ ListingFails
  PROVE  StreamTypes'
<1>1. CASE ReadRoom \/ ReadListedRoom \/ ReadOtherRooms
  <2>1. \A ks : Only(1..position, ks) \in SUBSET (1..position) BY OnlyType
  <2>2. 0 \in 0..position BY Shapes
  <2>3. task' \in TasksAt(position) /\ task'.pc \notin {"write", "flush"}
    <3>1. CASE ReadRoom BY <2>2, <3>1, Shapes, ContentType DEF ReadRoom, TasksAt
    <3>2. CASE ReadListedRoom BY <2>1, <3>2, Shapes DEF ReadListedRoom, TasksAt
    <3>3. CASE ReadOtherRooms BY <2>1, <2>2, <3>3, Shapes DEF ReadOtherRooms, TasksAt
    <3>. QED BY <1>1, <3>1, <3>2, <3>3
  <2>. QED BY <1>1, <2>3, Shapes, StreamTyped DEF ReadRoom, ReadListedRoom, ReadOtherRooms
<1>2. CASE ReadyFlushed
  <2>1. [view EXCEPT ![task.view].ready = TRUE] \in ViewsAt(position) BY Shapes, Marked
  <2>2. view' \in ViewsAt(position) /\ tail' \in Seq(Jobs) /\ task' = Idle
    BY <1>2, <2>1, Shapes, EndTypes DEF ReadyFlushed
  <2>. QED BY <1>2, <2>2, Shapes, StreamTyped DEF ReadyFlushed
<1>3. CASE ListingFails
  <2>1. CASE Fail BY <1>3, <2>1, Shapes, FailTypes, StreamTyped DEF ListingFails
  <2>2. CASE End(view) /\ UNCHANGED <<open, wire>>
    BY <1>3, <2>2, Shapes, EndTypes, StreamTyped DEF ListingFails
  <2>. QED BY <1>3, <2>1, <2>2 DEF ListingFails
<1>. QED BY <1>1, <1>2, <1>3

LEMMA JudgeTypes == ASSUME Types, Judge PROVE StreamTypes'
<1>. DEFINE v == task.view  clean == [view EXCEPT ![v].dirty = FALSE]
<1>1. clean \in ViewsAt(position) /\ [clean EXCEPT ![v].covered = position] \in ViewsAt(position)
  <2>1. clean \in ViewsAt(position) BY Shapes, Marked
  <2>. HIDE DEF clean
  <2>2. position \in 0..position /\ v \in Views BY Shapes
  <2>3. clean \in [Views -> ViewAt(position)] BY <2>1 DEF ViewsAt
  <2>4. clean[v] \in ViewAt(position) BY <2>2, <2>3
  <2>5. [clean[v] EXCEPT !.covered = position] \in ViewAt(position)
    BY SMTT(30), <2>2, <2>4 DEF ViewAt
  <2>. QED BY SMTT(30), <2>1, <2>2, <2>3, <2>5 DEF ViewsAt
<1>2. CASE \E vs \in {view, clean, [clean EXCEPT ![v].covered = position]} :
             End(vs) /\ UNCHANGED <<open, wire>>
  BY <1>1, <1>2, Shapes, EndTypes, StreamTyped DEF Judge
<1>3. CASE MayRetry /\ Attempt(task.attempt + 1, task, view) /\ UNCHANGED <<tail, open, wire>>
  <2>1. task.attempt + 1 \in 0..Attempts
    <3>1. task.attempt \in 0..Attempts /\ Attempts \in Nat /\ task.attempt < Attempts
      BY <1>3, Shapes, BoundsAreNumbers DEF MayRetry
    <3>. QED BY <3>1
  <2>4. position \in 0..position /\ task.epoch \in Nat BY Shapes DEF TasksAt
  <2>2. task' \in TasksAt(position) /\ task'.pc = "read" BY <1>3, <2>1, <2>4, Shapes DEF Attempt, TasksAt
  <2>. QED BY <1>3, <2>2, Shapes, StreamTyped DEF Attempt, Judge
<1>4. CASE Fail BY <1>4, Shapes, FailTypes, StreamTyped DEF Judge
<1>5. CASE /\ \E frames \in Writings(task.got) :
                task' = [task EXCEPT !.pc = "write", !.attempt = 0, !.frames = frames, !.source = position]
           /\ view' = clean /\ UNCHANGED <<open, tail, wire>>
  <2>1. PICK frames \in Writings(task.got) :
          task' = [task EXCEPT !.pc = "write", !.attempt = 0, !.frames = frames, !.source = position]
    BY <1>5
  <2>2. frames \in Seq({"snapshot", "part", "update", "page"}) /\ frames # <<>>
    <3>1. \A x, y \in {"snapshot", "part", "update", "page"} :
            /\ <<x>> \in Seq({"snapshot", "part", "update", "page"}) /\ <<x>> # <<>>
            /\ <<x, y>> \in Seq({"snapshot", "part", "update", "page"}) /\ <<x, y>> # <<>>
      OBVIOUS
    <3>2. frames \in {<<"snapshot">>, <<"update", "page">>, <<"part", "page">>} BY DEF Writings
    <3>. QED BY <3>1, <3>2
  <2>3. position \in -1..position /\ 0 \in 0..Attempts BY Shapes, BoundsAreNumbers
  <2>4. task' \in TasksAt(position) /\ task'.frames = frames /\ task'.source = position
    BY <2>1, <2>2, <2>3, Shapes DEF TasksAt
  <2>5. position # NoSource BY Shapes DEF NoSource
  <2>. QED BY <1>1, <1>5, <2>2, <2>4, <2>5, Shapes, StreamTyped DEF Judge
<1>. QED BY <1>2, <1>3, <1>4, <1>5 DEF Judge

LEMMA WriteTypes == ASSUME Types, Write PROVE StreamTypes'
<1>. DEFINE v == task.view  last == Len(task.frames) = 1  kind == Head(task.frames)
            source == IF last /\ ~Pending(v) THEN task.source ELSE NoSource
<1>1. CASE End(view) /\ UNCHANGED <<open, wire>>
  BY <1>1, Shapes, EndTypes, StreamTyped DEF Write
<1>2. CASE /\ Send(<<Frame(v, kind, Carried(kind), History(view[v].payload), source)>>)
           /\ task' = [task EXCEPT !.pc = "flush", !.frames = Tail(@)]
           /\ UNCHANGED <<view, tail>>
  <2>1. task.frames # <<>> BY DEF Types, StreamTypes, Write
  <2>2. kind \in {"snapshot", "part", "update", "page"}
        /\ Tail(task.frames) \in Seq({"snapshot", "part", "update", "page"})
    BY <2>1, Shapes, HeadTailProperties
  <2>3. view[v].payload \in SUBSET (1..position) BY Shapes DEF ViewsAt, ViewAt
  <2>4. Carried(kind) \in SUBSET (1..position) /\ History(view[v].payload) \in SUBSET (1..position)
    BY <2>3, Shapes, OnlyType DEF Carried
  <2>5. source \in -1..position /\ kind \in FrameKinds BY <2>2, Shapes DEF NoSource, FrameKinds
  <2>. HIDE DEF v, kind, source
  <2>6. <<Frame(v, kind, Carried(kind), History(view[v].payload), source)>> \in Seq(FramesAt(position))
    BY <2>4, <2>5, Shapes, FrameType DEF v
  <2>7. wire' \in Seq(FramesAt(position)) /\ open' \in BOOLEAN BY <1>2, <2>6, SendTypes
  <2>8. task' \in TasksAt(position) /\ task'.pc = "flush" /\ task'.source # NoSource
    BY <1>2, <2>2, Shapes DEF TasksAt, Write, Types, StreamTypes
  <2>. QED BY <1>2, <2>7, <2>8, Shapes, StreamTyped DEF Write
<1>. QED BY <1>1, <1>2 DEF Write

LEMMA CertifiedType ==
  ASSUME Types, NEW v \in Views
  PROVE  [view EXCEPT ![v] = Certified(view[v], task.got, task.source)] \in ViewsAt(position)
         \/ task.source = NoSource
<1>1. CASE task.source # NoSource
  <2>1. task.source \in 0..position /\ position \in 0..position BY <1>1, Shapes DEF NoSource
  <2>2. view[v] \in ViewAt(position) BY Shapes DEF ViewsAt
  <2>3. Certified(view[v], task.got, task.source) \in ViewAt(position)
    BY <2>1, <2>2, Shapes DEF Certified, ViewAt
  <2>. QED BY <2>3, Shapes DEF ViewsAt
<1>. QED BY <1>1

LEMMA FlushedTypes == ASSUME Types, Flushed PROVE StreamTypes'
<1>. DEFINE v == task.view  r == Certified(view[v], task.got, task.source)
            vs == [view EXCEPT ![v] = r]
<1>1. vs \in ViewsAt(position) BY Shapes, CertifiedType DEF Flushed, Types, StreamTypes
<1>2. CASE task.frames # <<>> /\ task' = [task EXCEPT !.pc = "write"] /\ UNCHANGED <<open, view, tail, wire>>
  <2>1. task' \in TasksAt(position) /\ task'.frames # <<>> /\ task'.source # NoSource
    BY <1>2, Shapes DEF TasksAt, Flushed, Types, StreamTypes
  <2>. QED BY <1>2, <2>1, Shapes, StreamTyped DEF Flushed
<1>3. CASE End(view) /\ UNCHANGED <<open, wire>>
  BY <1>3, Shapes, EndTypes, StreamTyped DEF Flushed
<1>4. CASE End(vs) /\ UNCHANGED <<open, wire>>
  BY <1>1, <1>4, Shapes, EndTypes, StreamTyped DEF Flushed
<1>5. CASE /\ view' = vs /\ task' = [task EXCEPT !.pc = "ready", !.got = {}, !.source = NoSource]
           /\ Send(<<Frame(v, "ready", {}, {}, r.covered)>>) /\ UNCHANGED tail
  <2>1. vs[v] = r /\ r \in ViewAt(position) BY <1>1, Shapes DEF ViewsAt
  <2>2. r.covered \in -1..position BY <2>1 DEF ViewAt
  <2>3. <<Frame(v, "ready", {}, {}, r.covered)>> \in Seq(FramesAt(position))
    BY <2>2, Shapes, FrameType DEF FrameKinds
  <2>4. wire' \in Seq(FramesAt(position)) /\ open' \in BOOLEAN BY <1>5, <2>3, SendTypes
  <2>5. NoSource \in -1..position BY Shapes DEF NoSource
  <2>6. task' \in TasksAt(position) /\ task'.pc = "ready" BY <1>5, <2>5, Shapes DEF TasksAt
  <2>. QED BY <1>1, <1>5, <2>4, <2>6, Shapes, StreamTyped DEF Flushed
<1>. QED BY <1>2, <1>3, <1>4, <1>5 DEF Flushed, Settle

LEMMA CoverageTypes == ASSUME Types, Coverage PROVE StreamTypes'
<1>. DEFINE covers(v) == IF Eligible(v) THEN <<Frame(v, "coverage", {}, {}, view[v].covered)>> ELSE <<>>
<1>1. \A v \in Views : covers(v) \in Seq(FramesAt(position))
  <2>. TAKE v \in Views
  <2>1. view[v].covered \in -1..position BY Shapes DEF ViewsAt, ViewAt
  <2>2. <<Frame(v, "coverage", {}, {}, view[v].covered)>> \in Seq(FramesAt(position))
    BY <2>1, FrameType DEF FrameKinds
  <2>3. <<>> \in Seq(FramesAt(position)) BY EmptySeq
  <2>. QED BY <2>2, <2>3
<1>2. covers("rooms") \o covers("room") \in Seq(FramesAt(position))
  <2>. HIDE DEF covers
  <2>. QED BY <1>1, ConcatProperties DEF Views
<1>3. Send(covers("rooms") \o covers("room")) /\ UNCHANGED <<store, view, fence, tail, task>>
  BY DEF Coverage
<1>. HIDE DEF covers
<1>4. wire' \in Seq(FramesAt(position)) /\ open' \in BOOLEAN BY <1>2, <1>3, SendTypes
<1>. QED BY <1>3, <1>4, Shapes, StreamTyped DEF Types, StreamTypes

(* A commit: the views hear of it, in no particular order. *)
LEMMA QueuedType ==
  ASSUME NEW v \in Views, NEW r, r.epoch \in Nat PROVE Queued(v, r) \in Seq(Jobs)
<1>1. [view |-> v, epoch |-> r.epoch] \in Jobs BY DEF Jobs
<1>2. <<[view |-> v, epoch |-> r.epoch]>> \in Seq(Jobs) /\ <<>> \in Seq(Jobs) BY <1>1, EmptySeq
<1>. QED BY <1>2 DEF Queued

LEMMA PublishTypes ==
  ASSUME Types, NEW k \in Kinds, NEW w \in {"ok", "pending", "failed"}, Publish(k, w)
  PROVE  StoreTypes' /\ StreamTypes' /\ position' = position + 1
<1>. DEFINE heard == [v \in Views |-> Heard(v, k, w, position + 1)]
            frames == IF heard["room"].failed /\ ~view["room"].failed
                      THEN <<Frame("room", "resync", {}, {}, NoSource)>> ELSE <<>>
<1>1. log \in Seq(Kinds) /\ log' = Append(log, k) /\ watch' = w BY DEF Types, StoreTypes, Publish
<1>2. position' = position + 1 /\ StoreTypes' BY <1>1, AppendProperties, Shapes DEF StoreTypes, position
<1>3. heard \in ViewsAt(position + 1) BY Shapes, HeardType DEF ViewsAt
<1>4. heard["rooms"].epoch \in Nat /\ heard["room"].epoch \in Nat BY <1>3 DEF ViewsAt, ViewAt, Views
<1>5. Queued("rooms", heard["rooms"]) \in Seq(Jobs) /\ Queued("room", heard["room"]) \in Seq(Jobs)
  <2>. HIDE DEF heard
  <2>. QED BY <1>4, QueuedType DEF Views
<1>6. tail' \in Seq(Jobs)
  <2>1. tail' = tail \o Queued("rooms", heard["rooms"]) \o Queued("room", heard["room"]) BY DEF Publish
  <2>. HIDE DEF heard
  <2>. QED BY <1>5, <2>1, Shapes, ConcatProperties
<1>7. frames \in Seq(FramesAt(position)) BY Shapes, FrameType, EmptySeq DEF FrameKinds, NoSource, Views
<1>8. wire' \in Seq(FramesAt(position)) /\ open' \in BOOLEAN
  <2>1. Send(frames) BY DEF Publish
  <2>. HIDE DEF frames
  <2>. QED BY <1>7, <2>1, SendTypes
<1>9. FramesAt(position) \subseteq FramesAt(position + 1) /\ TasksAt(position) \subseteq TasksAt(position + 1)
  BY Shapes, ShapesGrow
<1>10. wire' \in Seq(FramesAt(position + 1)) BY <1>8, <1>9, SeqMonotonic
<1>11. task' = [task EXCEPT !.moved = task.moved \/ Moves(k, w)] BY DEF Publish
<1>12. (task.moved \/ Moves(k, w)) \in BOOLEAN OBVIOUS
<1>13. task' \in TasksAt(position) /\ task'.pc = task.pc /\ task'.frames = task.frames
       /\ task'.source = task.source
  BY <1>11, Shapes DEF TasksAt
<1>14. view' = heard /\ fence' = fence BY DEF Publish
<1>. QED BY <1>2, <1>3, <1>6, <1>8, <1>9, <1>10, <1>13, <1>14, Shapes DEF StreamTypes, Types

LEMMA BindingTypes ==
  ASSUME Types, NEW v \in Views, NEW e \in Nat, Register(v, e) \/ Remove(v, e)
  PROVE  StreamTypes' /\ UNCHANGED store
<1>4. Off \in ViewAt(position) BY Shapes DEF Off, ViewAt
<1>1. Off \in ViewAt(position) /\ Fresh(e) \in ViewAt(position) BY <1>4 DEF Fresh, ViewAt
<1>2. CASE Register(v, e)
  <2>1. Schedule(Fresh(e)) \in ViewAt(position) BY <1>1 DEF Schedule, ViewAt
  <2>2. view' \in ViewsAt(position) BY <1>2, <2>1, Shapes DEF Register, ViewsAt
  <2>3. [view |-> v, epoch |-> e] \in Jobs BY DEF Jobs
  <2>4. tail' \in Seq(Jobs) BY <1>2, <2>3, Shapes, AppendProperties DEF Register
  <2>5. UNCHANGED <<store, open, task, wire>> BY <1>2 DEF Register, store
  <2>6. fence' \in [Views -> Nat] BY <1>2, Shapes DEF Register
  <2>. QED BY <2>2, <2>4, <2>5, <2>6, Shapes, StreamTyped DEF Types, StreamTypes
<1>3. CASE Remove(v, e)
  <2>1. view' \in ViewsAt(position) BY <1>1, <1>3, Shapes DEF Remove, ViewsAt
  <2>2. UNCHANGED <<store, open, tail, task, wire>> BY <1>3 DEF Remove, store
  <2>3. fence' \in [Views -> Nat] BY <1>3, Shapes DEF Remove
  <2>. QED BY <2>1, <2>2, <2>3, Shapes, StreamTyped DEF Types, StreamTypes
<1>. QED BY <1>2, <1>3

LEMMA ClosedTypes ==
  ASSUME Types, NEW isOpen \in BOOLEAN, Closed(isOpen), UNCHANGED store PROVE StreamTypes'
<1>1. Off \in ViewAt(position) BY Shapes DEF Off, ViewAt
<1>2. view' \in ViewsAt(position) BY <1>1 DEF Closed, ViewsAt
<1>3. tail' \in Seq(Jobs) /\ wire' \in Seq(FramesAt(position)) BY EmptySeq DEF Closed
<1>. QED BY <1>2, <1>3, Shapes, StreamTyped DEF Closed

(* Frames that are read leave the others. *)
LEMMA ReadOnTypes ==
  ASSUME Types, wire # <<>>, wire' = Tail(wire), UNCHANGED <<store, open, view, fence, tail, task>>
  PROVE  StreamTypes'
<1>1. wire' \in Seq(FramesAt(position)) BY Shapes, HeadTailProperties
<1>. QED BY <1>1, Shapes, StreamTyped DEF Types, StreamTypes

LEMMA StillTypes ==
  ASSUME Types, UNCHANGED <<store, stream>> PROVE StreamTypes' /\ StoreTypes' /\ position' = position
BY DEF Types, StreamTypes, StoreTypes, store, stream, position

LEMMA StoreStays == ASSUME Types, UNCHANGED store PROVE StoreTypes' /\ position' = position
BY DEF Types, StoreTypes, store, position

-----------------------------------------------------------------------------
(* The session: each change of it is a change of a record. *)
LEMMA RecoverTypes ==
  ASSUME NEW n, NEW s \in SessionsAt(n), NEW v \in Views
  PROVE  Recover(s, v) \in SessionsAt(n) /\ StopRecovery(s, v) \in SessionsAt(n)
<1>1. NoPoll \in PollAt(n) BY DEF NoPoll, PollAt
<1>2. [s.poll EXCEPT ![v].on = TRUE] \in PollsAt(n) BY DEF SessionsAt, PollsAt, PollAt
<1>3. [s.poll EXCEPT ![v] = NoPoll] \in PollsAt(n) BY <1>1 DEF SessionsAt, PollsAt
<1>4. Recover(s, v) = IF s.poll[v].on THEN s ELSE [s EXCEPT !.poll = [s.poll EXCEPT ![v].on = TRUE]]
  BY DEF Recover, SessionsAt
<1>5. StopRecovery(s, v) = [s EXCEPT !.poll = [s.poll EXCEPT ![v] = NoPoll]]
  BY DEF StopRecovery, SessionsAt
<1>. QED BY <1>2, <1>3, <1>4, <1>5 DEF SessionsAt

LEMMA BindTypes ==
  ASSUME NEW n \in Nat, NEW s \in SessionsAt(n), NEW v \in Views
  PROVE  Bind(s, v) \in SessionsAt(n)
<1>. DEFINE e == s.asked[v] + 1  b == [Unbound EXCEPT !.live = TRUE, !.epoch = e]
            p == [kind |-> "register", view |-> v, epoch |-> e]
<1>1. e \in Nat BY DEF SessionsAt
<1>2. b \in BindingAt(n)
  <2>1. Unbound \in BindingAt(n) BY DEF Unbound, NoSource, BindingAt
  <2>. QED BY <1>1, <2>1 DEF BindingAt
<1>3. p \in Posts BY <1>1 DEF Posts
<1>. HIDE DEF b, p, e
<1>4. [s.binding EXCEPT ![v] = b] \in BindingsAt(n) BY <1>2 DEF SessionsAt, BindingsAt
<1>5. [s.asked EXCEPT ![v] = e] \in [Views -> Nat] BY <1>1 DEF SessionsAt
<1>6. s.posts \cup {p} \in SUBSET Posts BY <1>3 DEF SessionsAt
<1>7. Bind(s, v) = IF s.binding[v].live THEN s
                   ELSE [s EXCEPT !.asked = [s.asked EXCEPT ![v] = e],
                                  !.binding = [s.binding EXCEPT ![v] = b], !.posts = s.posts \cup {p}]
  BY DEF Bind, SessionsAt, b, p, e
<1>. QED BY <1>4, <1>5, <1>6, <1>7 DEF SessionsAt

LEMMA UnwatchTypes ==
  ASSUME NEW n \in Nat, NEW s \in SessionsAt(n) PROVE Unwatch(s) \in SessionsAt(n)
<1>. DEFINE b == s.binding["room"]  p == [kind |-> "remove", view |-> "room", epoch |-> b.epoch]
<1>1. "room" \in Views /\ b \in BindingAt(n) BY DEF Views, SessionsAt, BindingsAt
<1>2. p \in Posts BY <1>1 DEF Posts, BindingAt
<1>3. Unbound \in BindingAt(n) /\ NoPoll \in PollAt(n) BY DEF Unbound, NoSource, BindingAt, NoPoll, PollAt
<1>4. [s.binding EXCEPT !["room"] = Unbound] \in BindingsAt(n) BY <1>1, <1>3 DEF SessionsAt, BindingsAt
<1>5. [s.poll EXCEPT !["room"] = NoPoll] \in PollsAt(n) BY <1>1, <1>3 DEF SessionsAt, PollsAt
<1>. HIDE DEF p
<1>6. (IF b.live THEN s.posts \cup {p} ELSE s.posts) \in SUBSET Posts BY <1>2 DEF SessionsAt
<1>7. Unwatch(s) = [s EXCEPT !.wanted = FALSE, !.poll = [s.poll EXCEPT !["room"] = NoPoll],
                             !.binding = [s.binding EXCEPT !["room"] = Unbound],
                             !.posts = IF b.live THEN s.posts \cup {p} ELSE s.posts]
  BY DEF Unwatch, SessionsAt, p
<1>. QED BY <1>4, <1>5, <1>6, <1>7 DEF SessionsAt

LEMMA DeliverTypes ==
  ASSUME NEW n \in Nat, NEW s \in SessionsAt(n), NEW v \in Views, NEW content \in SUBSET (1..n)
  PROVE  Deliver(s, v, content) \in SessionsAt(n)
<1>1. \A pg \in PagesAt(n) : [s EXCEPT !.page = pg] \in SessionsAt(n) BY DEF SessionsAt
<1>2. s.page \in PagesAt(n) BY DEF SessionsAt
<1>3. DeliverRooms(s, content) \in SessionsAt(n)
  <2>. DEFINE rows == [s.page EXCEPT !.rows = content]
              gone == [s.page EXCEPT !.rows = content, !.room = {}, !.cached = FALSE]
  <2>1. rows \in PagesAt(n) /\ gone \in PagesAt(n) BY <1>2 DEF PagesAt
  <2>2. DeliverRooms(s, content) = IF Gone(content) THEN Unwatch([s EXCEPT !.page = gone])
                                   ELSE [s EXCEPT !.page = rows]
    BY DEF DeliverRooms, SessionsAt, PagesAt
  <2>. HIDE DEF rows, gone
  <2>. QED BY <1>1, <2>1, <2>2, UnwatchTypes
<1>4. DeliverRoom(s, content) \in SessionsAt(n)
  <2>. DEFINE gone == [s.page EXCEPT !.deleted = TRUE, !.room = {}, !.cached = FALSE]
              listed == (s.page.rows \ Only(s.page.rows, {"metadata"})) \cup Only(content, {"metadata"})
              shown == [s.page EXCEPT !.room = content, !.cached = TRUE,
                                      !.rows = IF Listed(s.page) THEN listed ELSE s.page.rows]
  <2>1. gone \in PagesAt(n) BY <1>2 DEF PagesAt
  <2>2. listed \in SUBSET (1..n) BY <1>2, OnlyType DEF PagesAt
  <2>3. shown \in PagesAt(n)
    <3>. HIDE DEF listed
    <3>. QED BY <1>2, <2>2 DEF PagesAt
  <2>4. \A t \in SessionsAt(n) : Outdated(t) \in SessionsAt(n)
    <3>. TAKE t \in SessionsAt(n)
    <3>1. [t.poll EXCEPT !["room"].stale = t.poll["room"].on] \in PollsAt(n)
      BY DEF SessionsAt, PollsAt, PollAt, Views
    <3>2. Outdated(t) = [t EXCEPT !.poll = [t.poll EXCEPT !["room"].stale = t.poll["room"].on]]
      BY DEF Outdated, SessionsAt
    <3>. QED BY <3>1, <3>2 DEF SessionsAt
  <2>5. DeliverRoom(s, content) =
          IF Gone(content) THEN Unwatch([s EXCEPT !.page = gone])
          ELSE IF s.page.deleted THEN s ELSE Outdated([s EXCEPT !.page = shown])
    BY DEF DeliverRoom, SessionsAt, PagesAt
  <2>. HIDE DEF gone, shown
  <2>. QED BY <1>1, <2>1, <2>3, <2>4, <2>5, UnwatchTypes
<1>. QED BY <1>3, <1>4 DEF Deliver

(* What a session holds of a view, changed. *)
LEMMA HeldTypes ==
  ASSUME NEW n, NEW s \in SessionsAt(n), NEW v \in Views, NEW b \in BindingAt(n)
  PROVE  [s EXCEPT !.binding[v] = b] \in SessionsAt(n)
<1>1. [s.binding EXCEPT ![v] = b] \in BindingsAt(n) BY DEF SessionsAt, BindingsAt
<1>2. [s EXCEPT !.binding[v] = b] = [s EXCEPT !.binding = [s.binding EXCEPT ![v] = b]] BY DEF SessionsAt
<1>. QED BY <1>1, <1>2 DEF SessionsAt

LEMMA CertifyTypes ==
  ASSUME NEW n \in Nat, NEW s \in SessionsAt(n), NEW v \in Views, NEW source \in -1..n
  PROVE  Certify(s, v, source) \in SessionsAt(n)
<1>1. [s.binding[v] EXCEPT !.source = source] \in BindingAt(n) BY DEF SessionsAt, BindingsAt, BindingAt
<1>2. Certify(s, v, source) = IF source = NoSource THEN s
        ELSE [s EXCEPT !.binding[v] = [s.binding[v] EXCEPT !.source = source]]
  BY DEF Certify
<1>. QED BY <1>1, <1>2, HeldTypes

LEMMA HereIs == ASSUME Types PROVE Here \in SessionsAt(position) BY DEF Types, SessionTypes

LEMMA BecomesTypes ==
  ASSUME Types, position' = position, NEW s \in SessionsAt(position), Becomes(s),
         mode' \in {"up", "down", "hidden"}, turns' \in Nat
  PROVE  SessionTypes'
<1>1. Here' = s
  BY DEF Becomes, Here, SessionsAt
<1>. QED BY <1>1 DEF SessionTypes

-----------------------------------------------------------------------------
(* What the session asked for: a live binding is the last registration asked for, and *)
(* nothing on its way to the daemon is newer.                                         *)
AskedOf(s) ==
  /\ \A v \in Views : s.binding[v].live => s.binding[v].epoch = s.asked[v]
  /\ \A p \in s.posts : p.epoch <= s.asked[p.view]

(* A change of the session that takes nothing from the stream: a view's assembly is as *)
(* it was, or it is no longer bound, or bound anew.                                    *)
Alike(b, c) == b.live = c.live /\ b.epoch = c.epoch /\ b.whole = c.whole /\ b.pending = c.pending
Rebinds(s, t) ==
  \A v \in Views :
    \/ Alike(s.binding[v], t.binding[v]) /\ t.asked[v] = s.asked[v]
    \/ ~t.binding[v].live /\ t.asked[v] >= s.asked[v]
    \/ ~t.binding[v].whole /\ t.asked[v] > s.asked[v]
Keeps(s, t) == AskedOf(s) => AskedOf(t) /\ Rebinds(s, t)

LEMMA KeepsAll ==
  ASSUME NEW s, NEW t, t.binding = s.binding /\ t.asked = s.asked /\ t.posts = s.posts
  PROVE  Keeps(s, t)
BY DEF Keeps, AskedOf, Rebinds, Alike

LEMMA KeepsOn ==
  ASSUME NEW n, NEW s \in SessionsAt(n), NEW t \in SessionsAt(n), NEW u \in SessionsAt(n),
         Keeps(s, t), Keeps(t, u)
  PROVE  Keeps(s, u)
<1>1. \A v \in Views : s.asked[v] \in Nat /\ t.asked[v] \in Nat /\ u.asked[v] \in Nat BY DEF SessionsAt
<1>2. Rebinds(s, t) /\ Rebinds(t, u) => Rebinds(s, u) BY <1>1 DEF Rebinds, Alike
<1>. QED BY <1>2 DEF Keeps

LEMMA PostTypes ==
  ASSUME NEW n, NEW s \in SessionsAt(n), NEW p \in s.posts PROVE p.view \in Views /\ p.epoch \in Nat
<1>1. p \in Posts BY DEF SessionsAt
<1>. QED BY <1>1 DEF Posts

LEMMA RecoverKeeps ==
  ASSUME NEW n, NEW s \in SessionsAt(n), NEW v \in Views
  PROVE  Keeps(s, Recover(s, v)) /\ Keeps(s, StopRecovery(s, v)) /\ Keeps(s, Outdated(s))
<1>1. Recover(s, v).binding = s.binding /\ Recover(s, v).asked = s.asked /\ Recover(s, v).posts = s.posts
  BY DEF Recover, SessionsAt
<1>2. /\ StopRecovery(s, v).binding = s.binding /\ StopRecovery(s, v).asked = s.asked
      /\ StopRecovery(s, v).posts = s.posts
  BY DEF StopRecovery, SessionsAt
<1>3. Outdated(s).binding = s.binding /\ Outdated(s).asked = s.asked /\ Outdated(s).posts = s.posts
  BY DEF Outdated, SessionsAt
<1>. QED BY <1>1, <1>2, <1>3, KeepsAll

LEMMA BindKeeps ==
  ASSUME NEW n \in Nat, NEW s \in SessionsAt(n), NEW v \in Views
  PROVE  Keeps(s, Bind(s, v))
<1>. DEFINE e == s.asked[v] + 1  b == [Unbound EXCEPT !.live = TRUE, !.epoch = e]
            p == [kind |-> "register", view |-> v, epoch |-> e]  t == Bind(s, v)
<1>1. s.asked \in [Views -> Nat] /\ e \in Nat /\ e > s.asked[v] BY DEF SessionsAt
<1>2. b.live /\ b.epoch = e /\ ~b.whole BY DEF Unbound
<1>3. p.view = v /\ p.epoch = e OBVIOUS
<1>4. CASE s.binding[v].live
  <2>1. t = s BY <1>4 DEF Bind
  <2>. QED BY <2>1, KeepsAll
<1>5. CASE ~s.binding[v].live
  <2>. HIDE DEF b, p, e
  <2>1. t = [s EXCEPT !.asked = [s.asked EXCEPT ![v] = e], !.binding = [s.binding EXCEPT ![v] = b],
                      !.posts = s.posts \cup {p}]
    BY <1>5 DEF Bind, SessionsAt, b, p, e
  <2>2. t.asked = [s.asked EXCEPT ![v] = e] /\ t.binding = [s.binding EXCEPT ![v] = b]
        /\ t.posts = s.posts \cup {p}
    BY <2>1 DEF SessionsAt
  <2>. HIDE DEF t
  <2>3. /\ t.asked[v] = e /\ t.binding[v] = b
        /\ \A u \in Views : u # v => t.asked[u] = s.asked[u] /\ t.binding[u] = s.binding[u]
    BY <1>1, <2>2 DEF SessionsAt, BindingsAt
  <2>4. Rebinds(s, t) BY <1>1, <1>2, <2>3 DEF Rebinds, Alike
  <2>5. AskedOf(s) => \A q \in t.posts : q.epoch <= t.asked[q.view]
    <3>. SUFFICES ASSUME AskedOf(s), NEW q \in t.posts PROVE q.epoch <= t.asked[q.view] OBVIOUS
    <3>1. CASE q = p BY <1>1, <1>3, <2>3, <3>1
    <3>2. CASE q \in s.posts
      <4>1. q.view \in Views /\ q.epoch \in Nat /\ q.epoch <= s.asked[q.view] BY <3>2, PostTypes DEF AskedOf
      <4>2. s.asked[q.view] \in Nat BY <1>1, <4>1
      <4>. QED BY <1>1, <2>3, <4>1, <4>2
    <3>. QED BY <2>2, <3>1, <3>2
  <2>6. AskedOf(s) => \A u \in Views : t.binding[u].live => t.binding[u].epoch = t.asked[u]
    BY <1>2, <2>3 DEF AskedOf
  <2>. QED BY <2>4, <2>5, <2>6 DEF Keeps, AskedOf, t
<1>. QED BY <1>4, <1>5

LEMMA UnwatchKeeps ==
  ASSUME NEW n \in Nat, NEW s \in SessionsAt(n) PROVE Keeps(s, Unwatch(s))
<1>. DEFINE b == s.binding["room"]  p == [kind |-> "remove", view |-> "room", epoch |-> b.epoch]
            t == Unwatch(s)
<1>1. /\ t.binding = [s.binding EXCEPT !["room"] = Unbound] /\ t.asked = s.asked
      /\ t.posts = IF b.live THEN s.posts \cup {p} ELSE s.posts
  BY DEF Unwatch, SessionsAt
<1>2. "room" \in Views /\ ~Unbound.live BY DEF Views, Unbound
<1>3. ~t.binding["room"].live /\ \A u \in Views : u # "room" => t.binding[u] = s.binding[u]
  BY <1>1, <1>2 DEF SessionsAt, BindingsAt
<1>4. \A u \in Views : s.asked[u] \in Nat BY DEF SessionsAt
<1>. HIDE DEF t
<1>5. Rebinds(s, t) BY <1>1, <1>3, <1>4 DEF Rebinds, Alike
<1>6. AskedOf(s) => AskedOf(t) BY <1>1, <1>2, <1>3, <1>4 DEF AskedOf
<1>. QED BY <1>5, <1>6 DEF Keeps, t

LEMMA DeliverKeeps ==
  ASSUME NEW n \in Nat, NEW s \in SessionsAt(n), NEW v \in Views, NEW content \in SUBSET (1..n)
  PROVE  Keeps(s, Deliver(s, v, content))
<1>1. \A pg \in PagesAt(n) : /\ [s EXCEPT !.page = pg] \in SessionsAt(n)
                             /\ Keeps(s, [s EXCEPT !.page = pg])
  <2>. TAKE pg \in PagesAt(n)
  <2>1. LET t == [s EXCEPT !.page = pg] IN
        t \in SessionsAt(n) /\ t.binding = s.binding /\ t.asked = s.asked /\ t.posts = s.posts
    BY DEF SessionsAt
  <2>. QED BY <2>1, KeepsAll
<1>2. s.page \in PagesAt(n) BY DEF SessionsAt
<1>3. Keeps(s, DeliverRooms(s, content))
  <2>. DEFINE rows == [s.page EXCEPT !.rows = content]
              gone == [s.page EXCEPT !.rows = content, !.room = {}, !.cached = FALSE]
  <2>1. rows \in PagesAt(n) /\ gone \in PagesAt(n) BY <1>2 DEF PagesAt
  <2>2. DeliverRooms(s, content) = IF Gone(content) THEN Unwatch([s EXCEPT !.page = gone])
                                   ELSE [s EXCEPT !.page = rows]
    BY DEF DeliverRooms, SessionsAt, PagesAt
  <2>. HIDE DEF rows, gone
  <2>. DEFINE t == [s EXCEPT !.page = gone]
  <2>3. t \in SessionsAt(n) /\ Keeps(s, t) BY <1>1, <2>1
  <2>. HIDE DEF t
  <2>4. Keeps(s, Unwatch(t)) BY <2>3, UnwatchTypes, UnwatchKeeps, KeepsOn
  <2>. QED BY <1>1, <2>1, <2>2, <2>4 DEF t
<1>4. Keeps(s, DeliverRoom(s, content))
  <2>. DEFINE gone == [s.page EXCEPT !.deleted = TRUE, !.room = {}, !.cached = FALSE]
              t == [s EXCEPT !.page = gone]
  <2>1. gone \in PagesAt(n) BY <1>2 DEF PagesAt
  <2>2. t \in SessionsAt(n) /\ Keeps(s, t) BY <1>1, <2>1
  <2>3. CASE Gone(content)
    <3>1. DeliverRoom(s, content) = Unwatch(t) BY <2>3 DEF DeliverRoom, SessionsAt, PagesAt
    <3>. HIDE DEF t
    <3>2. Keeps(s, Unwatch(t)) BY <2>2, UnwatchTypes, UnwatchKeeps, KeepsOn
    <3>. QED BY <3>1, <3>2
  <2>4. CASE ~Gone(content)
    <3>1. LET d == DeliverRoom(s, content) IN
          d.binding = s.binding /\ d.asked = s.asked /\ d.posts = s.posts
      BY <2>4 DEF DeliverRoom, Outdated, SessionsAt
    <3>. QED BY <3>1, KeepsAll
  <2>. QED BY <2>3, <2>4
<1>. QED BY <1>3, <1>4 DEF Deliver

LEMMA CertifyKeeps ==
  ASSUME NEW n \in Nat, NEW s \in SessionsAt(n), NEW v \in Views, NEW source \in -1..n
  PROVE  Keeps(s, Certify(s, v, source))
<1>1. CASE source = NoSource BY <1>1, KeepsAll DEF Certify
<1>2. CASE source # NoSource
  <2>1. LET t == Certify(s, v, source) IN
        /\ t.binding = [s.binding EXCEPT ![v] = [s.binding[v] EXCEPT !.source = source]]
        /\ t.asked = s.asked /\ t.posts = s.posts
    BY <1>2 DEF Certify, SessionsAt
  <2>2. LET t == Certify(s, v, source) IN
        \A u \in Views : Alike(s.binding[u], t.binding[u])
    BY <2>1 DEF SessionsAt, BindingsAt, BindingAt, Alike
  <2>. QED BY <2>1, <2>2 DEF Keeps, AskedOf, Rebinds, Alike
<1>. QED BY <1>1, <1>2

(* A frame is taken up in the binding of its view; the rest is a change of the session. *)
Takes(b, f, c) ==
  /\ c.live = b.live /\ c.epoch = b.epoch
  /\ c.whole = IF f.kind \in {"snapshot", "page"} THEN TRUE
               ELSE IF f.kind \in {"part", "update"} THEN FALSE ELSE b.whole
  /\ c.pending = CASE f.kind \in {"snapshot", "part"} -> f.content
                   [] f.kind = "page"                 -> b.pending \cup f.content
                   [] f.kind = "update"               -> Continued(b, f)
                   [] OTHER                           -> b.pending

LEMMA ApplyTakes ==
  ASSUME Types, wire # <<>>
  PROVE  LET f == Head(wire) IN
         /\ Apply(f) \in SessionsAt(position)
         /\ \E c \in BindingAt(position) :
              Takes(binding[f.view], f, c) /\ Keeps([Here EXCEPT !.binding[f.view] = c], Apply(f))
<1>. DEFINE f == Head(wire)  v == f.view  b == binding[v]
            content == IF f.kind = "snapshot" THEN f.content ELSE b.pending \cup f.content
            With(c) == [Here EXCEPT !.binding[v] = c]
            Done == /\ Apply(f) \in SessionsAt(position)
                    /\ \E c \in BindingAt(position) : Takes(b, f, c) /\ Keeps(With(c), Apply(f))
<1>1. f \in FramesAt(position) BY Shapes, HeadTailProperties
<1>2. v \in Views /\ f.content \in SUBSET (1..position) /\ f.source \in -1..position /\ f.kind \in FrameKinds
  BY <1>1 DEF FramesAt
<1>3. b \in BindingAt(position) /\ b.pending \in SUBSET (1..position)
  BY <1>2, HereIs DEF SessionsAt, Here, BindingsAt, BindingAt
<1>4. content \in SUBSET (1..position) /\ Continued(b, f) \in SUBSET (1..position)
  BY <1>2, <1>3, OnlyType DEF Continued
<1>5. position \in Nat /\ Here \in SessionsAt(position) /\ Here.binding = binding BY Shapes, HereIs DEF Here
<1>6. \A c \in BindingAt(position) : With(c) \in SessionsAt(position) BY <1>2, <1>5, HeldTypes
<1>. HIDE DEF f, v, b, content
<1>7. CASE f.kind \in {"snapshot", "page"}
  <2>. DEFINE t == [b EXCEPT !.has = TRUE, !.whole = TRUE, !.pending = content]
              held == Released(With(t), v, content)  told == Certify(held, v, f.source)
  <2>1. t \in BindingAt(position) BY <1>3, <1>4 DEF BindingAt
  <2>2. Takes(b, f, t) BY <1>3, <1>7 DEF Takes, BindingAt, content
  <2>3. With(t) = [Here EXCEPT !.binding[v].has = TRUE, !.binding[v].whole = TRUE, !.binding[v].pending = content]
    BY <1>2, <1>3, <1>5 DEF SessionsAt, BindingsAt, BindingAt, b
  <2>4. Apply(f) = IF b.ready THEN Deliver(told, v, content) ELSE held
    BY <1>7, <2>3 DEF Apply, v, b, content
  <2>5. With(t) \in SessionsAt(position) BY <1>6, <2>1
  <2>. HIDE DEF With, t
  <2>6. held \in SessionsAt(position) /\ Keeps(With(t), held)
    BY <1>5, <2>5, UnwatchTypes, UnwatchKeeps, KeepsAll DEF Released
  <2>. HIDE DEF held
  <2>7. told \in SessionsAt(position) /\ Keeps(With(t), told)
    BY <1>2, <1>5, <2>5, <2>6, CertifyTypes, CertifyKeeps, KeepsOn
  <2>. HIDE DEF told
  <2>8. Deliver(told, v, content) \in SessionsAt(position) /\ Keeps(With(t), Deliver(told, v, content))
    BY <1>2, <1>4, <1>5, <2>5, <2>7, DeliverTypes, DeliverKeeps, KeepsOn
  <2>9. Done BY <2>1, <2>2, <2>4, <2>6, <2>8
  <2>. QED BY <2>9 DEF f, v, b, With
<1>8. CASE f.kind \in {"part", "update"}
  <2>. DEFINE t == IF f.kind = "part" THEN [b EXCEPT !.has = TRUE, !.whole = FALSE, !.pending = f.content]
                   ELSE [b EXCEPT !.whole = FALSE, !.pending = Continued(b, f)]
  <2>1. t \in BindingAt(position) BY <1>2, <1>3, <1>4 DEF BindingAt
  <2>2. Takes(b, f, t) BY <1>3, <1>8 DEF Takes, BindingAt
  <2>3. Apply(f) = With(t)
    <3>1. [Here EXCEPT !.binding[v].has = TRUE, !.binding[v].whole = FALSE,
                       !.binding[v].pending = f.content]
          = With([b EXCEPT !.has = TRUE, !.whole = FALSE, !.pending = f.content])
      BY <1>2, <1>3, <1>5 DEF SessionsAt, BindingsAt, BindingAt, b
    <3>2. [Here EXCEPT !.binding[v].whole = FALSE, !.binding[v].pending = Continued(b, f)]
          = With([b EXCEPT !.whole = FALSE, !.pending = Continued(b, f)])
      <4>. DEFINE c == Continued(b, f)
      <4>. HIDE DEF c
      <4>. QED BY <1>2, <1>3, <1>5 DEF SessionsAt, BindingsAt, BindingAt, b
    <3>3. Apply(f) = IF f.kind = "part"
                     THEN [Here EXCEPT !.binding[v].has = TRUE, !.binding[v].whole = FALSE,
                                       !.binding[v].pending = f.content]
                     ELSE [Here EXCEPT !.binding[v].whole = FALSE,
                                       !.binding[v].pending = Continued(b, f)]
      BY <1>8 DEF Apply, b, v
    <3>. QED BY <3>1, <3>2, <3>3
  <2>4. With(t) \in SessionsAt(position) BY <1>6, <2>1
  <2>. HIDE DEF With, t
  <2>5. Done BY <2>1, <2>2, <2>3, <2>4, KeepsAll
  <2>. QED BY <2>5 DEF f, v, b, With
<1>9. CASE f.kind = "ready"
  <2>. DEFINE t == [b EXCEPT !.ready = TRUE]
              told == Certify(With(t), v, f.source)  still == StopRecovery(told, v)
  <2>1. t \in BindingAt(position) BY <1>3 DEF BindingAt
  <2>2. Takes(b, f, t) BY <1>3, <1>9 DEF Takes, BindingAt
  <2>3. Apply(f) = Deliver(still, v, b.pending)
    BY <1>2, <1>3, <1>5, <1>9 DEF Apply, SessionsAt, BindingsAt, BindingAt, b, v
  <2>4. With(t) \in SessionsAt(position) BY <1>6, <2>1
  <2>. HIDE DEF With, t
  <2>5. told \in SessionsAt(position) /\ Keeps(With(t), told)
    BY <1>2, <1>5, <2>4, CertifyTypes, CertifyKeeps
  <2>. HIDE DEF told
  <2>6. still \in SessionsAt(position) /\ Keeps(With(t), still)
    BY <1>2, <1>5, <2>4, <2>5, RecoverTypes, RecoverKeeps, KeepsOn
  <2>. HIDE DEF still
  <2>7. Deliver(still, v, b.pending) \in SessionsAt(position) /\ Keeps(With(t), Deliver(still, v, b.pending))
    BY <1>2, <1>3, <1>5, <2>4, <2>6, DeliverTypes, DeliverKeeps, KeepsOn
  <2>8. Done BY <2>1, <2>2, <2>3, <2>7
  <2>. QED BY <2>8 DEF f, v, b, With
<1>10. CASE f.kind \in {"coverage", "resync"}
  <2>. DEFINE t == IF f.kind = "coverage" THEN b ELSE [b EXCEPT !.failed = TRUE]
  <2>1. t \in BindingAt(position) BY <1>3 DEF BindingAt
  <2>2. Takes(b, f, t) BY <1>3, <1>10 DEF Takes, BindingAt
  <2>3. Apply(f) = IF f.kind = "coverage" THEN Certify(With(t), v, f.source) ELSE Recover(With(t), v)
    BY <1>2, <1>3, <1>5, <1>10 DEF Apply, SessionsAt, BindingsAt, BindingAt, b, v
  <2>4. With(t) \in SessionsAt(position) BY <1>6, <2>1
  <2>. HIDE DEF With, t
  <2>5. Done
    BY <1>2, <1>5, <2>1, <2>2, <2>3, <2>4, CertifyTypes, CertifyKeeps, RecoverTypes, RecoverKeeps
  <2>. QED BY <2>5 DEF f, v, b, With
<1>. QED BY <1>2, <1>7, <1>8, <1>9, <1>10 DEF FrameKinds, f, v, b

LEMMA ApplyTypes == ASSUME Types, wire # <<>> PROVE Apply(Head(wire)) \in SessionsAt(position)
BY ApplyTakes

(* Nothing asked for and nothing held; s keeps its page and what it asked for. *)
LEMMA SilentTypes ==
  ASSUME NEW n \in Nat, NEW s \in SessionsAt(n)
  PROVE  /\ Silent(s) \in SessionsAt(n)
         /\ [s EXCEPT !.poll = [v \in Views |-> NoPoll]] \in SessionsAt(n)
         /\ [s EXCEPT !.poll = [v \in Views |-> NoPoll], !.binding = [v \in Views |-> Unbound],
                      !.asked = [v \in Views |-> 0], !.posts = {}] \in SessionsAt(n)
<1>1. [v \in Views |-> Unbound] \in BindingsAt(n) BY DEF BindingsAt, BindingAt, Unbound, NoSource
<1>2. [v \in Views |-> NoPoll] \in PollsAt(n) BY DEF PollsAt, PollAt, NoPoll
<1>3. [v \in Views |-> 0] \in [Views -> Nat] /\ {} \in SUBSET Posts OBVIOUS
<1>. QED BY <1>1, <1>2, <1>3 DEF Silent, SessionsAt

LEMMA LoseTypes ==
  ASSUME Types, Lose, UNCHANGED store, turns' \in Nat PROVE Types'
<1>. DEFINE s == Recover(Silent(Here), "rooms")
<1>1. s \in SessionsAt(position) /\ Recover(s, "room") \in SessionsAt(position)
  <2>1. Silent(Here) \in SessionsAt(position) BY Shapes, HereIs, SilentTypes
  <2>2. s \in SessionsAt(position) BY <2>1, RecoverTypes DEF Views
  <2>. HIDE DEF s
  <2>. QED BY <2>2, RecoverTypes DEF Views
<1>2. Becomes(IF wanted THEN Recover(s, "room") ELSE s) /\ mode' = "down" /\ Closed(FALSE) BY DEF Lose
<1>. HIDE DEF s
<1>. QED BY <1>1, <1>2, ClosedTypes, StoreStays, BecomesTypes DEF Types

LEMMA ConnectTypes == ASSUME Types, Connect PROVE Types'
<1>. DEFINE fresh == [Here EXCEPT !.poll = [v \in Views |-> NoPoll], !.binding = [v \in Views |-> Unbound],
                                  !.asked = [v \in Views |-> 0], !.posts = {}]
            rooms == Bind(fresh, "rooms")
<1>1. fresh \in SessionsAt(position) BY Shapes, HereIs, SilentTypes
<1>2. rooms \in SessionsAt(position) /\ Bind(rooms, "room") \in SessionsAt(position)
  <2>. HIDE DEF fresh
  <2>1. rooms \in SessionsAt(position) BY <1>1, Shapes, BindTypes DEF Views
  <2>. HIDE DEF rooms
  <2>. QED BY <2>1, Shapes, BindTypes DEF Views
<1>3. Becomes(IF wanted THEN Bind(rooms, "room") ELSE rooms) /\ mode' = "up" /\ Closed(TRUE)
      /\ UNCHANGED <<store, turns>>
  BY DEF Connect
<1>. HIDE DEF fresh, rooms
<1>. QED BY <1>2, <1>3, ClosedTypes, StoreStays, BecomesTypes DEF Types, SessionTypes

LEMMA ReceiveTypes == ASSUME Types, Receive PROVE Types'
<1>1. UNCHANGED store /\ wire # <<>> /\ mode = "up" BY DEF Receive
<1>2. CASE wire' = Tail(wire) /\ UNCHANGED <<open, view, fence, tail, task, session>>
  <2>1. SessionTypes' BY <1>1, <1>2, StoreStays DEF Types, SessionTypes, session, Here
  <2>. QED BY <1>1, <1>2, <2>1, ReadOnTypes, StoreStays DEF Types
<1>3. CASE Lose /\ UNCHANGED turns BY <1>1, <1>3, LoseTypes DEF Types, SessionTypes
<1>4. CASE /\ Becomes(Apply(Head(wire))) /\ wire' = Tail(wire)
           /\ UNCHANGED <<open, view, fence, tail, task, mode, turns>>
  <2>1. Apply(Head(wire)) \in SessionsAt(position) BY <1>1, ApplyTypes
  <2>2. SessionTypes' BY <1>1, <1>4, <2>1, StoreStays, BecomesTypes DEF Types, SessionTypes
  <2>. QED BY <1>1, <1>4, <2>2, ReadOnTypes, StoreStays DEF Types
<1>. QED BY <1>2, <1>3, <1>4 DEF Receive

(* The session changes, the daemon's end does not. *)
LEMMA PageTypes ==
  ASSUME Types, UNCHANGED <<store, stream>>, NEW s \in SessionsAt(position), Becomes(s),
         mode' \in {"up", "down", "hidden"}, turns' \in Nat
  PROVE  Types'
BY StillTypes, BecomesTypes DEF Types

LEMMA RetryTypes == ASSUME Types, NEW v \in Views, Retry(v) PROVE Types'
<1>. DEFINE u == [Here EXCEPT !.binding[v] = Unbound]
<1>1. Unbound \in BindingAt(position) BY Shapes DEF Unbound, NoSource, BindingAt
<1>2. u \in SessionsAt(position) BY <1>1, HereIs, HeldTypes
<1>. HIDE DEF u
<1>3. Bind(u, v) \in SessionsAt(position) BY <1>2, Shapes, BindTypes
<1>. QED BY <1>3, PageTypes DEF Retry, u, Types, SessionTypes

LEMMA ServeTypes == ASSUME Types, NEW p \in posts, Serve(p) PROVE Types'
<1>1. p \in Posts BY HereIs DEF SessionsAt, Here
<1>2. p.view \in Views /\ p.epoch \in Nat BY <1>1 DEF Posts
<1>3. StreamTypes' /\ UNCHANGED store BY <1>2, BindingTypes DEF Serve
<1>4. Here' = [Here EXCEPT !.posts = posts \ {p}] BY DEF Serve, Here
<1>5. Here' \in SessionsAt(position) BY <1>4, HereIs DEF SessionsAt, Here
<1>. QED BY <1>3, <1>5, StoreStays DEF Serve, Types, SessionTypes

LEMMA PollTypes == ASSUME Types, Poll PROVE Types'
<1>1. UNCHANGED <<store, stream>> /\ UNCHANGED <<mode, turns>>
  BY DEF Poll, PollTail, PollHead, PollAnswers
<1>2. ASSUME PollTail \/ \E v \in Views : PollHead(v) PROVE Types'
  <2>1. poll \in PollsAt(position) BY HereIs DEF SessionsAt, Here
  <2>2. \A v : Content(v, position) \in SUBSET (1..position) BY DEF Content
  <2>3. \A ks : Only(1..position, ks) \in SUBSET (1..position) BY OnlyType
  <2>4. poll' \in PollsAt(position)
    <3>1. CASE PollTail
      <4>1. History(1..position) \in SUBSET (1..position) BY OnlyType
      <4>. QED BY <2>1, <3>1, <4>1 DEF PollTail, PollsAt, PollAt, Views
    <3>2. ASSUME NEW v \in Views, PollHead(v) PROVE poll' \in PollsAt(position)
      <4>. DEFINE g == IF v = "room" THEN Only(1..position, {"metadata"}) ELSE Content("rooms", position)
                  c == IF v = "room" THEN "tail" ELSE "answer"
      <4>1. g \in SUBSET (1..position) /\ c \in {"idle", "tail", "answer"} BY <2>2, <2>3
      <4>2. poll' = [poll EXCEPT ![v].pc = c, ![v].got = g, ![v].stale = FALSE] BY <3>2 DEF PollHead
      <4>. HIDE DEF g, c
      <4>3. [poll[v] EXCEPT !.pc = c, !.got = g, !.stale = FALSE] \in PollAt(position)
        BY <2>1, <4>1 DEF PollsAt, PollAt
      <4>4. poll' = [poll EXCEPT ![v] = [poll[v] EXCEPT !.pc = c, !.got = g, !.stale = FALSE]]
        BY <2>1, <4>2 DEF PollsAt, PollAt
      <4>. QED BY <2>1, <4>3, <4>4 DEF PollsAt
    <3>. QED BY <1>2, <3>1, <3>2
  <2>5. Becomes([Here EXCEPT !.poll = poll'])
    BY <1>2 DEF PollTail, PollHead, Becomes, Here
  <2>6. [Here EXCEPT !.poll = poll'] \in SessionsAt(position) BY <2>4, HereIs DEF SessionsAt
  <2>. QED BY <1>1, <2>5, <2>6, PageTypes DEF Types, SessionTypes
<1>3. ASSUME NEW v \in Views, PollAnswers(v) PROVE Types'
  <2>. DEFINE done == [Here EXCEPT !.poll[v].pc = "idle", !.poll[v].got = {}]
  <2>1. poll \in PollsAt(position) /\ poll[v].got \in SUBSET (1..position)
    BY HereIs DEF SessionsAt, Here, PollsAt, PollAt
  <2>2. [poll EXCEPT ![v].pc = "idle", ![v].got = {}] \in PollsAt(position) BY <2>1 DEF PollsAt, PollAt
  <2>3. done = [Here EXCEPT !.poll = [poll EXCEPT ![v].pc = "idle", ![v].got = {}]]
    BY <2>1 DEF Here, PollsAt, PollAt
  <2>4. done \in SessionsAt(position)
    <3>. HIDE DEF done
    <3>. QED BY <2>2, <2>3, HereIs DEF SessionsAt
  <2>5. Becomes(IF v = "room" /\ (poll[v].stale \/ ~Listed(page)) THEN done ELSE Deliver(done, v, poll[v].got))
    BY <1>3 DEF PollAnswers
  <2>. HIDE DEF done
  <2>6. Deliver(done, v, poll[v].got) \in SessionsAt(position) BY <2>1, <2>4, Shapes, DeliverTypes
  <2>. QED BY <1>1, <2>4, <2>5, <2>6, PageTypes DEF Types, SessionTypes
<1>. QED BY <1>2, <1>3 DEF Poll

LEMMA OperatorTypes == ASSUME Types, WatchRoom \/ LeaveRoom \/ Hide \/ Show PROVE Types'
<1>1. CASE WatchRoom
  <2>. DEFINE s == [Here EXCEPT !.wanted = TRUE]
              read == IF \E v \in Views : poll[v].on THEN Recover(s, "room") ELSE s
  <2>1. s \in SessionsAt(position) BY HereIs DEF SessionsAt
  <2>2. read \in SessionsAt(position)
    <3>. HIDE DEF s
    <3>. QED BY <2>1, RecoverTypes DEF Views
  <2>3. Becomes(IF mode = "up" THEN Bind(read, "room") ELSE read) BY <1>1 DEF WatchRoom
  <2>. HIDE DEF read
  <2>4. Bind(read, "room") \in SessionsAt(position) BY <2>2, Shapes, BindTypes DEF Views
  <2>. QED BY <1>1, <2>2, <2>3, <2>4, PageTypes DEF WatchRoom, Types, SessionTypes
<1>2. CASE LeaveRoom
  <2>1. Unwatch(Here) \in SessionsAt(position) BY Shapes, HereIs, UnwatchTypes
  <2>. QED BY <1>2, <2>1, PageTypes DEF LeaveRoom, Turn, Types, SessionTypes
<1>3. CASE Hide
  <2>1. Silent(Here) \in SessionsAt(position) BY Shapes, HereIs, SilentTypes
  <2>2. [Silent(Here) EXCEPT !.poll = [v \in Views |-> NoPoll]] \in SessionsAt(position)
    BY <2>1, Shapes, SilentTypes
  <2>3. SessionTypes' BY <1>3, <2>2, StoreStays, BecomesTypes DEF Hide, Turn, Types, SessionTypes
  <2>. QED BY <1>3, <2>3, ClosedTypes, StoreStays DEF Hide, Types
<1>4. CASE Show
  <2>1. Becomes(Here) BY <1>4 DEF Show, Becomes, Here
  <2>. QED BY <1>4, <2>1, HereIs, PageTypes DEF Show, Types, SessionTypes
<1>. QED BY <1>1, <1>2, <1>3, <1>4

LEMMA TypesStep == Types /\ [Next]_vars => Types'
<1>. SUFFICES ASSUME Types, [Next]_vars PROVE Types' OBVIOUS
<1>1. ASSUME StreamTypes', UNCHANGED <<store, session>> PROVE Types'
  BY <1>1, StoreStays DEF Types, SessionTypes, session, Here
<1>2. ASSUME NEW k \in Kinds, NEW w \in {"ok", "pending", "failed"}, Publish(k, w), UNCHANGED session
      PROVE  Types'
  <2>4. position \in Nat /\ position + 1 \in Nat /\ position <= position + 1 BY Shapes
  <2>1. SessionsAt(position) \subseteq SessionsAt(position + 1) BY <2>4, ShapesGrow
  <2>2. Here' = Here /\ UNCHANGED <<mode, turns>> BY <1>2 DEF session, Here
  <2>3. SessionTypes' BY <1>2, <2>1, <2>2, PublishTypes, HereIs DEF Types, SessionTypes
  <2>. QED BY <1>2, <2>3, PublishTypes DEF Types
<1>3. CASE (\E k \in Kinds \ {"health"} : Commit(k)) /\ UNCHANGED session
  BY <1>2, <1>3 DEF Commit, Types, StoreTypes
<1>4. CASE (\E w \in {"ok", "pending", "failed"} : SetResourceHealth(w)) /\ UNCHANGED session
  BY <1>2, <1>4 DEF SetResourceHealth, Kinds
<1>5. CASE (Refresh \/ Coverage) /\ UNCHANGED session
  <2>1. StreamTypes'
    BY <1>5, BeginTypes, ReadTypes, JudgeTypes, WriteTypes, FlushedTypes, CoverageTypes DEF Refresh
  <2>2. UNCHANGED store
    BY <1>5 DEF Refresh, Begin, ReadRoom, ReadListedRoom, ReadOtherRooms, ListingFails, Judge, Write, Flushed,
       ReadyFlushed, Coverage
  <2>. QED BY <1>1, <1>5, <2>1, <2>2
<1>6. CASE Connect \/ Drop \/ Ended \/ Receive
  <2>1. CASE Drop \/ Ended BY <2>1, LoseTypes DEF Drop, Ended, Turn, Types, SessionTypes
  <2>. QED BY <1>6, <2>1, ConnectTypes, ReceiveTypes
<1>7. CASE \E v \in Views : Retry(v) BY <1>7, RetryTypes
<1>8. CASE \E p \in posts : Serve(p) BY <1>8, ServeTypes
<1>9. CASE Poll BY <1>9, PollTypes
<1>10. CASE WatchRoom \/ LeaveRoom \/ Hide \/ Show BY <1>10, OperatorTypes
<1>11. CASE UNCHANGED vars
  <2>1. UNCHANGED <<store, stream, session>> BY <1>11 DEF vars
  <2>. QED BY <1>1, <2>1, StillTypes
<1>. QED BY <1>3, <1>4, <1>5, <1>6, <1>7, <1>8, <1>9, <1>10, <1>11 DEF Next

(* Both ends keep the shapes that the code gives them (resource-views.ts and poller.ts), and *)
(* what a view, a refresh, a frame, a reader or the page holds was published before.         *)
THEOREM TypeCorrect == Spec => []TypeOK
<1>1. Init => Types BY TypesInit
<1>2. Types /\ [Next]_vars => Types' BY TypesStep
<1>3. Types => TypeOK BY TypesImplyTypeOK
<1>. QED BY <1>1, <1>2, <1>3, PTL DEF Spec

-----------------------------------------------------------------------------
(* Refreshes are known by their view and epoch.  Each that is queued for a view that is still *)
(* bound is queued once, its view is marked, and it is not the one that runs.                 *)
IsCurrent(j, o, vs) == o /\ vs[j.view].live /\ vs[j.view].epoch = j.epoch
Same(i, j) == i.view = j.view /\ i.epoch = j.epoch
Awaited(r) == r.running /\ r.dirty /\ ~r.failed
Alone(q, j) == \A i \in 1..Len(q) : ~Same(q[i], j)
Queue(o, vs, fn, q) ==
  /\ \A i \in 1..Len(q) : q[i].epoch <= fn[q[i].view]
  /\ \A i \in 1..Len(q) : IsCurrent(q[i], o, vs) => Awaited(vs[q[i].view])
  /\ \A i, j \in 1..Len(q) : IsCurrent(q[i], o, vs) /\ Same(q[i], q[j]) => i = j
Holds(o, vs, fn, q, j) ==
  /\ j.epoch <= fn[j.view]
  /\ IsCurrent(j, o, vs) => vs[j.view].running /\ Alone(q, j)
Bound(vs, fn) == \A v \in Views : vs[v].epoch <= fn[v]
Tokens(o, vs, fn, q, t) ==
  /\ Bound(vs, fn) /\ Queue(o, vs, fn, q)
  /\ t.pc # "idle" => Holds(o, vs, fn, q, t) /\ (IsCurrent(t, o, vs) => ~vs[t.view].failed)

LEMMA QueueAppended ==
  ASSUME NEW o, NEW vs, NEW fn, NEW q \in Seq(Jobs), NEW j \in Jobs, Queue(o, vs, fn, q),
         Holds(o, vs, fn, q, j), IsCurrent(j, o, vs) => Awaited(vs[j.view])
  PROVE  Queue(o, vs, fn, Append(q, j))
<1>1. /\ Append(q, j) \in Seq(Jobs) /\ Len(Append(q, j)) = Len(q) + 1 /\ Len(q) \in Nat
      /\ \A i \in 1..Len(q) : Append(q, j)[i] = q[i]
      /\ Append(q, j)[Len(q) + 1] = j
  BY AppendProperties, LenProperties
<1>2. \A i \in 1..Len(q) + 1 : i \in 1..Len(q) \/ i = Len(q) + 1 BY <1>1
<1>. QED BY <1>1, <1>2 DEF Queue, Holds, Alone, Same, IsCurrent

LEMMA QueueShortened ==
  ASSUME NEW o, NEW vs, NEW fn, NEW q \in Seq(Jobs), q # <<>>, Queue(o, vs, fn, q)
  PROVE  /\ Queue(o, vs, fn, Tail(q)) /\ Holds(o, vs, fn, Tail(q), Head(q))
         /\ IsCurrent(Head(q), o, vs) => Awaited(vs[Head(q).view])
<1>1. /\ Len(q) \in Nat /\ Len(q) >= 1 /\ Len(Tail(q)) = Len(q) - 1
      /\ \A i \in 1..Len(Tail(q)) : Tail(q)[i] = q[i + 1]
      /\ Head(q) = q[1]
  BY HeadTailProperties, EmptySeq, LenProperties
<1>2. 1 \in 1..Len(q) /\ \A i \in 1..Len(Tail(q)) : i + 1 \in 1..Len(q) /\ i + 1 # 1 BY <1>1
<1>3. Queue(o, vs, fn, Tail(q)) BY <1>1, <1>2 DEF Queue
<1>4. Holds(o, vs, fn, Tail(q), Head(q)) /\ (IsCurrent(Head(q), o, vs) => Awaited(vs[Head(q).view]))
  BY <1>1, <1>2 DEF Queue, Holds, Alone, Same, Awaited
<1>. QED BY <1>3, <1>4

LEMMA QueueRebound ==
  ASSUME NEW o, NEW vs, NEW fn, NEW q, Queue(o, vs, fn, q), NEW o2, NEW vs2, NEW fn2,
         \A i \in 1..Len(q) : q[i].epoch <= fn2[q[i].view],
         \A i \in 1..Len(q) : IsCurrent(q[i], o2, vs2) =>
            IsCurrent(q[i], o, vs) /\ (Awaited(vs[q[i].view]) => Awaited(vs2[q[i].view]))
  PROVE  Queue(o2, vs2, fn2, q)
BY DEF Queue

(* A refresh that ends leaves its view to whoever comes next. *)
LEMMA LeaveTokens ==
  ASSUME Types, NEW job, job.view \in Views, job.epoch \in Nat, NEW vs \in ViewsAt(position),
         NEW rest \in Seq(Jobs), Leave(job, vs, rest), open' => open, fence' = fence,
         \A v \in Views : vs[v].epoch = view[v].epoch /\ vs[v].live = view[v].live,
         Bound(view, fence), Queue(open, vs, fence, rest), Holds(open, vs, fence, rest, job)
  PROVE  Tokens(open', view', fence', tail', task')
<1>. DEFINE j == [view |-> job.view, epoch |-> job.epoch]
<1>1. j \in Jobs /\ j.view = job.view /\ j.epoch = job.epoch BY DEF Jobs
<1>2. Current(job) <=> IsCurrent(j, open, vs) BY <1>1 DEF Current, IsCurrent
<1>3. Holds(open, vs, fence, rest, j) BY <1>1 DEF Holds, IsCurrent, Alone, Same
<1>. HIDE DEF j
<1>4. CASE Current(job) /\ Again(vs[job.view])
  <2>1. Awaited(vs[j.view]) BY <1>1, <1>2, <1>3, <1>4 DEF Holds, Again, Awaited
  <2>2. Queue(open, vs, fence, Append(rest, j)) BY <1>1, <1>3, <2>1, QueueAppended
  <2>3. view' = vs /\ tail' = Append(rest, j) /\ task' = Idle BY <1>4 DEF Leave, j
  <2>4. Queue(open', view', fence', tail')
    BY <2>2, <2>3 DEF Queue, IsCurrent
  <2>. QED BY <2>3, <2>4, Shapes DEF Tokens, Bound
<1>5. CASE Current(job) /\ ~Again(vs[job.view])
  <2>1. view' = [vs EXCEPT ![job.view].running = FALSE] /\ tail' = rest /\ task' = Idle
    BY <1>5 DEF Leave
  <2>2. \A v \in Views : /\ view'[v].epoch = vs[v].epoch /\ view'[v].live = vs[v].live
                         /\ v # job.view => view'[v] = vs[v]
    <3>. TAKE v \in Views
    <3>1. vs[v] \in ViewAt(position) /\ view' = [vs EXCEPT ![job.view] = [vs[job.view] EXCEPT !.running = FALSE]]
      BY <2>1 DEF ViewsAt
    <3>2. v # job.view => view'[v] = vs[v] BY <3>1 DEF ViewsAt
    <3>3. v = job.view => view'[v] = [vs[v] EXCEPT !.running = FALSE] BY <3>1 DEF ViewsAt
    <3>. QED BY <3>1, <3>2, <3>3 DEF ViewAt
  <2>6. \A i \in 1..Len(rest) : rest[i] \in Jobs BY ElementOfSeq
  <2>3. \A i \in 1..Len(rest) : rest[i].view \in Views BY <2>6 DEF Jobs
  <2>4. \A i \in 1..Len(rest) : IsCurrent(rest[i], open, vs) => rest[i].view # job.view
    BY <1>1, <1>2, <1>3, <1>5, <2>3 DEF Holds, Alone, Same, IsCurrent
  <2>5. Queue(open', view', fence', tail')
    BY <2>1, <2>2, <2>3, <2>4 DEF Queue, IsCurrent
  <2>. QED BY <2>1, <2>2, <2>5, Shapes DEF Tokens, Bound
<1>6. CASE ~Current(job)
  <2>1. view' = vs /\ tail' = rest /\ task' = Idle BY <1>6 DEF Leave
  <2>2. Queue(open', view', fence', tail') BY <2>1 DEF Queue, IsCurrent
  <2>. QED BY <2>1, <2>2, Shapes DEF Tokens, Bound
<1>. QED BY <1>4, <1>5, <1>6

(* What a refresh changes of its own view matters to nobody who is queued. *)
SameBindings(vs) == \A v \in Views : vs[v].epoch = view[v].epoch /\ vs[v].live = view[v].live
OnlyOf(u, vs) == SameBindings(vs) /\ \A v \in Views : v # u => vs[v] = view[v]
InOrder == Tokens(open, view, fence, tail, task)

LEMMA QueueOfOthers ==
  ASSUME NEW j, j.view \in Views, NEW q \in Seq(Jobs), Queue(open, view, fence, q),
         Holds(open, view, fence, q, j), NEW vs, vs = view \/ (Current(j) /\ OnlyOf(j.view, vs))
  PROVE  Queue(open, vs, fence, q)
<1>1. \A i \in 1..Len(q) : q[i] \in Jobs BY ElementOfSeq
<1>2. \A i \in 1..Len(q) : q[i].view \in Views BY <1>1 DEF Jobs
<1>3. CASE Current(j) /\ OnlyOf(j.view, vs)
  <2>1. \A i \in 1..Len(q) : IsCurrent(q[i], open, vs) => IsCurrent(q[i], open, view) /\ q[i].view # j.view
    BY <1>2, <1>3 DEF OnlyOf, SameBindings, IsCurrent, Current, Holds, Alone, Same
  <2>. QED BY <1>2, <1>3, <2>1 DEF Queue, OnlyOf
<1>. QED BY <1>3

LEMMA EndTokens ==
  ASSUME Types, InOrder, task.pc # "idle", NEW vs \in ViewsAt(position), End(vs), open' => open,
         fence' = fence, vs = view \/ (Current(task) /\ OnlyOf(task.view, vs)),
         vs[task.view].running = view[task.view].running
  PROVE  InOrder'
<1>1. task.view \in Views /\ task.epoch \in Nat BY Shapes DEF TasksAt
<1>2. Queue(open, vs, fence, tail) BY <1>1, Shapes, QueueOfOthers DEF InOrder, Tokens
<1>3. Holds(open, vs, fence, tail, task)
  BY <1>1 DEF InOrder, Tokens, Holds, IsCurrent, OnlyOf, SameBindings
<1>4. \A v \in Views : vs[v].epoch = view[v].epoch /\ vs[v].live = view[v].live
  BY DEF OnlyOf, SameBindings
<1>5. Bound(view, fence) BY DEF InOrder, Tokens
<1>6. Leave(task, vs, tail) BY DEF End
<1>7. tail \in Seq(Jobs) BY Shapes
<1>. QED BY <1>1, <1>2, <1>3, <1>4, <1>5, <1>6, <1>7, LeaveTokens DEF InOrder

LEMMA OneView ==
  ASSUME NEW n, NEW vs \in ViewsAt(n), NEW v \in Views, NEW r
  PROVE  /\ [vs EXCEPT ![v] = r][v] = r
         /\ \A u \in Views : u # v => [vs EXCEPT ![v] = r][u] = vs[u]
BY DEF ViewsAt

(* All that a refresh changes of its view, but for running. *)
Touched(v, vs) == OnlyOf(v, vs) /\ vs[v].running = view[v].running
LEMMA Touching ==
  ASSUME Types, NEW v \in Views
  PROVE  /\ Touched(v, [view EXCEPT ![v].dirty = FALSE])
         /\ Touched(v, [[view EXCEPT ![v].dirty = FALSE] EXCEPT ![v].covered = position])
         /\ Touched(v, [[view EXCEPT ![v].dirty = FALSE] EXCEPT ![v].failed = TRUE])
         /\ Touched(v, [view EXCEPT ![v].failed = TRUE])
         /\ Touched(v, [view EXCEPT ![v].ready = TRUE])
         /\ \A got, source : Touched(v, [view EXCEPT ![v] = Certified(view[v], got, source)])
<1>. DEFINE r == view[v]
<1>1. view \in ViewsAt(position) /\ r \in ViewAt(position) BY Shapes DEF ViewsAt
<1>2. \A x : x.epoch = r.epoch /\ x.live = r.live /\ x.running = r.running
        => Touched(v, [view EXCEPT ![v] = x])
  BY <1>1, OneView DEF Touched, OnlyOf, SameBindings
<1>3. Touched(v, [view EXCEPT ![v] = [r EXCEPT !.dirty = FALSE]]) BY <1>1, <1>2 DEF ViewAt
<1>4. Touched(v, [view EXCEPT ![v] = [r EXCEPT !.failed = TRUE]]) BY <1>1, <1>2 DEF ViewAt
<1>5. Touched(v, [view EXCEPT ![v] = [r EXCEPT !.ready = TRUE]]) BY <1>1, <1>2 DEF ViewAt
<1>6. Touched(v, [view EXCEPT ![v] = [r EXCEPT !.dirty = FALSE, !.covered = position]])
  BY <1>1, <1>2 DEF ViewAt
<1>7. Touched(v, [view EXCEPT ![v] = [r EXCEPT !.dirty = FALSE, !.failed = TRUE]])
  BY <1>1, <1>2 DEF ViewAt
<1>8. \A got, source : Touched(v, [view EXCEPT ![v] = Certified(r, got, source)])
  <2>. TAKE got, source
  <2>1. LET x == Certified(r, got, source) IN x.epoch = r.epoch /\ x.live = r.live /\ x.running = r.running
    BY <1>1 DEF ViewAt, Certified
  <2>. QED BY <1>2, <2>1
<1>9. [[view EXCEPT ![v].dirty = FALSE] EXCEPT ![v].covered = position]
        = [view EXCEPT ![v] = [r EXCEPT !.dirty = FALSE, !.covered = position]]
      /\ [[view EXCEPT ![v].dirty = FALSE] EXCEPT ![v].failed = TRUE]
        = [view EXCEPT ![v] = [r EXCEPT !.dirty = FALSE, !.failed = TRUE]]
  BY <1>1 DEF ViewsAt, ViewAt
<1>. QED BY <1>3, <1>4, <1>5, <1>6, <1>7, <1>8, <1>9

LEMMA FailTokens == ASSUME Types, InOrder, task.pc # "idle", Fail, Current(task), fence' = fence PROVE InOrder'
<1>. DEFINE vs == [view EXCEPT ![task.view].failed = TRUE]
<1>1. task.view \in Views /\ view \in ViewsAt(position) BY Shapes
<1>2. vs \in ViewsAt(position) BY <1>1, Marked
<1>3. open' => open BY DEF Fail, Send
<1>4. Touched(task.view, vs) BY <1>1, Touching
<1>5. End(vs) BY DEF Fail
<1>. HIDE DEF vs
<1>. QED BY <1>2, <1>3, <1>4, <1>5, EndTokens DEF Touched

LEMMA BeginTokens == ASSUME Types, InOrder, Begin PROVE InOrder'
<1>. DEFINE job == Head(tail)  v == job.view  clean == [view EXCEPT ![v].dirty = FALSE]
            given == [clean EXCEPT ![v].failed = TRUE]
<1>1. view \in ViewsAt(position) /\ tail \in Seq(Jobs) /\ tail # <<>> /\ fence' = fence /\ (open' => open)
  BY Shapes DEF Begin, Send
<1>2. job \in Jobs /\ Tail(tail) \in Seq(Jobs) BY <1>1, HeadTailProperties
<1>3. v \in Views /\ job.epoch \in Nat BY <1>2 DEF Jobs
<1>4. clean \in ViewsAt(position) /\ given \in ViewsAt(position) BY <1>1, <1>3, Marked
<1>5. Touched(v, clean) /\ Touched(v, given) BY <1>3, Touching
<1>6. /\ Queue(open, view, fence, Tail(tail)) /\ Holds(open, view, fence, Tail(tail), job)
      /\ Current(job) => Awaited(view[v])
  BY <1>1, QueueShortened DEF InOrder, Tokens, Current, IsCurrent
<1>7. \A vs : vs = view \/ (Current(job) /\ Touched(v, vs)) =>
         Queue(open, vs, fence, Tail(tail)) /\ Holds(open, vs, fence, Tail(tail), job)
  <2>. SUFFICES ASSUME NEW vs, vs = view \/ (Current(job) /\ Touched(v, vs))
                PROVE  Queue(open, vs, fence, Tail(tail)) /\ Holds(open, vs, fence, Tail(tail), job)
    OBVIOUS
  <2>. HIDE DEF job
  <2>1. Queue(open, vs, fence, Tail(tail)) BY <1>2, <1>3, <1>6, QueueOfOthers DEF Touched
  <2>2. Holds(open, vs, fence, Tail(tail), job)
    BY <1>3, <1>6 DEF Holds, IsCurrent, Touched, OnlyOf, SameBindings
  <2>. QED BY <2>1, <2>2
<1>. HIDE DEF clean, given
<1>8. ASSUME NEW vs \in {view, clean, given}, Skip(vs, job), vs = view \/ Current(job) PROVE InOrder'
  <2>1. vs \in ViewsAt(position) /\ Queue(open, vs, fence, Tail(tail)) /\ Holds(open, vs, fence, Tail(tail), job)
    BY <1>1, <1>4, <1>5, <1>7, <1>8
  <2>2. \A u \in Views : vs[u].epoch = view[u].epoch /\ vs[u].live = view[u].live
    BY <1>5 DEF Touched, OnlyOf, SameBindings
  <2>3. Leave(job, vs, Tail(tail)) BY <1>8 DEF Skip
  <2>4. Bound(view, fence) BY DEF InOrder, Tokens
  <2>. HIDE DEF job
  <2>. QED BY <1>1, <1>2, <1>3, <2>1, <2>2, <2>3, <2>4, LeaveTokens DEF InOrder
<1>9. ASSUME Attempt(1, job, clean), tail' = Tail(tail), open' = open, Current(job) PROVE InOrder'
  <2>1. task'.view = job.view /\ task'.epoch = job.epoch /\ view' = clean
    BY <1>9, Shapes DEF Attempt, TasksAt
  <2>2. Holds(open, clean, fence, Tail(tail), task') /\ Queue(open, clean, fence, Tail(tail))
    BY <1>5, <1>7, <1>9, <2>1 DEF Holds, Alone, Same, IsCurrent
  <2>3. ~clean[v].failed BY <1>1, <1>3, <1>6, <1>9 DEF clean, Awaited, ViewsAt, ViewAt
  <2>4. Bound(clean, fence) BY <1>5 DEF InOrder, Tokens, Bound, Touched, OnlyOf, SameBindings
  <2>. QED BY <1>1, <1>9, <2>1, <2>2, <2>3, <2>4 DEF InOrder, Tokens
<1>10. CASE ~Current(job) \/ ~view[v].dirty
  <2>1. ~Current(job) BY <1>6, <1>10 DEF Awaited
  <2>2. Skip(view, job) BY <1>10 DEF Begin
  <2>. QED BY <1>8, <2>2
<1>11. CASE Current(job) /\ view[v].dirty
  <2>1. \/ Skip(clean, job) \/ Skip(given, job)
        \/ Attempt(1, job, clean) /\ tail' = Tail(tail) /\ open' = open
    BY <1>11 DEF Begin, clean, given
  <2>. QED BY <1>8, <1>9, <1>11, <2>1
<1>. QED BY <1>10, <1>11

(* Steps that change nothing of who is waiting. *)
LEMMA SteadyTokens ==
  ASSUME Types, InOrder, UNCHANGED <<fence, tail>>, open' => open,
         view' = view \/ (Current(task) /\ Touched(task.view, view') /\ task.pc # "idle"
                          /\ view'[task.view].failed = view[task.view].failed),
         task'.pc # "idle" => task.pc # "idle" /\ task'.view = task.view /\ task'.epoch = task.epoch
  PROVE  InOrder'
<1>1. task.view \in Views BY Shapes
<1>2. Queue(open, view', fence, tail)
  <2>1. CASE view' # view
    <3>1. task.pc # "idle" /\ Current(task) /\ OnlyOf(task.view, view') BY <2>1 DEF Touched
    <3>. QED BY <1>1, <3>1, Shapes, QueueOfOthers DEF InOrder, Tokens
  <2>. QED BY <2>1 DEF InOrder, Tokens
<1>3. Queue(open', view', fence', tail') BY <1>2 DEF Queue, IsCurrent
<1>4. Bound(view', fence') BY <1>1 DEF InOrder, Tokens, Bound, Touched, OnlyOf, SameBindings
<1>5. ASSUME task'.pc # "idle"
      PROVE  Holds(open', view', fence', tail', task') /\ (IsCurrent(task', open', view') => ~view'[task'.view].failed)
  <2>1. Holds(open, view, fence, tail, task) /\ (IsCurrent(task, open, view) => ~view[task.view].failed)
    BY <1>5 DEF InOrder, Tokens
  <2>2. /\ view'[task.view].live = view[task.view].live /\ view'[task.view].epoch = view[task.view].epoch
        /\ view'[task.view].running = view[task.view].running
        /\ view'[task.view].failed = view[task.view].failed
    BY <1>1 DEF Touched, OnlyOf, SameBindings
  <2>. QED BY <1>5, <2>1, <2>2 DEF Holds, Alone, Same, IsCurrent
<1>. QED BY <1>3, <1>4, <1>5 DEF InOrder, Tokens

LEMMA RefreshTokens == ASSUME Types, InOrder, Refresh \/ Coverage PROVE InOrder'
<1>. DEFINE v == task.view  clean == [view EXCEPT ![v].dirty = FALSE]
<1>0. v \in Views /\ view \in ViewsAt(position) BY Shapes
<1>1. CASE Begin BY <1>1, BeginTokens
<1>10. /\ Touched(v, clean) /\ Touched(v, [clean EXCEPT ![v].covered = position])
       /\ Touched(v, [view EXCEPT ![v].ready = TRUE])
       /\ Touched(v, [view EXCEPT ![v] = Certified(view[v], task.got, task.source)])
  BY <1>0, Touching
<1>2. ASSUME NEW vs \in ViewsAt(position), End(vs), vs = view \/ (Current(task) /\ Touched(v, vs)),
             fence' = fence, open' => open, task.pc # "idle"
      PROVE  InOrder'
  BY <1>2, EndTokens DEF Touched
<1>3. CASE ReadRoom \/ ReadListedRoom \/ ReadOtherRooms
  <2>1. /\ task'.pc # "idle" => task.pc # "idle" /\ task'.view = task.view /\ task'.epoch = task.epoch
        /\ UNCHANGED <<open, view, fence, tail>>
    BY <1>3, Shapes DEF ReadRoom, ReadListedRoom, ReadOtherRooms, TasksAt
  <2>. QED BY <2>1, SteadyTokens
<1>4. CASE ListingFails
  <2>1. task.pc # "idle" /\ fence' = fence BY <1>4 DEF ListingFails
  <2>. QED BY <1>0, <1>2, <1>4, <2>1, FailTokens DEF ListingFails
<1>5. CASE Judge
  <2>1. task.pc # "idle" /\ fence' = fence BY <1>5 DEF Judge
  <2>2. clean \in ViewsAt(position) /\ [clean EXCEPT ![v].covered = position] \in ViewsAt(position)
    <3>1. clean \in ViewsAt(position) BY <1>0, Marked
    <3>. HIDE DEF clean
    <3>2. position \in 0..position BY Shapes
    <3>. QED BY <1>0, <3>1, <3>2 DEF ViewsAt, ViewAt
  <2>3. CASE ~Current(task) BY <1>0, <1>2, <1>5, <2>1, <2>3 DEF Judge
  <2>4. CASE Attempt(task.attempt + 1, task, view) /\ UNCHANGED <<tail, open, wire>>
    <3>1. task'.view = task.view /\ task'.epoch = task.epoch BY <2>4, Shapes DEF Attempt, TasksAt
    <3>. QED BY <2>1, <2>4, <3>1, SteadyTokens DEF Attempt
  <2>5. CASE Current(task) /\ \E vs \in {view, clean, [clean EXCEPT ![v].covered = position]} :
               End(vs) /\ open' = open
    <3>1. PICK vs \in {view, clean, [clean EXCEPT ![v].covered = position]} : End(vs) BY <2>5
    <3>. HIDE DEF clean
    <3>2. vs \in ViewsAt(position) /\ (vs = view \/ Touched(v, vs)) BY <1>0, <1>10, <2>2, <3>1
    <3>. QED BY <1>2, <2>1, <2>5, <3>1, <3>2
  <2>6. CASE Current(task) /\ Fail BY <2>1, <2>6, FailTokens
  <2>7. CASE /\ \E frames \in Writings(task.got) :
                  task' = [task EXCEPT !.pc = "write", !.attempt = 0, !.frames = frames, !.source = position]
             /\ view' = clean /\ UNCHANGED <<open, tail, wire>> /\ Current(task)
    <3>1. task'.view = task.view /\ task'.epoch = task.epoch BY <2>7, Shapes DEF TasksAt
    <3>2. Touched(v, view') BY <1>0, <2>7, Touching
    <3>3. view'[v].failed = view[v].failed BY <1>0, <2>7 DEF ViewsAt, ViewAt
    <3>. QED BY <2>1, <2>7, <3>1, <3>2, <3>3, SteadyTokens
  <2>. QED BY <1>5, <2>3, <2>4, <2>5, <2>6, <2>7 DEF Judge
<1>6. CASE Write
  <2>1. task.pc # "idle" /\ fence' = fence BY <1>6 DEF Write
  <2>2. CASE ~Current(task) BY <1>0, <1>2, <1>6, <2>1, <2>2 DEF Write
  <2>3. CASE Current(task)
    <3>1. UNCHANGED <<view, tail>> /\ (open' => open) /\ task'.view = task.view /\ task'.epoch = task.epoch
      BY <1>6, <2>3, Shapes DEF Write, Send, TasksAt
    <3>. QED BY <2>1, <3>1, SteadyTokens
  <2>. QED BY <2>2, <2>3
<1>7. CASE Flushed
  <2>. DEFINE vs == [view EXCEPT ![v] = Certified(view[v], task.got, task.source)]
  <2>1. task.pc # "idle" /\ fence' = fence BY <1>7 DEF Flushed
  <2>2. vs \in ViewsAt(position) BY <1>0, <1>7, CertifiedType DEF Flushed, Types, StreamTypes
  <2>3. CASE task' = [task EXCEPT !.pc = "write"] /\ UNCHANGED <<open, view, tail, wire>>
    <3>1. task'.view = task.view /\ task'.epoch = task.epoch BY <2>3, Shapes DEF TasksAt
    <3>. QED BY <2>1, <2>3, <3>1, SteadyTokens
  <2>4. CASE End(view) /\ open' = open BY <1>0, <1>2, <2>1, <2>4
  <2>5. CASE Current(task) /\ End(vs) /\ open' = open BY <1>2, <1>10, <2>1, <2>2, <2>5
  <2>6. CASE /\ Current(task) /\ view' = vs /\ tail' = tail /\ (open' => open)
             /\ task' = [task EXCEPT !.pc = "ready", !.got = {}, !.source = NoSource]
    <3>1. task'.view = task.view /\ task'.epoch = task.epoch BY <2>6, Shapes DEF TasksAt
    <3>2. Touched(v, view') BY <1>0, <2>6, Touching
    <3>3. view'[v].failed = view[v].failed BY <1>0, <2>6 DEF ViewsAt, ViewAt, Certified
    <3>. QED BY <2>1, <2>6, <3>1, <3>2, <3>3, SteadyTokens
  <2>. QED BY <1>7, <2>3, <2>4, <2>5, <2>6 DEF Flushed, Settle, Send
<1>8. CASE ReadyFlushed
  <2>1. [view EXCEPT ![v].ready = TRUE] \in ViewsAt(position) BY <1>0, Marked
  <2>. QED BY <1>0, <1>2, <1>8, <1>10, <2>1 DEF ReadyFlushed
<1>9. CASE Coverage BY <1>9, SteadyTokens DEF Coverage, Send
<1>. QED BY <1>1, <1>3, <1>4, <1>5, <1>6, <1>7, <1>8, <1>9 DEF Refresh

LEMMA TokensLess ==
  ASSUME NEW o, NEW vs, NEW fn, NEW q, NEW t, Tokens(o, vs, fn, q, t), NEW o2, o2 => o, NEW t2,
         t2.pc # "idle" => t.pc # "idle" /\ t2.view = t.view /\ t2.epoch = t.epoch
  PROVE  Tokens(o2, vs, fn, q, t2)
<1>1. \A j : IsCurrent(j, o2, vs) => IsCurrent(j, o, vs) BY DEF IsCurrent
<1>2. Queue(o2, vs, fn, q) BY <1>1 DEF Tokens, Queue
<1>. QED BY <1>1, <1>2 DEF Tokens, Holds, Alone, Same, IsCurrent

(* A view hears of a commit: it fails, or is queued unless it was. *)
LEMMA HeardTokens ==
  ASSUME NEW o, NEW n, NEW vs \in ViewsAt(n), NEW fn, NEW q \in Seq(Jobs), NEW t, t.view \in Views,
         Tokens(o, vs, fn, q, t), NEW v \in Views, NEW r,
         r.epoch = vs[v].epoch,
         r.live => vs[v].live /\ r.failed = vs[v].failed
                   /\ (vs[v].running => r.running) /\ (vs[v].dirty => r.dirty),
         r.running /\ ~vs[v].running => o /\ vs[v].live /\ Awaited(r)
  PROVE  LET job == [view |-> v, epoch |-> r.epoch]
             ts == [vs EXCEPT ![v] = r] IN
         /\ Tokens(o, ts, fn, IF r.running /\ ~vs[v].running THEN Append(q, job) ELSE q, t)
<1>2. \A i \in 1..Len(q) : q[i] \in Jobs BY ElementOfSeq
<1>. DEFINE job == [view |-> v, epoch |-> r.epoch]  ts == [vs EXCEPT ![v] = r]
<1>1. ts[v] = r /\ \A u \in Views : u # v => ts[u] = vs[u] BY DEF ViewsAt
<1>3. \A i \in 1..Len(q) : q[i].view \in Views BY <1>2 DEF Jobs
<1>4. \A u \in Views : ts[u].live => vs[u].live /\ ts[u].epoch = vs[u].epoch
  BY <1>1
<1>. HIDE DEF ts
<1>5. Bound(ts, fn) BY <1>1 DEF Tokens, Bound
<1>6. Queue(o, ts, fn, q)
  <2>1. \A i \in 1..Len(q) : IsCurrent(q[i], o, ts) =>
          IsCurrent(q[i], o, vs) /\ (Awaited(vs[q[i].view]) => Awaited(ts[q[i].view]))
    BY <1>1, <1>3, <1>4 DEF IsCurrent, Awaited
  <2>. QED BY <2>1, QueueRebound DEF Tokens, Queue
<1>7. t.pc # "idle" => Holds(o, ts, fn, q, t) /\ (IsCurrent(t, o, ts) => ~ts[t.view].failed)
  BY <1>1, <1>4 DEF Tokens, Holds, IsCurrent
<1>8. CASE r.running /\ ~vs[v].running
  <2>1. job \in Jobs /\ job.view = v /\ job.epoch = r.epoch
    <3>1. r.epoch \in Nat BY DEF ViewsAt, ViewAt
    <3>. QED BY <3>1 DEF Jobs
  <2>. HIDE DEF job
  <2>2. \A i \in 1..Len(q) : ~Same(q[i], job)
    BY <1>8, <2>1 DEF Tokens, Queue, Same, IsCurrent, Awaited
  <2>3. Holds(o, ts, fn, q, job) /\ Awaited(ts[job.view])
    BY <1>1, <1>5, <1>8, <2>1, <2>2 DEF Holds, Alone, Bound, Awaited
  <2>4. Queue(o, ts, fn, Append(q, job)) BY <1>6, <2>1, <2>3, QueueAppended
  <2>5. t.pc # "idle" /\ IsCurrent(t, o, ts) => Alone(q, t) /\ ~Same(job, t)
    BY <1>1, <1>4, <1>7, <1>8, <2>1 DEF Holds, Same, Tokens, IsCurrent
  <2>6. /\ Len(Append(q, job)) = Len(q) + 1 /\ Len(q) \in Nat
        /\ \A i \in 1..Len(q) : Append(q, job)[i] = q[i]
        /\ Append(q, job)[Len(q) + 1] = job
    BY <2>1, AppendProperties, LenProperties
  <2>7. \A i \in 1..Len(q) + 1 : i \in 1..Len(q) \/ i = Len(q) + 1 BY <2>6
  <2>8. t.pc # "idle" /\ IsCurrent(t, o, ts) => Alone(Append(q, job), t)
    BY <2>5, <2>6, <2>7 DEF Alone
  <2>9. t.pc # "idle" => Holds(o, ts, fn, Append(q, job), t) BY <1>7, <2>8 DEF Holds
  <2>. QED BY <1>5, <1>7, <1>8, <2>4, <2>9 DEF Tokens, job, ts
<1>9. CASE ~(r.running /\ ~vs[v].running) BY <1>5, <1>6, <1>7, <1>9 DEF Tokens, ts
<1>. QED BY <1>8, <1>9

LEMMA HeardAs ==
  ASSUME Types, NEW v \in Views, NEW k, NEW w
  PROVE  LET r == Heard(v, k, w, position + 1) IN
         /\ r.epoch = view[v].epoch
         /\ r.live => view[v].live /\ r.failed = view[v].failed
                   /\ (view[v].running => r.running) /\ (view[v].dirty => r.dirty)
         /\ r.running /\ ~view[v].running => open /\ view[v].live /\ Awaited(r)
<1>1. view[v] \in ViewAt(position) BY Shapes DEF ViewsAt
<1>. QED BY <1>1 DEF Heard, Schedule, ViewAt, Awaited

LEMMA QueuedAs ==
  ASSUME NEW q \in Seq(Jobs), NEW v \in Views, NEW r, r.epoch \in Nat
  PROVE  q \o Queued(v, r) = IF r.running /\ ~view[v].running
                             THEN Append(q, [view |-> v, epoch |-> r.epoch]) ELSE q
<1>1. [view |-> v, epoch |-> r.epoch] \in Jobs BY DEF Jobs
<1>2. q \o <<[view |-> v, epoch |-> r.epoch]>> = Append(q, [view |-> v, epoch |-> r.epoch])
  BY <1>1, AppendIsConcat
<1>3. q \o <<>> = q BY ConcatEmptySeq
<1>. QED BY <1>2, <1>3 DEF Queued

LEMMA PublishTokens ==
  ASSUME Types, InOrder, NEW k \in Kinds, NEW w \in {"ok", "pending", "failed"}, Publish(k, w)
  PROVE  InOrder'
<1>. DEFINE a == Heard("rooms", k, w, position + 1)  b == Heard("room", k, w, position + 1)
            one == [view EXCEPT !["rooms"] = a]
            q == IF a.running /\ ~view["rooms"].running
                 THEN Append(tail, [view |-> "rooms", epoch |-> a.epoch]) ELSE tail
            two == [one EXCEPT !["room"] = b]
            q2 == IF b.running /\ ~view["room"].running
                  THEN Append(q, [view |-> "room", epoch |-> b.epoch]) ELSE q
<1>1. view \in ViewsAt(position) /\ tail \in Seq(Jobs) /\ "rooms" \in Views /\ "room" \in Views
      /\ task.view \in Views /\ position \in Nat /\ position + 1 \in Nat
  BY Shapes DEF Views
<1>2. a \in ViewAt(position + 1) /\ b \in ViewAt(position + 1) BY <1>1, HeardType DEF ViewsAt
<1>3. view \in ViewsAt(position + 1) BY <1>1, ShapesGrow
<1>4. a.epoch \in Nat /\ b.epoch \in Nat BY <1>2 DEF ViewAt
<1>5. Tokens(open, one, fence, q, task)
  <2>1. /\ a.epoch = view["rooms"].epoch
        /\ a.live => view["rooms"].live /\ a.failed = view["rooms"].failed
                 /\ (view["rooms"].running => a.running) /\ (view["rooms"].dirty => a.dirty)
        /\ a.running /\ ~view["rooms"].running => open /\ view["rooms"].live /\ Awaited(a)
    BY <1>1, HeardAs
  <2>2. Tokens(open, view, fence, tail, task) BY DEF InOrder
  <2>. HIDE DEF a
  <2>. QED BY <1>1, <2>1, <2>2, HeardTokens
<1>6. one \in ViewsAt(position + 1) /\ one["room"] = view["room"]
  <2>. HIDE DEF a
  <2>. QED BY <1>1, <1>2, <1>3 DEF ViewsAt
<1>7. q \in Seq(Jobs)
  <2>1. [view |-> "rooms", epoch |-> a.epoch] \in Jobs BY <1>1, <1>4 DEF Jobs
  <2>. HIDE DEF a
  <2>. QED BY <1>1, <2>1, AppendProperties
<1>8. Tokens(open, two, fence, q2, task)
  <2>1. /\ b.epoch = one["room"].epoch
        /\ b.live => one["room"].live /\ b.failed = one["room"].failed
                 /\ (one["room"].running => b.running) /\ (one["room"].dirty => b.dirty)
        /\ b.running /\ ~one["room"].running => open /\ one["room"].live /\ Awaited(b)
    BY <1>1, <1>6, HeardAs
  <2>. HIDE DEF a, b, one, q
  <2>2. Tokens(open, [one EXCEPT !["room"] = b], fence,
               IF b.running /\ ~one["room"].running
               THEN Append(q, [view |-> "room", epoch |-> b.epoch]) ELSE q, task)
    BY <1>1, <1>5, <1>6, <1>7, <2>1, HeardTokens
  <2>. QED BY <1>6, <2>2
<1>9. view' = two /\ fence' = fence
  <2>1. view' = [u \in Views |-> Heard(u, k, w, position + 1)] /\ fence' = fence BY DEF Publish
  <2>2. \A u \in Views : two[u] = Heard(u, k, w, position + 1)
    <3>. HIDE DEF a, b
    <3>. QED BY <1>1 DEF ViewsAt, Views, a, b
  <2>3. two \in ViewsAt(position + 1)
    <3>. HIDE DEF a, b, one
    <3>. QED BY <1>2, <1>6 DEF ViewsAt
  <2>. HIDE DEF two
  <2>. QED BY <2>1, <2>2, <2>3 DEF ViewsAt
<1>10. tail' = q2
  <2>1. tail' = tail \o Queued("rooms", a) \o Queued("room", b) BY <1>1 DEF Publish
  <2>. HIDE DEF a, b
  <2>2. tail \o Queued("rooms", a) = q BY <1>1, <1>4, QueuedAs
  <2>. HIDE DEF q
  <2>3. q \o Queued("room", b) = q2 BY <1>1, <1>4, <1>7, QueuedAs
  <2>. QED BY <2>1, <2>2, <2>3
<1>11. (open' => open) /\ (task'.pc # "idle" => task.pc # "idle" /\ task'.view = task.view /\ task'.epoch = task.epoch)
  BY Shapes DEF Publish, Send, TasksAt
<1>. HIDE DEF two, q2
<1>. QED BY <1>8, <1>9, <1>10, <1>11, TokensLess DEF InOrder

LEMMA BindingTokens ==
  ASSUME Types, InOrder, NEW v \in Views, NEW e \in Nat, Register(v, e) \/ Remove(v, e) PROVE InOrder'
<1>1. view \in ViewsAt(position) /\ fence \in [Views -> Nat] /\ task.view \in Views /\ task.epoch \in Nat
      /\ tail \in Seq(Jobs) /\ Len(tail) \in Nat
  BY Shapes, LenProperties DEF TasksAt
<1>2. \A i \in 1..Len(tail) : tail[i] \in Jobs BY <1>1, ElementOfSeq
<1>3. \A i \in 1..Len(tail) : tail[i].view \in Views /\ tail[i].epoch \in Nat BY <1>2 DEF Jobs
<1>4. ASSUME NEW r, view' = [view EXCEPT ![v] = r], NEW n \in Nat, fence[v] <= n, fence' = [fence EXCEPT ![v] = n],
             r.epoch \in Nat, r.epoch <= n,
             r.live => r.epoch > fence[v] \/ r = view[v]
      PROVE  Tokens(open, view', fence', tail, task)
  <2>1. view'[v] = r /\ fence'[v] = n /\ \A u \in Views : u # v => view'[u] = view[u] /\ fence'[u] = fence[u]
    BY <1>1, <1>4 DEF ViewsAt
  <2>2. Bound(view', fence') BY <1>4, <2>1 DEF InOrder, Tokens, Bound
  <2>3. ASSUME NEW j, j.view \in Views, j.epoch \in Nat, j.epoch <= fence[j.view]
        PROVE  /\ j.epoch <= fence'[j.view]
               /\ IsCurrent(j, open, view') => IsCurrent(j, open, view) /\ view'[j.view] = view[j.view]
    <3>1. CASE j.view # v BY <2>1, <2>3, <3>1 DEF IsCurrent
    <3>2. CASE j.view = v
      <4>1. fence[v] \in Nat BY <1>1
      <4>. QED BY <1>4, <2>1, <2>3, <3>2, <4>1 DEF IsCurrent
    <3>. QED BY <3>1, <3>2
  <2>4. \A i \in 1..Len(tail) : tail[i].epoch <= fence[tail[i].view] BY DEF InOrder, Tokens, Queue
  <2>5. Queue(open, view', fence', tail)
    <3>1. \A i \in 1..Len(tail) :
            /\ tail[i].epoch <= fence'[tail[i].view]
            /\ IsCurrent(tail[i], open, view') =>
                 IsCurrent(tail[i], open, view) /\ view'[tail[i].view] = view[tail[i].view]
      BY <1>3, <2>3, <2>4
    <3>2. Queue(open, view, fence, tail) BY DEF InOrder, Tokens
    <3>. QED BY <3>1, <3>2, QueueRebound
  <2>6. task.pc # "idle" => Holds(open, view', fence', tail, task) /\ (IsCurrent(task, open, view') => ~view'[task.view].failed)
    BY <1>1, <2>3 DEF InOrder, Tokens, Holds
  <2>. QED BY <2>2, <2>5, <2>6 DEF Tokens
<1>5. CASE Register(v, e)
  <2>. DEFINE r == Schedule(Fresh(e))  j == [view |-> v, epoch |-> e]
  <2>1. r.epoch = e /\ r.live /\ Awaited(r) BY DEF Fresh, Off, Schedule, Awaited
  <2>2. e > fence[v] /\ fence' = [fence EXCEPT ![v] = e] /\ view' = [view EXCEPT ![v] = r]
        /\ tail' = Append(tail, j) /\ UNCHANGED <<open, task>>
    BY <1>5 DEF Register
  <2>. HIDE DEF r
  <2>3. Tokens(open, view', fence', tail, task)
    <3>1. fence[v] \in Nat BY <1>1
    <3>2. fence[v] <= e /\ r.epoch \in Nat /\ r.epoch <= e /\ r.epoch > fence[v] BY <2>1, <2>2, <3>1
    <3>. QED BY <1>4, <2>2, <3>2
  <2>4. view'[v] = r /\ fence'[v] = e BY <1>1, <2>2 DEF ViewsAt
  <2>5. j \in Jobs /\ j.view = v /\ j.epoch = e BY DEF Jobs
  <2>. HIDE DEF j
  <2>6. fence[v] \in Nat /\ \A i \in 1..Len(tail) : ~Same(tail[i], j)
    BY <1>1, <1>3, <2>2, <2>5 DEF InOrder, Tokens, Queue, Same
  <2>7. Queue(open, view', fence', tail')
    <3>1. Holds(open, view', fence', tail, j) BY <2>1, <2>4, <2>5, <2>6 DEF Holds, Alone, Awaited
    <3>2. Queue(open, view', fence', tail) /\ Awaited(view'[j.view]) BY <2>1, <2>3, <2>4, <2>5 DEF Tokens
    <3>. QED BY <1>1, <2>2, <2>5, <3>1, <3>2, QueueAppended
  <2>8. task.pc # "idle" => ~Same(j, task)
    BY <1>1, <2>2, <2>5, <2>6 DEF InOrder, Tokens, Holds, Same
  <2>9. /\ Len(tail') = Len(tail) + 1 /\ \A i \in 1..Len(tail) : tail'[i] = tail[i]
        /\ tail'[Len(tail) + 1] = j
    BY <1>1, <2>2, <2>5, AppendProperties
  <2>10. \A i \in 1..Len(tail) + 1 : i \in 1..Len(tail) \/ i = Len(tail) + 1 BY <1>1
  <2>11. task.pc # "idle" /\ Alone(tail, task) => Alone(tail', task) BY <2>8, <2>9, <2>10 DEF Alone
  <2>. QED BY <2>2, <2>3, <2>7, <2>11 DEF InOrder, Tokens, Holds
<1>6. CASE Remove(v, e)
  <2>. DEFINE n == IF e > fence[v] THEN e ELSE fence[v]  r == IF view[v].epoch <= e THEN Off ELSE view[v]
  <2>1. fence[v] \in Nat /\ view[v].epoch \in Nat /\ view[v].epoch <= fence[v]
    BY <1>1 DEF InOrder, Tokens, Bound, ViewsAt, ViewAt
  <2>2. n \in Nat /\ fence[v] <= n BY <2>1
  <2>3. Off.epoch = 0 /\ ~Off.live BY DEF Off
  <2>4. r.epoch \in Nat /\ r.epoch <= n /\ (r.live => r = view[v]) BY <2>1, <2>2, <2>3
  <2>5. view' = [view EXCEPT ![v] = r] /\ fence' = [fence EXCEPT ![v] = n] /\ UNCHANGED <<open, task, tail>>
    BY <1>6 DEF Remove
  <2>. HIDE DEF n, r
  <2>. QED BY <1>4, <2>2, <2>4, <2>5 DEF InOrder
<1>. QED BY <1>5, <1>6

LEMMA ClosedTokens == ASSUME Types, NEW o, Closed(o) PROVE InOrder'
<1>1. tail' = <<>> /\ Len(<<>>) = 0 /\ \A v \in Views : view'[v] = Off /\ fence'[v] = 0 BY EmptySeq DEF Closed
<1>2. Queue(open', view', fence', tail') BY <1>1 DEF Queue
<1>3. Bound(view', fence') BY <1>1 DEF Bound, Off
<1>. QED BY <1>2, <1>3, Shapes DEF Closed, InOrder, Tokens

LEMMA LoseClosed == ASSUME Lose PROVE Closed(FALSE)
BY DEF Lose

LEMMA InOrderStep == ASSUME Types, InOrder, [Next]_vars PROVE InOrder'
<1>1. CASE UNCHANGED <<open, view, fence, tail, task>>
  BY <1>1 DEF InOrder, Tokens, Bound, Queue, Holds, Alone, IsCurrent
<1>2. CASE UNCHANGED vars BY <1>1, <1>2 DEF vars, stream
<1>3. CASE \E k \in Kinds \ {"health"} : Commit(k) BY <1>3, PublishTokens DEF Commit, Types, StoreTypes
<1>4. CASE \E w \in {"ok", "pending", "failed"} : SetResourceHealth(w)
  BY <1>4, PublishTokens DEF SetResourceHealth, Kinds
<1>5. CASE Refresh \/ Coverage BY <1>5, RefreshTokens
<1>6. CASE Connect BY <1>6, ClosedTokens DEF Connect
<1>7. CASE Drop \/ Ended BY <1>7, ClosedTokens, LoseClosed DEF Drop, Ended
<1>8. CASE Receive BY <1>1, <1>8, ClosedTokens, LoseClosed DEF Receive
<1>9. CASE \E v \in Views : Retry(v) BY <1>1, <1>9 DEF Retry, stream
<1>10. CASE \E p \in posts : Serve(p)
  <2>1. PICK p \in posts : Serve(p) BY <1>10
  <2>2. posts \subseteq Posts BY DEF Types, SessionTypes, SessionsAt, Here
  <2>3. p.view \in Views /\ p.epoch \in Nat BY <2>2 DEF Posts
  <2>4. Register(p.view, p.epoch) \/ Remove(p.view, p.epoch) BY <2>1 DEF Serve
  <2>. QED BY <2>3, <2>4, BindingTokens
<1>11. CASE Poll BY <1>1, <1>11 DEF Poll, PollTail, PollHead, PollAnswers, stream
<1>12. CASE WatchRoom \/ LeaveRoom \/ Show BY <1>1, <1>12 DEF WatchRoom, LeaveRoom, Show, stream
<1>13. CASE Hide BY <1>13, ClosedTokens DEF Hide
<1>. QED BY <1>2, <1>3, <1>4, <1>5, <1>6, <1>7, <1>8, <1>9, <1>10, <1>11, <1>12, <1>13 DEF Next

LEMMA InOrderInit == Init => InOrder
<1>. SUFFICES ASSUME Init PROVE InOrder OBVIOUS
<1>1. tail = <<>> /\ Len(<<>>) = 0 /\ \A v \in Views : view[v] = Off /\ fence[v] = 0 BY EmptySeq DEF Init
<1>2. Queue(open, view, fence, tail) BY <1>1 DEF Queue
<1>3. Bound(view, fence) BY <1>1 DEF Bound, Off
<1>. QED BY <1>2, <1>3 DEF Init, InOrder, Tokens, Idle

-----------------------------------------------------------------------------
(* What a view was sent is what the store held. *)

(* What view v shows of a log up to p, and its records. *)
Shown(lg, v, p) == {i \in 1..p : lg[i] \in Relevant(v)}
Kept(lg, commits) == {i \in commits : lg[i] = "history"}
Listing(lg) == {i \in 1..Len(lg) : lg[i] \in {"metadata", "delete"}}
Hold(w, v) == v = "room" /\ w = "pending"
Serves(r) == r.live /\ r.based /\ ~r.failed

(* A registration that serves its view was sent what it states, and, unless *)
(* it is marked or refreshed, all there is.                                 *)
Rests(v, r, t) == ~r.running \/ (t.pc = "ready" /\ t.view = v /\ t.epoch = r.epoch)
States(lg, v, r) == Serves(r) => r.payload = Shown(lg, v, r.covered)
Complete(lg, w, v, r) == Serves(r) /\ ~r.dirty /\ ~Hold(w, v) => r.payload = Shown(lg, v, Len(lg))
Blank(r) == ~r.based => r.payload = {}
Told(lg, w, o, v, r, t) ==
  /\ o => States(lg, v, r) /\ (Rests(v, r, t) => Complete(lg, w, v, r))
  /\ Blank(r)

(* What a refresh has read is still so unless it was moved; what it writes was so *)
(* at its source, is still so unless its view was marked, and drops no record.    *)
Reads(lg, t) ==
  /\ t.pc = "others" => t.view = "rooms"
  /\ t.pc = "others" /\ ~t.moved => t.got = Listing(lg)
  /\ t.pc = "judge" /\ ~t.moved => t.got = Shown(lg, t.view, Len(lg))
Writes(lg, w, o, r, t) ==
  t.pc \in {"write", "flush"} /\ o /\ r.live /\ r.epoch = t.epoch =>
    /\ t.got = Shown(lg, t.view, t.source)
    /\ ~r.dirty /\ ~Hold(w, t.view) => t.got = Shown(lg, t.view, Len(lg))
    /\ Kept(lg, r.payload) \subseteq t.got
Sent ==
  /\ \A v \in Views : Told(log, watch, open, v, view[v], task)
  /\ Reads(log, task) /\ Writes(log, watch, open, view[task.view], task)

LEMMA SentStates == Sent => CoveredIsSent
BY DEF Sent, Told, States, Serves, Shown, CoveredIsSent, Content

LEMMA Grown ==
  ASSUME NEW lg \in Seq(Kinds), NEW k \in Kinds
  PROVE  LET lg2 == Append(lg, k) IN
         /\ Len(lg2) = Len(lg) + 1 /\ Len(lg) \in Nat
         /\ \A v : \A p \in 0..Len(lg) : Shown(lg2, v, p) = Shown(lg, v, p)
         /\ \A v : k \notin Relevant(v) => Shown(lg2, v, Len(lg2)) = Shown(lg, v, Len(lg))
         /\ k \notin {"metadata", "delete"} => Listing(lg2) = Listing(lg)
         /\ \A commits \in SUBSET (1..Len(lg)) : Kept(lg2, commits) = Kept(lg, commits)
<1>1. /\ Len(Append(lg, k)) = Len(lg) + 1 /\ Len(lg) \in Nat
      /\ \A i \in 1..Len(lg) : Append(lg, k)[i] = lg[i]
      /\ Append(lg, k)[Len(lg) + 1] = k
  BY AppendProperties, LenProperties
<1>2. 1..Len(lg) + 1 = 1..Len(lg) \cup {Len(lg) + 1} BY <1>1
<1>3. \A p \in 0..Len(lg) : 1..p \subseteq 1..Len(lg) BY <1>1
<1>4. \A v : \A p \in 0..Len(lg) : Shown(Append(lg, k), v, p) = Shown(lg, v, p) BY <1>1, <1>3 DEF Shown
<1>5. \A v : k \notin Relevant(v) => Shown(Append(lg, k), v, Len(Append(lg, k))) = Shown(lg, v, Len(lg))
  BY <1>1, <1>2 DEF Shown
<1>6. k \notin {"metadata", "delete"} => Listing(Append(lg, k)) = Listing(lg) BY <1>1, <1>2 DEF Listing
<1>7. \A commits \in SUBSET (1..Len(lg)) : Kept(Append(lg, k), commits) = Kept(lg, commits)
  BY <1>1 DEF Kept
<1>. QED BY <1>1, <1>4, <1>5, <1>6, <1>7

(* The registration of one view hears of a commit. *)
LEMMA HeardTold ==
  ASSUME Types, NEW k \in Kinds, NEW w \in {"ok", "pending", "failed"}, w # watch => k = "health",
         NEW v \in Views, Told(log, watch, open, v, view[v], task),
         NEW o, o => open, NEW t, t.pc = task.pc /\ t.view = task.view /\ t.epoch = task.epoch
  PROVE  Told(Append(log, k), w, o, v, Heard(v, k, w, position + 1), t)
<1>. DEFINE r == view[v]  r2 == Heard(v, k, w, position + 1)  lg2 == Append(log, k)
<1>1. r \in ViewAt(position) /\ position \in Nat /\ log \in Seq(Kinds) /\ position = Len(log)
  BY Shapes DEF ViewsAt, Types, StoreTypes, position
<1>2. /\ Len(lg2) = position + 1
      /\ \A p \in 0..position : Shown(lg2, v, p) = Shown(log, v, p)
      /\ k \notin Relevant(v) => Shown(lg2, v, Len(lg2)) = Shown(log, v, position)
  BY <1>1, Grown
<1>. HIDE DEF lg2
<1>3. Relevant(v) \subseteq Wakes(v) /\ (v = "room" => "health" \in Wakes(v)) BY DEF Wakes
<1>4. r.covered \in 0..position /\ Shown(lg2, v, r.covered) = Shown(log, v, r.covered)
  BY <1>1, <1>2 DEF ViewAt
<1>5. Blank(r2) BY <1>1 DEF Told, Blank, Heard, Schedule, ViewAt
<1>6. ASSUME open, r.live, r.failed PROVE Told(lg2, w, o, v, r2, t)
  <2>1. ~Serves(r2) BY <1>1, <1>6 DEF Serves, Heard, Schedule, ViewAt
  <2>. QED BY <1>5, <2>1 DEF Told, States, Complete
<1>7. ASSUME open, r.live, ~r.failed, v = "room", w = "failed" PROVE Told(lg2, w, o, v, r2, t)
  <2>1. ~Serves(r2) BY <1>1, <1>7 DEF Serves, Heard, ViewAt
  <2>. QED BY <1>5, <2>1 DEF Told, States, Complete
<1>8. ASSUME open, r.live, ~r.failed, v = "room", w = "pending" PROVE Told(lg2, w, o, v, r2, t)
  <2>1. r2 = r /\ Hold(w, v) BY <1>8 DEF Heard, Hold
  <2>. QED BY <1>4, <1>5, <1>8, <2>1 DEF Told, States, Complete
<1>9. ASSUME open, r.live, ~r.failed, ~(v = "room" /\ w \in {"failed", "pending"}), k \in Wakes(v)
      PROVE  Told(lg2, w, o, v, r2, t)
  <2>1. r2 = Schedule(r) BY <1>9 DEF Heard
  <2>2. r2.dirty /\ r2.live = r.live /\ r2.failed = r.failed /\ r2.based = r.based /\ r2.payload = r.payload
        /\ r2.covered = r.covered
    BY <1>1, <1>9, <2>1 DEF Schedule, ViewAt
  <2>. HIDE DEF r2
  <2>3. States(log, v, r) BY <1>9 DEF Told
  <2>4. States(lg2, v, r2) BY <1>4, <2>2, <2>3 DEF States, Serves
  <2>. QED BY <1>5, <2>2, <2>4 DEF Told, Complete
<1>10. ASSUME open, r.live, ~r.failed, ~(v = "room" /\ w \in {"failed", "pending"}), k \notin Wakes(v)
       PROVE  Told(lg2, w, o, v, r2, t)
  <2>1. ~Hold(watch, v) /\ ~Hold(w, v) /\ k \notin Relevant(v) BY <1>3, <1>10 DEF Hold
  <2>2. r2 = (IF r.based /\ ~r.running /\ ~r.dirty THEN [r EXCEPT !.covered = position + 1] ELSE r)
    BY <1>10 DEF Heard
  <2>3. /\ r2.dirty = r.dirty /\ r2.live = r.live /\ r2.failed = r.failed /\ r2.based = r.based
        /\ r2.payload = r.payload /\ r2.running = r.running /\ r2.epoch = r.epoch
        /\ r2.covered = IF r.based /\ ~r.running /\ ~r.dirty THEN position + 1 ELSE r.covered
    BY <1>1, <2>2 DEF ViewAt
  <2>. HIDE DEF r2
  <2>4. Complete(log, watch, v, r) => Complete(lg2, w, v, r2)
    BY <1>1, <1>2, <2>1, <2>3 DEF Complete, Serves
  <2>5. States(lg2, v, r2)
    <3>1. CASE r.based /\ ~r.running /\ ~r.dirty
      <4>1. Complete(log, watch, v, r) BY <1>10, <3>1 DEF Told, Rests
      <4>. QED BY <1>1, <1>2, <1>10, <2>1, <2>3, <3>1, <4>1 DEF Complete, States, Serves
    <3>2. CASE ~(r.based /\ ~r.running /\ ~r.dirty)
      <4>1. r2.covered = r.covered BY <2>3, <3>2
      <4>2. States(log, v, r) BY <1>10 DEF Told
      <4>. QED BY <1>4, <2>3, <4>1, <4>2 DEF States, Serves
    <3>. QED BY <3>1, <3>2
  <2>6. Rests(v, r2, t) => Rests(v, r, task) BY <2>3 DEF Rests
  <2>. QED BY <1>5, <1>10, <2>4, <2>5, <2>6 DEF Told
<1>11. ASSUME ~open PROVE Told(lg2, w, o, v, r2, t) BY <1>5, <1>11 DEF Told
<1>12. ASSUME open, ~r.live PROVE Told(lg2, w, o, v, r2, t)
  <2>1. r2 = r BY <1>12 DEF Heard
  <2>. QED BY <1>5, <1>12, <2>1 DEF Told, States, Complete, Serves
<1>. HIDE DEF r, r2
<1>13. Told(lg2, w, o, v, r2, t) BY <1>6, <1>7, <1>8, <1>9, <1>10, <1>11, <1>12
<1>. QED BY <1>13 DEF r2, lg2

LEMMA PublishSent ==
  ASSUME Types, InOrder, Sent, NEW k \in Kinds, NEW w \in {"ok", "pending", "failed"},
         w # watch => k = "health", Publish(k, w)
  PROVE  Sent'
<1>. DEFINE v == task.view  r == view[v]  r2 == Heard(v, k, w, position + 1)
<1>1. /\ log' = Append(log, k) /\ watch' = w /\ (open' => open)
      /\ view' = [u \in Views |-> Heard(u, k, w, position + 1)]
      /\ task' = [task EXCEPT !.moved = @ \/ Moves(k, w)]
  BY DEF Publish, Send
<1>2. /\ task'.pc = task.pc /\ task'.view = task.view /\ task'.epoch = task.epoch /\ task'.got = task.got
      /\ task'.source = task.source /\ (~task'.moved => ~task.moved /\ ~Moves(k, w))
  BY <1>1, Shapes DEF TasksAt
<1>3. \A u \in Views : Told(log', watch', open', u, view'[u], task')
  BY <1>1, <1>2, HeardTold DEF Sent
<1>4. /\ log \in Seq(Kinds) /\ position = Len(log) /\ v \in Views /\ r \in ViewAt(position)
      /\ task.got \in SUBSET (1..position) /\ task.source \in -1..position /\ position \in Nat
  BY Shapes DEF Types, StoreTypes, position, ViewsAt
<1>5. /\ Len(log') = position + 1
      /\ \A p \in 0..position : Shown(log', v, p) = Shown(log, v, p)
      /\ k \notin Relevant(v) => Shown(log', v, Len(log')) = Shown(log, v, position)
      /\ k \notin {"metadata", "delete"} => Listing(log') = Listing(log)
      /\ \A commits \in SUBSET (1..position) : Kept(log', commits) = Kept(log, commits)
  BY <1>1, <1>4, Grown
<1>6. Relevant(v) \subseteq Wakes(v) /\ (v = "room" => "health" \in Wakes(v))
      /\ (v = "rooms" => {"metadata", "delete"} \subseteq Wakes(v))
  BY DEF Wakes, Relevant
<1>7. Reads(log', task')
  <2>1. task.pc \in {"others", "judge"} /\ ~task'.moved => ~task.moved /\ k \notin Wakes(v)
    BY <1>2 DEF Moves
  <2>. QED BY <1>2, <1>4, <1>5, <1>6, <2>1 DEF Reads, Sent
<1>8. Writes(log', watch', open', view'[v], task')
  <2>. SUFFICES ASSUME task.pc \in {"write", "flush"}, open', view'[v].live, view'[v].epoch = task.epoch
                PROVE  /\ task.got = Shown(log', v, task.source)
                       /\ ~view'[v].dirty /\ ~Hold(w, v) => task.got = Shown(log', v, Len(log'))
                       /\ Kept(log', view'[v].payload) \subseteq task.got
    BY <1>1, <1>2 DEF Writes
  <2>1. view'[v] = r2 BY <1>1, <1>4
  <2>2. r2.epoch = r.epoch /\ (r2.live => r.live) /\ r2.payload = r.payload
    BY <1>4 DEF Heard, Schedule, ViewAt
  <2>3. open /\ r.live /\ r.epoch = task.epoch BY <1>1, <2>1, <2>2
  <2>4. ~r.failed BY <2>3 DEF InOrder, Tokens, IsCurrent
  <2>5. /\ task.got = Shown(log, v, task.source)
        /\ ~r.dirty /\ ~Hold(watch, v) => task.got = Shown(log, v, Len(log))
        /\ Kept(log, r.payload) \subseteq task.got
    BY <2>3 DEF Sent, Writes
  <2>6. task.source \in 0..position
    <3>1. task.source # NoSource BY DEF Types, StreamTypes
    <3>. QED BY <1>4, <3>1 DEF NoSource
  <2>7. r.payload \in SUBSET (1..position) BY <1>4 DEF ViewAt
  <2>8. ~r2.dirty /\ ~Hold(w, v) => ~r.dirty /\ ~Hold(watch, v) /\ k \notin Relevant(v)
    <3>1. SUFFICES ASSUME ~r2.dirty, ~Hold(w, v) PROVE ~r.dirty /\ ~Hold(watch, v) /\ k \notin Relevant(v)
      OBVIOUS
    <3>2. ~(v = "room" /\ w = "failed") BY <1>4, <2>1, <2>3, <2>4 DEF Heard, ViewAt
    <3>3. k \notin Wakes(v)
      <4>1. CASE k \in Wakes(v)
        <5>1. r2 = Schedule(r) BY <2>3, <3>1, <3>2, <4>1 DEF Heard, Hold
        <5>2. r2.dirty BY <1>4, <2>3, <2>4, <5>1 DEF Schedule, ViewAt
        <5>. QED BY <3>1, <5>2
      <4>. QED BY <4>1
    <3>4. r2.dirty = r.dirty BY <1>4, <2>3, <3>1, <3>2, <3>3 DEF Heard, Hold, ViewAt
    <3>. QED BY <1>6, <3>1, <3>3, <3>4 DEF Hold
  <2>. HIDE DEF r, r2
  <2>. QED BY <1>4, <1>5, <2>1, <2>2, <2>5, <2>6, <2>7, <2>8
<1>. QED BY <1>2, <1>3, <1>7, <1>8 DEF Sent

(* What a change of the connection leaves of a view, when no commit comes. *)
LEMMA ToldStill ==
  ASSUME NEW lg, NEW w, NEW o, NEW v, NEW r, NEW t, Told(lg, w, o, v, r, t),
         NEW o2, o2 => o, NEW r2,
         r2.live = r.live /\ r2.based = r.based /\ r2.failed = r.failed /\ r2.payload = r.payload,
         r2.dirty = r.dirty, r2.covered = r.covered,
         NEW t2, Rests(v, r2, t2) => Rests(v, r, t)
  PROVE  Told(lg, w, o2, v, r2, t2)
BY DEF Told, States, Complete, Blank, Serves

(* A registration that is retired, failed or has sent nothing says nothing. *)
LEMMA ToldNothing ==
  ASSUME NEW lg, NEW w, NEW o, NEW v, NEW r, NEW t, ~Serves(r), Blank(r) PROVE Told(lg, w, o, v, r, t)
BY DEF Told, States, Complete

LEMMA BindingSent ==
  ASSUME Types, InOrder, Sent, NEW v \in Views, NEW e \in Nat, Register(v, e) \/ Remove(v, e) PROVE Sent'
<1>1. view \in ViewsAt(position) /\ task.view \in Views /\ task.epoch \in Nat /\ fence \in [Views -> Nat]
  BY Shapes DEF TasksAt
<1>2. /\ UNCHANGED <<log, watch, open, task>>
      /\ \E r : /\ view' = [view EXCEPT ![v] = r]
                /\ (~Serves(r) /\ Blank(r) /\ (r.live => r.epoch > fence[v])) \/ r = view[v]
  <2>1. CASE Register(v, e)
    <3>1. ~Serves(Schedule(Fresh(e))) /\ Blank(Schedule(Fresh(e))) /\ Schedule(Fresh(e)).epoch = e
      BY DEF Fresh, Off, Schedule, Serves, Blank
    <3>. QED BY <2>1, <3>1 DEF Register
  <2>2. CASE Remove(v, e)
    <3>1. ~Serves(Off) /\ Blank(Off) /\ ~Off.live BY DEF Off, Serves, Blank
    <3>. QED BY <2>2, <3>1 DEF Remove
  <2>. QED BY <2>1, <2>2
<1>3. PICK r : /\ view' = [view EXCEPT ![v] = r]
               /\ (~Serves(r) /\ Blank(r) /\ (r.live => r.epoch > fence[v])) \/ r = view[v]
  BY <1>2
<1>4. view'[v] = r /\ \A u \in Views : u # v => view'[u] = view[u] BY <1>1, <1>3, OneView
<1>5. \A u \in Views : Told(log', watch', open', u, view'[u], task')
  <2>. TAKE u \in Views
  <2>1. CASE view'[u] = view[u] BY <1>2, <2>1 DEF Sent
  <2>2. CASE view'[u] # view[u] BY <1>3, <1>4, <2>2, ToldNothing
  <2>. QED BY <2>1, <2>2
<1>6. Writes(log', watch', open', view'[task'.view], task')
  <2>1. CASE view'[task.view] = view[task.view] BY <1>2, <2>1 DEF Sent
  <2>2. CASE view'[task.view] # view[task.view]
    <3>1. task.view = v /\ (r.live => r.epoch > fence[v]) BY <1>1, <1>3, <1>4, <2>2
    <3>2. task.pc # "idle" => task.epoch <= fence[v] BY <3>1 DEF InOrder, Tokens, Holds
    <3>3. fence[v] \in Nat BY <1>1
    <3>4. task.pc # "idle" /\ r.live => r.epoch # task.epoch BY <1>1, <3>1, <3>2, <3>3
    <3>. QED BY <1>2, <1>4, <3>1, <3>4 DEF Writes
  <2>. QED BY <2>1, <2>2
<1>7. Reads(log', task') BY <1>2 DEF Sent
<1>. QED BY <1>5, <1>6, <1>7 DEF Sent

LEMMA ClosedSent == ASSUME Types, NEW o, Closed(o) PROVE Sent'
<1>1. task' = Idle /\ \A v \in Views : view'[v] = Off BY DEF Closed
<1>2. ~Serves(Off) /\ Blank(Off) BY DEF Off, Serves, Blank
<1>. QED BY <1>1, <1>2, ToldNothing, Shapes DEF Sent, Reads, Writes

(* A refresh that ends. *)
Right(v, r) == States(log, v, r) /\ Complete(log, watch, v, r) /\ Blank(r)
LEMMA LeaveSent ==
  ASSUME Types, InOrder, Sent, NEW job, job.view \in Views, NEW rest,
         NEW vs \in ViewsAt(position), Leave(job, vs, rest), UNCHANGED store, open' => open,
         vs = view \/ (Current(job) /\ OnlyOf(job.view, vs)),
         Current(job) => Right(job.view, vs[job.view])
  PROVE  Sent'
<1>. DEFINE v == job.view
<1>1. v \in Views /\ view \in ViewsAt(position) /\ task' = Idle /\ Idle.pc = "idle"
      /\ log' = log /\ watch' = watch
  BY Shapes DEF Leave, store
<1>2. \A u \in Views : Told(log, watch, open, u, view[u], task) BY DEF Sent
<1>3. \A u, r : Rests(u, r, Idle) => ~r.running BY <1>1 DEF Rests
<1>4. ASSUME NEW u \in Views, view'[u] = view[u] PROVE Told(log, watch, open', u, view'[u], Idle)
  <2>1. Rests(u, view[u], Idle) => Rests(u, view[u], task) BY <1>3 DEF Rests
  <2>. QED BY <1>2, <1>4, <2>1, ToldStill
<1>5. CASE ~Current(job)
  <2>1. view' = view BY <1>5 DEF Leave
  <2>2. \A u \in Views : Told(log', watch', open', u, view'[u], task') BY <1>1, <1>4, <2>1
  <2>. QED BY <1>1, <2>2 DEF Sent, Reads, Writes
<1>6. CASE Current(job)
  <2>1. view' = vs \/ view' = [vs EXCEPT ![v] = [vs[v] EXCEPT !.running = FALSE]]
    BY <1>6 DEF Leave
  <2>2. \A u \in Views : u # v => view'[u] = view[u] BY <1>1, <2>1, OneView DEF OnlyOf
  <2>3. vs[v] \in ViewAt(position) BY <1>1 DEF ViewsAt
  <2>4. view'[v] = vs[v] \/ view'[v] = [vs[v] EXCEPT !.running = FALSE] BY <1>1, <2>1, OneView
  <2>5. Told(log, watch, open', v, view'[v], Idle)
    BY <1>6, <2>3, <2>4 DEF Right, Told, States, Complete, Blank, Serves, ViewAt
  <2>6. \A u \in Views : Told(log', watch', open', u, view'[u], task') BY <1>1, <1>4, <2>2, <2>5
  <2>. QED BY <1>1, <2>6 DEF Sent, Reads, Writes
<1>. QED BY <1>5, <1>6

(* A refresh that goes on and leaves the views alone. *)
LEMMA SentGoesOn ==
  ASSUME Types, Sent, UNCHANGED <<store, view>>, open' => open, task'.view = task.view,
         task'.epoch = task.epoch, task'.pc # "ready", Reads(log, task'), 
         task'.pc \in {"write", "flush"} => task.pc \in {"write", "flush"} /\ task'.got = task.got
                                            /\ task'.source = task.source
  PROVE  Sent'
<1>1. log' = log /\ watch' = watch BY DEF store
<1>2. \A u \in Views : Told(log', watch', open', u, view'[u], task')
  <2>. TAKE u \in Views
  <2>1. Rests(u, view[u], task') => Rests(u, view[u], task) BY DEF Rests
  <2>. QED BY <1>1, <2>1, ToldStill DEF Sent
<1>3. Writes(log', watch', open', view'[task'.view], task') BY <1>1 DEF Sent, Writes
<1>. QED BY <1>1, <1>2, <1>3 DEF Sent

LEMMA ContentIs == \A v, p : Content(v, p) = Shown(log, v, p)
BY DEF Content, Shown

(* A view that serves keeps its records: what it shows only grows. *)
LEMMA PayloadIsKept ==
  ASSUME Types, InOrder, Sent, Current(task), task.pc # "idle"
  PROVE  Kept(log, view[task.view].payload) \subseteq Shown(log, task.view, position)
<1>. DEFINE v == task.view  r == view[v]
<1>1. v \in Views /\ r \in ViewAt(position) /\ position \in Nat BY Shapes DEF ViewsAt
<1>2. open /\ r.live /\ ~r.failed BY DEF Current, InOrder, Tokens, IsCurrent
<1>3. CASE ~r.based BY <1>1, <1>3 DEF Sent, Told, Blank, Kept
<1>4. CASE r.based
  <2>1. r.payload = Shown(log, v, r.covered) BY <1>1, <1>2, <1>4 DEF Sent, Told, States, Serves
  <2>2. r.covered \in 0..position BY <1>1 DEF ViewAt
  <2>3. 1..r.covered \subseteq 1..position BY <1>1, <2>2
  <2>. QED BY <2>1, <2>3 DEF Kept, Shown
<1>. QED BY <1>3, <1>4

LEMMA FailSent == ASSUME Types, InOrder, Sent, Fail, Current(task), UNCHANGED store PROVE Sent'
<1>. DEFINE v == task.view  vs == [view EXCEPT ![v].failed = TRUE]
<1>1. v \in Views /\ view \in ViewsAt(position) /\ vs \in ViewsAt(position) BY Shapes, Marked
<1>2. vs[v].failed /\ vs[v].based = view[v].based /\ vs[v].payload = view[v].payload
      /\ \A u \in Views : u # v => vs[u] = view[u]
  BY <1>1 DEF ViewsAt, ViewAt
<1>3. Right(v, vs[v]) BY <1>1, <1>2 DEF Right, States, Complete, Serves, Blank, Sent, Told
<1>4. Leave(task, vs, tail) /\ (open' => open) BY DEF Fail, End, Send
<1>. HIDE DEF vs
<1>5. OnlyOf(v, vs) BY <1>1, Touching DEF Touched, vs
<1>. QED BY <1>1, <1>3, <1>4, <1>5, LeaveSent

LEMMA BeginSent == ASSUME Types, InOrder, Sent, Begin PROVE Sent'
<1>. DEFINE job == Head(tail)  v == job.view  clean == [view EXCEPT ![v].dirty = FALSE]
            given == [clean EXCEPT ![v].failed = TRUE]
<1>1. view \in ViewsAt(position) /\ tail \in Seq(Jobs) /\ tail # <<>> /\ UNCHANGED store /\ (open' => open)
  BY Shapes DEF Begin, Send
<1>2. job \in Jobs BY <1>1, HeadTailProperties
<1>3. v \in Views /\ view[v] \in ViewAt(position) BY <1>1, <1>2 DEF Jobs, ViewsAt
<1>4. clean \in ViewsAt(position) /\ given \in ViewsAt(position) BY <1>1, <1>3, Marked
<1>5. Touched(v, clean) /\ Touched(v, given) BY <1>3, Touching
<1>6. Current(job) => Awaited(view[v])
  BY <1>1, QueueShortened DEF InOrder, Tokens, Current, IsCurrent
<1>7. Told(log, watch, open, v, view[v], task) BY <1>3 DEF Sent
<1>8. clean[v] = [view[v] EXCEPT !.dirty = FALSE]
      /\ given[v] = [view[v] EXCEPT !.dirty = FALSE, !.failed = TRUE]
  BY <1>1, <1>3 DEF ViewsAt, ViewAt
<1>. HIDE DEF clean, given
<1>9. CASE ~Current(job) \/ ~view[v].dirty
  <2>1. ~Current(job) BY <1>6, <1>9 DEF Awaited
  <2>2. Leave(job, view, Tail(tail)) BY <1>9 DEF Begin, Skip
  <2>. QED BY <1>1, <1>3, <2>1, <2>2, LeaveSent
<1>10. CASE Current(job) /\ view[v].dirty
  <2>1. open BY <1>10 DEF Current
  <2>2. CASE Pending(v) /\ Skip(clean, job)
    <3>1. Hold(watch, v) BY <2>2 DEF Pending, Hold
    <3>2. Right(v, clean[v])
      BY <1>3, <1>7, <1>8, <2>1, <3>1 DEF Right, Told, States, Complete, Blank, Serves, ViewAt
    <3>. QED BY <1>1, <1>3, <1>4, <1>5, <1>10, <2>2, <3>2, LeaveSent DEF Touched, Skip
  <2>3. CASE Skip(given, job)
    <3>1. Right(v, given[v])
      BY <1>3, <1>7, <1>8, <2>1 DEF Right, Told, States, Complete, Blank, Serves, ViewAt
    <3>. QED BY <1>1, <1>3, <1>4, <1>5, <1>10, <2>3, <3>1, LeaveSent DEF Touched, Skip
  <2>4. CASE Attempt(1, job, clean)
    <3>1. task'.pc = "read" /\ view' = clean BY <2>4, Shapes DEF Attempt, TasksAt
    <3>2. clean[v].running BY <1>3, <1>6, <1>8, <1>10 DEF Awaited, ViewAt
    <3>3. ~Rests(v, clean[v], task') BY <3>1, <3>2 DEF Rests
    <3>4. Told(log, watch, open', v, clean[v], task')
      BY <1>1, <1>3, <1>7, <1>8, <3>3 DEF Told, States, Serves, Blank, ViewAt
    <3>5. \A u \in Views : Told(log, watch, open', u, clean[u], task')
      <4>. TAKE u \in Views
      <4>1. CASE u # v
        <5>1. clean[u] = view[u] BY <1>5, <4>1 DEF Touched, OnlyOf
        <5>2. Rests(u, view[u], task') => Rests(u, view[u], task) BY <3>1 DEF Rests
        <5>. QED BY <1>1, <5>1, <5>2, ToldStill DEF Sent
      <4>. QED BY <3>4, <4>1
    <3>. QED BY <1>1, <3>1, <3>5 DEF Sent, Reads, Writes, store
  <2>. QED BY <1>10, <2>2, <2>3, <2>4 DEF Begin, clean, given
<1>. QED BY <1>9, <1>10

LEMMA ReadSent ==
  ASSUME Types, InOrder, Sent, ReadRoom \/ ReadListedRoom \/ ReadOtherRooms PROVE Sent'
<1>1. /\ UNCHANGED <<store, view, open>> /\ task'.view = task.view /\ task'.epoch = task.epoch
      /\ task'.pc \in {"others", "judge"}
  BY Shapes DEF ReadRoom, ReadListedRoom, ReadOtherRooms, TasksAt
<1>2. Reads(log, task')
  <2>1. CASE ReadRoom
    <3>1. task'.pc = "judge" /\ task'.view = "room" /\ task'.got = Content("room", position)
      BY <2>1, Shapes DEF ReadRoom, TasksAt
    <3>. QED BY <3>1 DEF Reads, Content, Shown, position
  <2>2. CASE ReadListedRoom
    <3>1. task'.pc = "others" /\ task'.view = "rooms" /\ task'.got = Only(1..position, {"metadata", "delete"})
      BY <2>2, Shapes DEF ReadListedRoom, TasksAt
    <3>. QED BY <3>1 DEF Reads, Only, Listing, position
  <2>3. CASE ReadOtherRooms
    <3>1. /\ task'.pc = "judge" /\ task'.moved = task.moved /\ task'.view = task.view
          /\ task'.got = task.got \cup Only(1..position, {"other"}) /\ task.pc = "others"
      BY <2>3, Shapes DEF ReadOtherRooms, TasksAt
    <3>2. task.view = "rooms" /\ (~task.moved => task.got = Listing(log)) BY <3>1 DEF Sent, Reads
    <3>3. Listing(log) \cup Only(1..position, {"other"}) = Shown(log, "rooms", Len(log))
      BY DEF Listing, Only, Shown, Relevant, position
    <3>. QED BY <3>1, <3>2, <3>3 DEF Reads
  <2>. QED BY <2>1, <2>2, <2>3
<1>. QED BY <1>1, <1>2, SentGoesOn

LEMMA JudgeSent == ASSUME Types, InOrder, Sent, Judge PROVE Sent'
<1>. DEFINE v == task.view  r == view[v]  clean == [view EXCEPT ![v].dirty = FALSE]
            sure == [clean EXCEPT ![v].covered = position]
<1>1. v \in Views /\ view \in ViewsAt(position) /\ r \in ViewAt(position) /\ position \in Nat
      /\ position = Len(log) /\ log' = log /\ watch' = watch /\ UNCHANGED store /\ task.pc = "judge"
  BY Shapes DEF ViewsAt, position, Judge, store
<1>2. clean \in ViewsAt(position) BY <1>1, Marked
<1>3. sure \in ViewsAt(position)
  <2>1. position \in 0..position BY <1>1
  <2>. HIDE DEF clean
  <2>. QED BY <1>2, <2>1 DEF ViewsAt, ViewAt
<1>4. Touched(v, clean) /\ Touched(v, sure) BY <1>1, Touching
<1>5. clean[v] = [r EXCEPT !.dirty = FALSE] /\ sure[v] = [r EXCEPT !.dirty = FALSE, !.covered = position]
  BY <1>1 DEF ViewsAt, ViewAt
<1>6. Told(log, watch, open, v, r, task) BY <1>1 DEF Sent
<1>7. ~task.moved => task.got = Shown(log, v, position) BY <1>1 DEF Sent, Reads
<1>. HIDE DEF clean, sure
<1>8. CASE ~Current(task)
  <2>1. Leave(task, view, tail) /\ open' = open BY <1>8 DEF Judge, End
  <2>. QED BY <1>1, <1>8, <2>1, LeaveSent
<1>9. ASSUME Current(task), NEW vs \in {view, clean}, Pending(v), End(vs), open' = open PROVE Sent'
  <2>1. Hold(watch, v) /\ open BY <1>9 DEF Pending, Hold, Current
  <2>2. Right(v, vs[v])
    BY <1>1, <1>5, <1>6, <1>9, <2>1 DEF Right, Told, States, Complete, Blank, Serves, ViewAt
  <2>3. vs = view \/ OnlyOf(v, vs) BY <1>4 DEF Touched
  <2>. QED BY <1>1, <1>2, <1>9, <2>2, <2>3, LeaveSent DEF End
<1>10. ASSUME Current(task), Attempt(task.attempt + 1, task, view), open' = open PROVE Sent'
  <2>1. task'.pc = "read" /\ task'.view = v /\ task'.epoch = task.epoch /\ view' = view
    BY <1>10, Shapes DEF Attempt, TasksAt
  <2>. QED BY <1>1, <1>10, <2>1, SentGoesOn DEF Reads
<1>11. ASSUME Current(task), ~task.moved, r.based, task.got = r.payload, End(sure), open' = open PROVE Sent'
  <2>1. Right(v, sure[v])
    BY <1>1, <1>5, <1>7, <1>11 DEF Right, States, Complete, Blank, Serves, ViewAt
  <2>. QED BY <1>1, <1>3, <1>4, <1>11, <2>1, LeaveSent DEF Touched, End
<1>12. ASSUME Current(task), ~task.moved, view' = clean, open' = open,
              \E frames \in Writings(task.got) :
                task' = [task EXCEPT !.pc = "write", !.attempt = 0, !.frames = frames, !.source = position]
       PROVE  Sent'
  <2>1. /\ task'.pc = "write" /\ task'.view = v /\ task'.epoch = task.epoch
        /\ task'.got = task.got /\ task'.source = position
    BY <1>12, Shapes DEF TasksAt
  <2>2. open /\ r.running /\ r.epoch = task.epoch
    BY <1>1, <1>12 DEF Current, InOrder, Tokens, Holds, IsCurrent
  <2>3. Told(log, watch, open, v, clean[v], task')
    <3>1. clean[v].running /\ ~Rests(v, clean[v], task') BY <1>1, <1>5, <2>1, <2>2 DEF Rests, ViewAt
    <3>. QED BY <1>1, <1>5, <1>6, <3>1 DEF Told, States, Serves, Blank, ViewAt
  <2>4. \A u \in Views : Told(log, watch, open, u, clean[u], task')
    <3>. TAKE u \in Views
    <3>1. CASE u # v
      <4>1. clean[u] = view[u] BY <1>4, <3>1 DEF Touched, OnlyOf
      <4>2. Rests(u, view[u], task') => Rests(u, view[u], task) BY <2>1 DEF Rests
      <4>. QED BY <4>1, <4>2, ToldStill DEF Sent
    <3>. QED BY <2>3, <3>1
  <2>5. Writes(log, watch, open, clean[v], task')
    <3>1. Kept(log, r.payload) \subseteq task.got BY <1>1, <1>7, <1>12, PayloadIsKept
    <3>2. clean[v].payload = r.payload BY <1>1, <1>5 DEF ViewAt
    <3>. QED BY <1>1, <1>7, <1>12, <2>1, <3>1, <3>2 DEF Writes
  <2>6. Reads(log, task') BY <2>1 DEF Reads
  <2>. QED BY <1>1, <1>12, <2>1, <2>4, <2>5, <2>6 DEF Sent
<1>13. CASE Current(task)
  <2>1. \/ Attempt(task.attempt + 1, task, view) /\ open' = open
        \/ \E vs \in {view, clean} : Pending(v) /\ End(vs) /\ open' = open
        \/ Fail
        \/ ~task.moved /\ r.based /\ task.got = r.payload /\ End(sure) /\ open' = open
        \/ /\ ~task.moved /\ view' = clean /\ open' = open
           /\ \E frames \in Writings(task.got) :
                task' = [task EXCEPT !.pc = "write", !.attempt = 0, !.frames = frames, !.source = position]
    BY <1>13 DEF Judge, clean, sure
  <2>. QED BY <1>1, <1>9, <1>10, <1>11, <1>12, <1>13, <2>1, FailSent
<1>. QED BY <1>8, <1>13

LEMMA FlushedSent == ASSUME Types, InOrder, Sent, Flushed PROVE Sent'
<1>. DEFINE v == task.view  r == view[v]  c == Certified(r, task.got, task.source)
            vs == [view EXCEPT ![v] = c]
<1>1. v \in Views /\ view \in ViewsAt(position) /\ r \in ViewAt(position) /\ position = Len(log)
      /\ log' = log /\ watch' = watch /\ UNCHANGED store /\ task.pc = "flush"
  BY Shapes DEF ViewsAt, position, Flushed, store
<1>2. vs \in ViewsAt(position) BY <1>1, CertifiedType DEF Types, StreamTypes
<1>3. vs[v] = c /\ OnlyOf(v, vs)
  <2>1. OnlyOf(v, vs) BY <1>1, Touching DEF Touched
  <2>2. \A x : [view EXCEPT ![v] = x][v] = x BY <1>1 DEF ViewsAt
  <2>3. vs[v] = c BY <2>2
  <2>. QED BY <2>1, <2>3
<1>4. /\ c.payload = task.got /\ c.based /\ c.live = r.live /\ c.failed = r.failed /\ c.dirty = r.dirty
      /\ c.covered = (IF r.dirty THEN task.source ELSE position) /\ c.running = r.running
  BY <1>1 DEF Certified, ViewAt
<1>. HIDE DEF c, vs
<1>5. CASE task.frames # <<>>
  <2>1. task' = [task EXCEPT !.pc = "write"] /\ UNCHANGED <<open, view>> BY <1>5 DEF Flushed
  <2>2. /\ task'.pc = "write" /\ task'.view = v /\ task'.epoch = task.epoch /\ task'.got = task.got
        /\ task'.source = task.source
    BY <2>1, Shapes DEF TasksAt
  <2>. QED BY <1>1, <2>1, <2>2, SentGoesOn DEF Reads
<1>6. CASE task.frames = <<>> /\ ~Current(task)
  <2>1. Leave(task, view, tail) /\ open' = open BY <1>6 DEF Flushed, End
  <2>. QED BY <1>1, <1>6, <2>1, LeaveSent
<1>7. CASE task.frames = <<>> /\ Current(task) /\ Pending(v)
  <2>1. Leave(task, view, tail) /\ open' = open BY <1>7 DEF Flushed, End
  <2>2. Right(v, view[v])
    BY <1>1, <1>7 DEF Right, Sent, Told, States, Complete, Current, Pending, Hold
  <2>. QED BY <1>1, <1>7, <2>1, <2>2, LeaveSent
<1>8. CASE task.frames = <<>> /\ Current(task) /\ ~Pending(v)
  <2>1. open /\ r.live /\ r.epoch = task.epoch BY <1>8 DEF Current
  <2>2. task.got = Shown(log, v, task.source) /\ (~r.dirty => task.got = Shown(log, v, position))
    BY <1>1, <1>8, <2>1 DEF Sent, Writes, Pending, Hold
  <2>3. Right(v, c) BY <1>1, <1>4, <2>2 DEF Right, States, Complete, Blank
  <2>4. Settle(task.got, task.source) BY <1>8 DEF Flushed
  <2>5. CASE r.based
    <3>1. Leave(task, vs, tail) /\ open' = open BY <2>4, <2>5 DEF Settle, End, vs, c
    <3>. QED BY <1>1, <1>2, <1>3, <1>8, <2>3, <3>1, LeaveSent
  <2>6. CASE ~r.based
    <3>1. view' = vs /\ (open' => open)
          /\ task' = [task EXCEPT !.pc = "ready", !.got = {}, !.source = NoSource]
      BY <2>4, <2>6 DEF Settle, Send, vs, c
    <3>2. task'.pc = "ready" /\ task'.view = v BY <3>1, Shapes DEF TasksAt
    <3>3. \A u \in Views : Told(log, watch, open', u, vs[u], task')
      <4>. TAKE u \in Views
      <4>1. CASE u = v BY <1>3, <2>3, <4>1 DEF Right, Told
      <4>2. CASE u # v
        <5>1. vs[u] = view[u] BY <1>3, <4>2 DEF OnlyOf
        <5>2. Rests(u, view[u], task') => Rests(u, view[u], task) BY <3>2, <4>2 DEF Rests
        <5>. QED BY <3>1, <5>1, <5>2, ToldStill DEF Sent
      <4>. QED BY <4>1, <4>2
    <3>. QED BY <1>1, <3>1, <3>2, <3>3 DEF Sent, Reads, Writes
  <2>. QED BY <2>5, <2>6
<1>. QED BY <1>5, <1>6, <1>7, <1>8

LEMMA ReadySent == ASSUME Types, InOrder, Sent, ReadyFlushed PROVE Sent'
<1>. DEFINE v == task.view  vs == [view EXCEPT ![v].ready = TRUE]
<1>1. v \in Views /\ view \in ViewsAt(position) /\ vs \in ViewsAt(position) /\ view[v] \in ViewAt(position)
      /\ UNCHANGED store /\ open' = open /\ task.pc = "ready"
  BY Shapes, Marked DEF ReadyFlushed, ViewsAt
<1>2. Touched(v, vs) BY <1>1, Touching
<1>3. vs[v] = [view[v] EXCEPT !.ready = TRUE] BY <1>1 DEF ViewsAt
<1>. HIDE DEF vs
<1>4. CASE Current(task)
  <2>1. Leave(task, vs, tail) BY <1>4 DEF ReadyFlushed, End, vs
  <2>2. open /\ Rests(v, view[v], task) BY <1>1, <1>4 DEF Current, Rests
  <2>3. Right(v, vs[v])
    BY <1>1, <1>3, <2>2 DEF Sent, Told, Right, States, Complete, Blank, Serves, ViewAt
  <2>. QED BY <1>1, <1>2, <1>4, <2>1, <2>3, LeaveSent DEF Touched
<1>5. CASE ~Current(task)
  <2>1. Leave(task, view, tail) BY <1>5 DEF ReadyFlushed, End
  <2>. QED BY <1>1, <1>5, <2>1, LeaveSent
<1>. QED BY <1>4, <1>5

LEMMA RefreshSent == ASSUME Types, InOrder, Sent, Refresh \/ Coverage PROVE Sent'
<1>1. CASE ListingFails
  <2>1. CASE ~Current(task)
    <3>1. Leave(task, view, tail) /\ open' = open /\ UNCHANGED store BY <1>1, <2>1 DEF ListingFails, End
    <3>. QED BY <2>1, <3>1, Shapes, LeaveSent
  <2>. QED BY <1>1, <2>1, FailSent DEF ListingFails
<1>2. CASE Write
  <2>1. CASE ~Current(task)
    <3>1. Leave(task, view, tail) /\ open' = open /\ UNCHANGED store BY <1>2, <2>1 DEF Write, End
    <3>. QED BY <2>1, <3>1, Shapes, LeaveSent
  <2>2. CASE Current(task)
    <3>1. UNCHANGED <<store, view>> /\ (open' => open) BY <1>2, <2>2 DEF Write, Send
    <3>2. /\ task'.pc = "flush" /\ task'.view = task.view /\ task'.epoch = task.epoch /\ task'.got = task.got
          /\ task'.source = task.source /\ task.pc = "write"
      BY <1>2, <2>2, Shapes DEF Write, TasksAt
    <3>. QED BY <3>1, <3>2, SentGoesOn DEF Reads
  <2>. QED BY <2>1, <2>2
<1>3. CASE Coverage
  <2>1. UNCHANGED <<store, view, task>> /\ (open' => open) BY <1>3 DEF Coverage, Send
  <2>2. \A u \in Views : Told(log, watch, open', u, view[u], task) BY <2>1, ToldStill DEF Sent
  <2>. QED BY <2>1, <2>2 DEF Sent, Reads, Writes, store
<1>. QED BY <1>1, <1>2, <1>3, BeginSent, ReadSent, JudgeSent, FlushedSent, ReadySent DEF Refresh

LEMMA SentStep == ASSUME Types, InOrder, Sent, [Next]_vars PROVE Sent'
<1>1. CASE UNCHANGED <<log, watch, open, view, task>> BY <1>1 DEF Sent
<1>2. CASE UNCHANGED vars BY <1>1, <1>2 DEF vars, stream, store
<1>3. CASE \E k \in Kinds \ {"health"} : Commit(k) BY <1>3, PublishSent DEF Commit, Types, StoreTypes
<1>4. CASE \E w \in {"ok", "pending", "failed"} : SetResourceHealth(w)
  BY <1>4, PublishSent DEF SetResourceHealth, Kinds
<1>5. CASE Refresh \/ Coverage BY <1>5, RefreshSent
<1>6. CASE Connect BY <1>6, ClosedSent DEF Connect
<1>7. CASE Drop \/ Ended BY <1>7, ClosedSent, LoseClosed DEF Drop, Ended
<1>8. CASE Receive BY <1>1, <1>8, ClosedSent, LoseClosed DEF Receive, store
<1>9. CASE \E v \in Views : Retry(v) BY <1>1, <1>9 DEF Retry, stream, store
<1>10. CASE \E p \in posts : Serve(p)
  <2>1. PICK p \in posts : Serve(p) BY <1>10
  <2>2. posts \subseteq Posts BY DEF Types, SessionTypes, SessionsAt, Here
  <2>3. p.view \in Views /\ p.epoch \in Nat BY <2>2 DEF Posts
  <2>4. Register(p.view, p.epoch) \/ Remove(p.view, p.epoch) BY <2>1 DEF Serve
  <2>. QED BY <2>3, <2>4, BindingSent
<1>11. CASE Poll BY <1>1, <1>11 DEF Poll, PollTail, PollHead, PollAnswers, stream, store
<1>12. CASE WatchRoom \/ LeaveRoom \/ Show BY <1>1, <1>12 DEF WatchRoom, LeaveRoom, Show, stream, store
<1>13. CASE Hide BY <1>13, ClosedSent DEF Hide
<1>. QED BY <1>2, <1>3, <1>4, <1>5, <1>6, <1>7, <1>8, <1>9, <1>10, <1>11, <1>12, <1>13 DEF Next

LEMMA SentInit == Init => Sent
<1>. SUFFICES ASSUME Init PROVE Sent OBVIOUS
<1>1. task = Idle /\ Idle.pc = "idle" /\ ~open /\ \A v \in Views : view[v] = Off BY DEF Init, Idle
<1>. QED BY <1>1 DEF Sent, Told, Reads, Writes, Blank, Off

(* A view never states a position whose commits it has not all sent, however commits fall    *)
(* between its reads, its writes and their flush (publish, scheduleRefresh and certify of    *)
(* resource-views.ts).                                                                       *)
THEOREM CoveredIsSentAlways == Spec => []CoveredIsSent
<1>1. Init => Types /\ InOrder /\ Sent BY TypesInit, InOrderInit, SentInit
<1>2. Types /\ InOrder /\ Sent /\ [Next]_vars => (Types /\ InOrder /\ Sent)'
  BY TypesStep, InOrderStep, SentStep
<1>3. Sent => CoveredIsSent BY SentStates
<1>. QED BY <1>1, <1>2, <1>3, PTL DEF Spec

-----------------------------------------------------------------------------
(* The frames of a projection, and what the session makes of them. *)
Whole(lg, v, commits) == \E p \in 0..Len(lg) : commits = Shown(lg, v, p)
Wholes(lg, s) ==
  \A v \in Views : s.binding[v].live /\ s.binding[v].whole => Whole(lg, v, s.binding[v].pending)

(* Nothing written, registered or removed is newer than what was asked for. *)
Fenced(fn, s) == \A v \in Views : fn[v] <= s.asked[v]
FrameOK(lg, fn, f) ==
  /\ f.epoch <= fn[f.view]
  /\ f.kind = "snapshot" => Whole(lg, f.view, f.content)
  /\ f.kind \in {"part", "update", "page"} => f.view = "room"
Frames(lg, w, fn) == \A i \in 1..Len(w) : FrameOK(lg, fn, w[i])

(* A page completes the part or the update written before it, which the session has either *)
(* taken up already or finds last before the page.                                         *)
Starts(f, commits) ==
  /\ f.kind \in {"part", "update"}
  /\ commits = IF f.kind = "part" THEN f.content ELSE f.content \cup f.after
Before(w, e, n) == {i \in 1..n : w[i].view = "room" /\ w[i].epoch = e}
Follows(lg, w, b, e, n, content) ==
  \/ /\ Before(w, e, n) = {}
     /\ b.live /\ b.epoch = e => Whole(lg, "room", b.pending \cup content)
  \/ \E i \in Before(w, e, n) :
       /\ \A j \in Before(w, e, n) : j <= i
       /\ \E commits : Starts(w[i], commits) /\ Whole(lg, "room", commits \cup content)
Paged(lg, w, b) ==
  \A i \in 1..Len(w) : w[i].kind = "page" => Follows(lg, w, b, w[i].epoch, i - 1, w[i].content)

(* What a refresh has still to write. *)
Rest(lg, t, r) == Kept(lg, t.got) \ Kept(lg, r.payload)
Paging(lg, w, b, o, vs, t) ==
  t.pc \in {"write", "flush"} /\ IsCurrent(t, o, vs) =>
    /\ t.frames \in {<<"snapshot">>, <<"update", "page">>, <<"part", "page">>, <<"page">>, <<>>}
    /\ t.frames \in {<<"update", "page">>, <<"part", "page">>, <<"page">>} => t.view = "room"
    /\ t.frames = <<"part", "page">> => ~vs["room"].based
    /\ t.frames = <<"page">> => Follows(lg, w, b, t.epoch, Len(w), Rest(lg, t, vs["room"]))

Coherent ==
  /\ AskedOf(Here) /\ Wholes(log, Here) /\ Fenced(fence, Here)
  /\ Frames(log, wire, fence) /\ Paged(log, wire, binding["room"])
  /\ Paging(log, wire, binding["room"], open, view, task)

LEMMA CoherentStream == Coherent => StreamIsASnapshot
BY DEF Coherent, Wholes, Whole, Shown, Content, Here, StreamIsASnapshot, position

LEMMA WholeGrows ==
  ASSUME NEW lg \in Seq(Kinds), NEW k \in Kinds, NEW v, NEW commits, Whole(lg, v, commits)
  PROVE  Whole(Append(lg, k), v, commits)
<1>1. /\ Len(Append(lg, k)) = Len(lg) + 1 /\ Len(lg) \in Nat
      /\ \A p \in 0..Len(lg) : Shown(Append(lg, k), v, p) = Shown(lg, v, p)
  BY Grown
<1>2. 0..Len(lg) \subseteq 0..Len(lg) + 1 BY <1>1
<1>. QED BY <1>1, <1>2 DEF Whole

LEMMA FollowsLonger ==
  ASSUME NEW lg, NEW n, NEW w \in Seq(FramesAt(n)), NEW fs \in Seq(FramesAt(n)), NEW b, NEW e,
         NEW m \in 0..Len(w), NEW content, Follows(lg, w, b, e, m, content)
  PROVE  Follows(lg, w \o fs, b, e, m, content)
<1>1. \A i \in 1..Len(w) : (w \o fs)[i] = w[i] BY ConcatProperties
<1>2. Len(w) \in Nat BY LenProperties
<1>3. 1..m \subseteq 1..Len(w) BY <1>2
<1>4. Before(w \o fs, e, m) = Before(w, e, m) BY <1>1, <1>3 DEF Before
<1>5. \A i \in Before(w, e, m) : (w \o fs)[i] = w[i] BY <1>1, <1>3 DEF Before
<1>. QED BY <1>4, <1>5 DEF Follows

(* Frames of another view or epoch come between a part and its page. *)
LEMMA FollowsOthers ==
  ASSUME NEW lg, NEW n, NEW w \in Seq(FramesAt(n)), NEW fs \in Seq(FramesAt(n)), NEW b, NEW e,
         \A i \in 1..Len(fs) : fs[i].view # "room",
         NEW content, Follows(lg, w, b, e, Len(w), content)
  PROVE  Follows(lg, w \o fs, b, e, Len(w \o fs), content)
<1>1. /\ Len(w \o fs) = Len(w) + Len(fs) /\ Len(w) \in Nat /\ Len(fs) \in Nat
      /\ \A i \in 1..Len(w \o fs) : (w \o fs)[i] = IF i <= Len(w) THEN w[i] ELSE fs[i - Len(w)]
  BY ConcatProperties, LenProperties
<1>2. \A i \in 1..Len(w) + Len(fs) : i \in 1..Len(w) \/ (i - Len(w) \in 1..Len(fs) /\ ~(i <= Len(w)))
  BY <1>1
<1>3. 1..Len(w) \subseteq 1..Len(w) + Len(fs) /\ \A i \in 1..Len(w) : i <= Len(w) BY <1>1
<1>4. Before(w \o fs, e, Len(w \o fs)) = Before(w, e, Len(w)) BY <1>1, <1>2, <1>3 DEF Before
<1>5. \A i \in Before(w, e, Len(w)) : (w \o fs)[i] = w[i] BY <1>1, <1>3 DEF Before
<1>. QED BY <1>4, <1>5 DEF Follows

LEMMA FollowsStart ==
  ASSUME NEW lg, NEW n, NEW w \in Seq(FramesAt(n)), NEW f \in FramesAt(n), NEW b, NEW e, f.view = "room",
         f.epoch = e, NEW commits, Starts(f, commits), NEW content, Whole(lg, "room", commits \cup content)
  PROVE  Follows(lg, w \o <<f>>, b, e, Len(w \o <<f>>), content)
<1>1. /\ Len(w \o <<f>>) = Len(w) + 1 /\ Len(w) \in Nat
      /\ (w \o <<f>>)[Len(w) + 1] = f
  BY AppendIsConcat, AppendProperties, LenProperties
<1>2. Len(w) + 1 \in Before(w \o <<f>>, e, Len(w) + 1) /\ \A j \in Before(w \o <<f>>, e, Len(w) + 1) : j <= Len(w) + 1
  BY <1>1 DEF Before
<1>. QED BY <1>1, <1>2 DEF Follows

(* The session has read a frame: what is left starts where it stands now. *)
LEMMA FollowsRead ==
  ASSUME NEW lg, NEW n, NEW w \in Seq(FramesAt(n)), w # <<>>, NEW b, NEW e, NEW m \in 1..Len(w),
         NEW content, Follows(lg, w, b, e, m, content), NEW c,
         c.live /\ c.epoch = e =>
            IF Head(w).view = "room" /\ Head(w).epoch = e
            THEN \A commits : Starts(Head(w), commits) => c.pending = commits
            ELSE b.live /\ b.epoch = e /\ c.pending = b.pending
  PROVE  Follows(lg, Tail(w), c, e, m - 1, content)
<1>1. /\ Len(Tail(w)) = Len(w) - 1 /\ Len(w) \in Nat /\ Head(w) = w[1]
      /\ \A i \in 1..Len(Tail(w)) : Tail(w)[i] = w[i + 1]
  BY HeadTailProperties, LenProperties
<1>2. m \in Nat /\ m >= 1 /\ m <= Len(w) /\ 1 \in 1..m BY <1>1
<1>3. \A i \in 1..m - 1 : Tail(w)[i] = w[i + 1] /\ i + 1 \in 1..m BY <1>1, <1>2
<1>4. \A i \in Before(w, e, m) : i \in 1..m /\ (i = 1 \/ i - 1 \in Before(Tail(w), e, m - 1))
  <2>. TAKE i \in Before(w, e, m)
  <2>1. i \in 1..m /\ w[i].view = "room" /\ w[i].epoch = e BY DEF Before
  <2>2. i # 1 => i - 1 \in 1..m - 1 /\ (i - 1) + 1 = i BY <1>2, <2>1
  <2>. QED BY <1>3, <2>1, <2>2 DEF Before
<1>5. \A i \in Before(Tail(w), e, m - 1) : i \in 1..m - 1 /\ i + 1 \in Before(w, e, m)
  BY <1>3 DEF Before
<1>6. CASE Before(w, e, m) = {} /\ (b.live /\ b.epoch = e => Whole(lg, "room", b.pending \cup content))
  <2>1. ~(w[1].view = "room" /\ w[1].epoch = e) BY <1>2, <1>6 DEF Before
  <2>2. Before(Tail(w), e, m - 1) = {} BY <1>5, <1>6
  <2>. QED BY <1>1, <1>6, <2>1, <2>2 DEF Follows
<1>7. ASSUME NEW i \in Before(w, e, m), \A j \in Before(w, e, m) : j <= i,
             NEW commits, Starts(w[i], commits), Whole(lg, "room", commits \cup content)
      PROVE  Follows(lg, Tail(w), c, e, m - 1, content)
  <2>1. CASE i = 1
    <3>1. Before(Tail(w), e, m - 1) = {} BY <1>2, <1>5, <1>7, <2>1
    <3>2. Head(w).view = "room" /\ Head(w).epoch = e BY <1>1, <2>1 DEF Before
    <3>3. c.live /\ c.epoch = e => c.pending = commits BY <1>1, <1>7, <2>1, <3>2
    <3>. QED BY <1>7, <3>1, <3>3 DEF Follows
  <2>2. CASE i # 1
    <3>1. i - 1 \in Before(Tail(w), e, m - 1) BY <1>4, <2>2
    <3>2. i - 1 \in 1..m - 1 /\ (i - 1) + 1 = i BY <1>2, <1>4, <2>2
    <3>3. Tail(w)[i - 1] = w[i] BY <1>3, <3>2
    <3>4. \A j \in Before(Tail(w), e, m - 1) : j <= i - 1
      <4>. TAKE j \in Before(Tail(w), e, m - 1)
      <4>1. j \in 1..m - 1 /\ j + 1 <= i BY <1>5, <1>7
      <4>. QED BY <1>2, <3>2, <4>1
    <3>. QED BY <1>7, <3>1, <3>3, <3>4 DEF Follows
  <2>. QED BY <2>1, <2>2
<1>. QED BY <1>6, <1>7 DEF Follows

LEMMA FollowsKept ==
  ASSUME NEW lg, NEW w, NEW b, NEW e, NEW m, NEW content, Follows(lg, w, b, e, m, content), NEW c,
         c.live /\ c.epoch = e => b.live /\ b.epoch = e /\ c.pending = b.pending
  PROVE  Follows(lg, w, c, e, m, content)
BY DEF Follows

LEMMA FollowsGrows ==
  ASSUME NEW lg \in Seq(Kinds), NEW k \in Kinds, NEW w, NEW b, NEW e, NEW m, NEW content,
         Follows(lg, w, b, e, m, content)
  PROVE  Follows(Append(lg, k), w, b, e, m, content)
<1>1. \A commits : Whole(lg, "room", commits) => Whole(Append(lg, k), "room", commits) BY WholeGrows
<1>. QED BY <1>1 DEF Follows

(* What is on the wire stays in order when frames that are in order follow it. *)
LEMMA FramesAdded ==
  ASSUME NEW lg, NEW n, NEW w \in Seq(FramesAt(n)), NEW fs \in Seq(FramesAt(n)), NEW fn, NEW b,
         Frames(lg, w, fn), Paged(lg, w, b),
         \A i \in 1..Len(fs) : FrameOK(lg, fn, fs[i]),
         \A i \in 1..Len(fs) : fs[i].kind = "page" =>
            i = 1 /\ Follows(lg, w, b, fs[1].epoch, Len(w), fs[1].content)
  PROVE  Frames(lg, w \o fs, fn) /\ Paged(lg, w \o fs, b)
<1>1. /\ Len(w \o fs) = Len(w) + Len(fs) /\ Len(w) \in Nat /\ Len(fs) \in Nat
      /\ \A i \in 1..Len(w \o fs) : (w \o fs)[i] = IF i <= Len(w) THEN w[i] ELSE fs[i - Len(w)]
  BY ConcatProperties, LenProperties
<1>2. \A i \in 1..Len(w) + Len(fs) :
        (i \in 1..Len(w) /\ i <= Len(w) /\ i - 1 \in 0..Len(w))
        \/ (i - Len(w) \in 1..Len(fs) /\ ~(i <= Len(w)) /\ (i - Len(w) = 1 => i - 1 = Len(w)))
  BY <1>1
<1>3. Frames(lg, w \o fs, fn) BY <1>1, <1>2 DEF Frames
<1>4. ASSUME NEW i \in 1..Len(w \o fs), (w \o fs)[i].kind = "page"
      PROVE  Follows(lg, w \o fs, b, (w \o fs)[i].epoch, i - 1, (w \o fs)[i].content)
  <2>1. CASE i \in 1..Len(w) /\ i <= Len(w) /\ i - 1 \in 0..Len(w)
    <3>1. (w \o fs)[i] = w[i] BY <1>1, <2>1
    <3>2. Follows(lg, w, b, w[i].epoch, i - 1, w[i].content) BY <1>4, <2>1, <3>1 DEF Paged
    <3>. QED BY <2>1, <3>1, <3>2, FollowsLonger
  <2>2. CASE i - Len(w) \in 1..Len(fs) /\ ~(i <= Len(w)) /\ (i - Len(w) = 1 => i - 1 = Len(w))
    <3>1. (w \o fs)[i] = fs[i - Len(w)] BY <1>1, <2>2
    <3>2. i - Len(w) = 1 BY <1>4, <2>2, <3>1
    <3>3. Follows(lg, w, b, fs[1].epoch, Len(w), fs[1].content) BY <1>4, <2>2, <3>1, <3>2
    <3>4. Len(w) \in 0..Len(w) BY <1>1
    <3>. QED BY <2>2, <3>1, <3>2, <3>3, <3>4, FollowsLonger
  <2>. QED BY <1>1, <1>2, <2>1, <2>2
<1>. QED BY <1>3, <1>4 DEF Paged

(* The session changes, and takes nothing from the stream. *)
Together(lg, w, fn, o, vs, t, s) ==
  /\ AskedOf(s) /\ Wholes(lg, s) /\ Fenced(fn, s)
  /\ Frames(lg, w, fn) /\ Paged(lg, w, s.binding["room"])
  /\ Paging(lg, w, s.binding["room"], o, vs, t)

LEMMA TogetherIs == Coherent <=> Together(log, wire, fence, open, view, task, Here)
BY DEF Coherent, Together, Here

LEMMA KeptTogether ==
  ASSUME NEW n \in Nat, NEW s \in SessionsAt(n), NEW u \in SessionsAt(n), Keeps(s, u),
         NEW lg, NEW w \in Seq(FramesAt(n)), NEW fn \in [Views -> Nat], NEW o, NEW vs, NEW t,
         t.pc \in {"write", "flush"} => t.epoch \in Nat /\ t.epoch <= fn[t.view],
         Together(lg, w, fn, o, vs, t, s)
  PROVE  Together(lg, w, fn, o, vs, t, u)
<1>1. "room" \in Views BY DEF Views
<1>2. AskedOf(u) /\ Rebinds(s, u) BY DEF Together, Keeps
<1>3. \A v \in Views : s.asked[v] \in Nat /\ u.asked[v] \in Nat /\ fn[v] \in Nat BY DEF SessionsAt
<1>4. Wholes(lg, u) BY <1>2 DEF Together, Wholes, Rebinds, Alike
<1>5. Fenced(fn, u) BY <1>2, <1>3 DEF Together, Fenced, Rebinds
<1>6. ASSUME NEW e \in Nat, e <= fn["room"], NEW m, NEW content,
             Follows(lg, w, s.binding["room"], e, m, content)
      PROVE  Follows(lg, w, u.binding["room"], e, m, content)
  <2>1. fn["room"] <= s.asked["room"] BY <1>1 DEF Together, Fenced
  <2>2. u.binding["room"].live => u.binding["room"].epoch = u.asked["room"] BY <1>1, <1>2 DEF AskedOf
  <2>3. u.binding["room"].live /\ u.binding["room"].epoch = e => Alike(s.binding["room"], u.binding["room"])
    BY <1>1, <1>2, <1>3, <1>6, <2>1, <2>2 DEF Rebinds
  <2>. QED BY <1>6, <2>3, FollowsKept DEF Alike
<1>7. \A i \in 1..Len(w) : w[i] \in FramesAt(n) BY ElementOfSeq
<1>8. \A i \in 1..Len(w) : w[i].epoch \in Nat BY <1>7 DEF FramesAt
<1>9. Paged(lg, w, u.binding["room"])
  <2>. SUFFICES ASSUME NEW i \in 1..Len(w), w[i].kind = "page"
                PROVE  Follows(lg, w, u.binding["room"], w[i].epoch, i - 1, w[i].content)
    BY DEF Paged
  <2>1. Follows(lg, w, s.binding["room"], w[i].epoch, i - 1, w[i].content) BY DEF Together, Paged
  <2>2. w[i].epoch <= fn["room"] BY DEF Together, Frames, FrameOK
  <2>. QED BY <1>6, <1>8, <2>1, <2>2
<1>10. Paging(lg, w, u.binding["room"], o, vs, t) BY <1>6 DEF Together, Paging
<1>. QED BY <1>2, <1>4, <1>5, <1>9, <1>10 DEF Together

LEMMA TaskFenced ==
  ASSUME Types, InOrder
  PROVE  task.pc \in {"write", "flush"} => task.epoch \in Nat /\ task.epoch <= fence[task.view]
BY Shapes DEF TasksAt, InOrder, Tokens, Holds

LEMMA SessionMoves ==
  ASSUME Types, InOrder, Coherent, UNCHANGED <<store, stream>>, NEW s \in SessionsAt(position), Becomes(s),
         Keeps(Here, s)
  PROVE  Coherent'
<1>1. Here' = s BY DEF Becomes, Here, SessionsAt
<1>2. UNCHANGED <<log, wire, fence, open, view, task>> BY DEF store, stream
<1>3. Together(log, wire, fence, open, view, task, s)
  <2>1. Together(log, wire, fence, open, view, task, Here) BY TogetherIs
  <2>2. /\ Here \in SessionsAt(position) /\ wire \in Seq(FramesAt(position)) /\ fence \in [Views -> Nat]
        /\ position \in Nat
    BY HereIs, Shapes
  <2>. QED BY <2>1, <2>2, TaskFenced, KeptTogether
<1>4. Together(log', wire', fence', open', view', task', Here') BY <1>1, <1>2, <1>3
<1>. QED BY <1>4 DEF Coherent, Together, Here

LEMMA ClosedCoherent ==
  ASSUME Types, NEW o, Closed(o), UNCHANGED store, NEW s \in SessionsAt(position), Becomes(s), AskedOf(s),
         \A v \in Views : s.binding[v].live => ~s.binding[v].whole
  PROVE  Coherent'
<1>1. Here' = s /\ binding' = s.binding BY DEF Becomes, Here, SessionsAt
<1>2. wire' = <<>> /\ Len(<<>>) = 0 /\ task' = Idle /\ Idle.pc = "idle" /\ \A v \in Views : fence'[v] = 0
  BY EmptySeq, Shapes DEF Closed
<1>3. \A v \in Views : s.asked[v] \in Nat BY DEF SessionsAt
<1>4. Frames(log', wire', fence') /\ Paged(log', wire', binding'["room"]) BY <1>2 DEF Frames, Paged
<1>5. Paging(log', wire', binding'["room"], open', view', task') BY <1>2 DEF Paging
<1>6. Fenced(fence', s) BY <1>2, <1>3 DEF Fenced
<1>. QED BY <1>1, <1>4, <1>5, <1>6 DEF Coherent, Wholes

LEMMA PublishCoherent ==
  ASSUME Types, InOrder, Coherent, NEW k \in Kinds, NEW w, Publish(k, w), UNCHANGED session
  PROVE  Coherent'
<1>. DEFINE b == binding["room"]  r == view["room"]  r2 == Heard("room", k, w, position + 1)
            f == Frame("room", "resync", {}, {}, NoSource)  lost == r2.failed /\ ~r.failed
<1>1. /\ log' = Append(log, k) /\ fence' = fence /\ (open' => open)
      /\ view' = [u \in Views |-> Heard(u, k, w, position + 1)]
      /\ task' = [task EXCEPT !.moved = @ \/ Moves(k, w)]
      /\ wire' = IF open THEN wire \o (IF lost THEN <<f>> ELSE <<>>) ELSE wire
  BY DEF Publish, Send, Views
<1>2. /\ task'.pc = task.pc /\ task'.view = task.view /\ task'.epoch = task.epoch /\ task'.got = task.got
      /\ task'.frames = task.frames
  BY <1>1, Shapes DEF TasksAt
<1>3. /\ log \in Seq(Kinds) /\ position = Len(log) /\ "room" \in Views /\ position \in Nat
      /\ wire \in Seq(FramesAt(position)) /\ task.view \in Views /\ view \in ViewsAt(position)
  BY Shapes DEF Types, StoreTypes, position, Views
<1>4. f \in FramesAt(position) /\ f.kind = "resync" /\ f.epoch = r.epoch /\ f.view = "room"
  <2>1. "resync" \in FrameKinds /\ {} \in SUBSET (1..position) /\ NoSource \in -1..position
    BY <1>3 DEF FrameKinds, NoSource
  <2>2. f \in FramesAt(position) BY <1>3, <2>1, FrameType
  <2>. QED BY <2>2 DEF Frame
<1>5. \A u \in Views : LET h == Heard(u, k, w, position + 1) IN
        /\ h.epoch = view[u].epoch /\ (h.live => view[u].live) /\ h.based = view[u].based
        /\ h.payload = view[u].payload /\ (open /\ h.live => h.failed = view[u].failed)
  <2>. TAKE u \in Views
  <2>1. view[u] \in ViewAt(position) BY <1>3 DEF ViewsAt
  <2>. QED BY <2>1 DEF Heard, Schedule, ViewAt
<1>6. \A v, commits : Whole(log, v, commits) => Whole(log', v, commits) BY <1>1, <1>3, WholeGrows
<1>7. \A x : FrameOK(log, fence, x) => FrameOK(log', fence, x) BY <1>6 DEF FrameOK
<1>8. Frames(log', wire, fence) BY <1>7 DEF Coherent, Frames
<1>9. Paged(log', wire, b) BY <1>1, <1>3, FollowsGrows DEF Coherent, Paged
<1>. HIDE DEF f, r2, lost
<1>10. Frames(log', wire', fence) /\ Paged(log', wire', b)
  <2>1. CASE wire' = wire BY <1>8, <1>9, <2>1
  <2>2. CASE wire' = wire \o <<f>>
    <3>1. <<f>> \in Seq(FramesAt(position)) /\ Len(<<f>>) = 1 /\ <<f>>[1] = f BY <1>4
    <3>2. r.epoch <= fence["room"] BY <1>3 DEF InOrder, Tokens, Bound
    <3>3. FrameOK(log', fence, f) BY <1>4, <3>2 DEF FrameOK
    <3>4. \A i \in 1..Len(<<f>>) : <<f>>[i] = f /\ <<f>>[i].kind # "page" BY <1>4, <3>1
    <3>. HIDE DEF b
    <3>5. Frames(log', wire \o <<f>>, fence) /\ Paged(log', wire \o <<f>>, b)
      BY <1>3, <1>8, <1>9, <3>1, <3>3, <3>4, FramesAdded
    <3>. QED BY <1>1, <2>2, <3>5
  <2>. QED BY <1>1, <1>3, <2>1, <2>2, ConcatEmptySeq
<1>11. Paging(log', wire', b, open', view', task')
  <2>. SUFFICES ASSUME task.pc \in {"write", "flush"}, IsCurrent(task', open', view')
                PROVE  /\ task.frames \in {<<"snapshot">>, <<"update", "page">>, <<"part", "page">>, <<"page">>, <<>>}
                       /\ task.frames \in {<<"update", "page">>, <<"part", "page">>, <<"page">>} => task.view = "room"
                       /\ task.frames = <<"part", "page">> => ~view'["room"].based
                       /\ task.frames = <<"page">> =>
                            Follows(log', wire', b, task.epoch, Len(wire'), Rest(log', task', view'["room"]))
    BY <1>2 DEF Paging
  <2>1. IsCurrent(task, open, view)
    <3>1. open' /\ view'[task.view].live /\ view'[task.view].epoch = task.epoch BY <1>2 DEF IsCurrent
    <3>2. view'[task.view] = Heard(task.view, k, w, position + 1) BY <1>1, <1>3
    <3>. QED BY <1>1, <1>3, <1>5, <3>1, <3>2 DEF IsCurrent
  <2>2. view'["room"] = r2 /\ r2.based = r.based /\ r2.payload = r.payload BY <1>1, <1>3, <1>5 DEF r2
  <2>3. /\ task.frames \in {<<"snapshot">>, <<"update", "page">>, <<"part", "page">>, <<"page">>, <<>>}
        /\ task.frames \in {<<"update", "page">>, <<"part", "page">>, <<"page">>} => task.view = "room"
        /\ task.frames = <<"part", "page">> => ~r.based
        /\ task.frames = <<"page">> => Follows(log, wire, b, task.epoch, Len(wire), Rest(log, task, r))
    BY <2>1 DEF Coherent, Paging
  <2>4. ASSUME task.frames = <<"page">>
        PROVE  Follows(log', wire', b, task.epoch, Len(wire'), Rest(log', task', view'["room"]))
    <3>1. task.view = "room" BY <2>3, <2>4
    <3>2. open /\ r2.live BY <1>1, <1>2, <2>2, <3>1 DEF IsCurrent
    <3>3. ~lost BY <1>3, <1>5, <3>2 DEF r2, lost
    <3>4. wire' = wire BY <1>1, <1>3, <3>3, ConcatEmptySeq
    <3>5. task.got \in SUBSET (1..position) /\ r.payload \in SUBSET (1..position)
      BY <1>3, Shapes DEF ViewsAt, ViewAt
    <3>6. Rest(log', task', view'["room"]) = Rest(log, task, r)
      <4>1. \A commits \in SUBSET (1..position) : Kept(log', commits) = Kept(log, commits)
        BY <1>1, <1>3, Grown
      <4>2. Kept(log', task.got) = Kept(log, task.got) /\ Kept(log', r.payload) = Kept(log, r.payload)
        BY <3>5, <4>1
      <4>. QED BY <1>2, <2>2, <4>2 DEF Rest
    <3>7. Follows(log, wire, b, task.epoch, Len(wire), Rest(log, task, r)) BY <2>3, <2>4
    <3>. HIDE DEF b, r
    <3>. QED BY <1>1, <1>3, <3>4, <3>6, <3>7, FollowsGrows
  <2>. QED BY <2>2, <2>3, <2>4
<1>12. UNCHANGED <<binding, asked, posts, poll, wanted, page>> /\ Here' = Here BY DEF session, Here
<1>13. Wholes(log', Here) BY <1>6 DEF Coherent, Wholes
<1>. QED BY <1>1, <1>10, <1>11, <1>12, <1>13 DEF Coherent

(* A frame that carries nothing of the resource. *)
LEMMA SignalOK ==
  ASSUME Types, InOrder, NEW v \in Views, NEW kind \in {"ready", "coverage", "resync"},
         NEW source \in -1..position
  PROVE  LET f == Frame(v, kind, {}, {}, source) IN
         f \in FramesAt(position) /\ FrameOK(log, fence, f) /\ f.kind # "page" /\ f.view = v
<1>. DEFINE f == Frame(v, kind, {}, {}, source)
<1>1. kind \in FrameKinds /\ {} \in SUBSET (1..position) BY DEF FrameKinds
<1>2. f \in FramesAt(position) BY <1>1, FrameType
<1>3. f.kind = kind /\ f.view = v /\ f.epoch = view[v].epoch BY DEF Frame
<1>4. view[v].epoch <= fence[v] BY DEF InOrder, Tokens, Bound
<1>. HIDE DEF f
<1>5. f \in FramesAt(position) /\ FrameOK(log, fence, f) /\ f.kind # "page" /\ f.view = v
  BY <1>2, <1>3, <1>4 DEF FrameOK
<1>. QED BY <1>5 DEF f

LEMMA SignalsAdded ==
  ASSUME Types, Coherent, NEW fs \in Seq(FramesAt(position)),
         \A i \in 1..Len(fs) : FrameOK(log, fence, fs[i]) /\ fs[i].kind # "page",
         NEW w, w = wire \/ w = wire \o fs
  PROVE  Frames(log, w, fence) /\ Paged(log, w, binding["room"])
<1>1. Frames(log, wire, fence) /\ Paged(log, wire, binding["room"]) /\ wire \in Seq(FramesAt(position))
  BY Shapes DEF Coherent
<1>2. Frames(log, wire \o fs, fence) /\ Paged(log, wire \o fs, binding["room"]) BY <1>1, FramesAdded
<1>. QED BY <1>1, <1>2

LEMMA StreamMoves ==
  ASSUME Types, Coherent, UNCHANGED <<store, fence, session>>,
         Frames(log, wire', fence) /\ Paged(log, wire', binding["room"]),
         Paging(log, wire', binding["room"], open', view', task')
  PROVE  Coherent'
<1>1. Here' = Here /\ binding' = binding /\ log' = log BY DEF session, Here, store
<1>. QED BY <1>1 DEF Coherent

(* The refresh writes nothing further for now. *)
LEMMA SignalCoherent ==
  ASSUME Types, InOrder, Coherent, UNCHANGED <<store, fence, session>>, task'.pc \notin {"write", "flush"},
         \/ wire' = wire
         \/ \E v \in Views, kind \in {"ready", "resync"}, source \in -1..position :
              wire' = wire \o <<Frame(v, kind, {}, {}, source)>>
  PROVE  Coherent'
<1>1. Frames(log, wire', fence) /\ Paged(log, wire', binding["room"])
  <2>1. CASE wire' = wire BY <2>1 DEF Coherent
  <2>2. ASSUME NEW v \in Views, NEW kind \in {"ready", "resync"}, NEW source \in -1..position,
               wire' = wire \o <<Frame(v, kind, {}, {}, source)>>
        PROVE  Frames(log, wire', fence) /\ Paged(log, wire', binding["room"])
    <3>. DEFINE f == Frame(v, kind, {}, {}, source)
    <3>1. f \in FramesAt(position) /\ FrameOK(log, fence, f) /\ f.kind # "page" BY SignalOK
    <3>. HIDE DEF f
    <3>2. <<f>> \in Seq(FramesAt(position)) /\ \A i \in 1..Len(<<f>>) : <<f>>[i] = f BY <3>1
    <3>3. wire' = wire \o <<f>> BY <2>2 DEF f
    <3>. QED BY <3>1, <3>2, <3>3, SignalsAdded
  <2>. QED BY <2>1, <2>2
<1>2. Paging(log, wire', binding["room"], open', view', task') BY DEF Paging
<1>. QED BY <1>1, <1>2, StreamMoves

(* A refresh that is over, read on or only about to write. *)
LEMMA QuietCoherent ==
  ASSUME Types, InOrder, Coherent, UNCHANGED session,
         Begin \/ ReadRoom \/ ReadListedRoom \/ ReadOtherRooms \/ ListingFails \/ ReadyFlushed
  PROVE  Coherent'
<1>1. UNCHANGED <<store, fence>>
  BY DEF Begin, ReadRoom, ReadListedRoom, ReadOtherRooms, ListingFails, ReadyFlushed
<1>2. "resync" \in {"ready", "resync"} /\ NoSource \in -1..position BY Shapes DEF NoSource
<1>3. CASE Begin
  <2>. DEFINE job == Head(tail)  v == job.view
  <2>1. job \in Jobs BY <1>3, Shapes, HeadTailProperties DEF Begin
  <2>2. v \in Views BY <2>1 DEF Jobs
  <2>3. task'.pc \in {"idle", "read"} BY <1>3, Shapes DEF Begin, Skip, Leave, Attempt, TasksAt
  <2>4. wire' = wire \/ wire' = wire \o <<Frame(v, "resync", {}, {}, NoSource)>>
    BY <1>3 DEF Begin, Send
  <2>. QED BY <1>1, <1>2, <2>2, <2>3, <2>4, SignalCoherent
<1>4. CASE ReadRoom \/ ReadListedRoom \/ ReadOtherRooms
  <2>1. task'.pc \in {"others", "judge"} /\ wire' = wire
    BY <1>4, Shapes DEF ReadRoom, ReadListedRoom, ReadOtherRooms, TasksAt
  <2>. QED BY <1>1, <2>1, SignalCoherent
<1>5. CASE ListingFails
  <2>1. wire' = wire \/ wire' = wire \o <<Frame(task.view, "resync", {}, {}, NoSource)>>
    BY <1>5 DEF ListingFails, Fail, Send
  <2>2. task'.pc = "idle" BY <1>5, Shapes DEF ListingFails, Fail, End, Leave
  <2>. QED BY <1>1, <1>2, <2>1, <2>2, Shapes, SignalCoherent
<1>6. CASE ReadyFlushed
  <2>1. task'.pc = "idle" /\ wire' = wire BY <1>6, Shapes DEF ReadyFlushed, End, Leave
  <2>. QED BY <1>1, <2>1, SignalCoherent
<1>. QED BY <1>3, <1>4, <1>5, <1>6

LEMMA JudgeCoherent == ASSUME Types, InOrder, Coherent, Judge, UNCHANGED session PROVE Coherent'
<1>. DEFINE v == task.view  clean == [view EXCEPT ![v].dirty = FALSE]
<1>1. UNCHANGED <<store, fence>> /\ v \in Views /\ view \in ViewsAt(position) BY Shapes DEF Judge
<1>2. "resync" \in {"ready", "resync"} /\ NoSource \in -1..position BY Shapes DEF NoSource
<1>3. ASSUME Fail PROVE Coherent'
  <2>1. (wire' = wire \/ wire' = wire \o <<Frame(v, "resync", {}, {}, NoSource)>>) /\ task'.pc = "idle"
    BY <1>3, Shapes DEF Fail, Send, End, Leave
  <2>. QED BY <1>1, <1>2, <2>1, SignalCoherent
<1>4. ASSUME wire' = wire, NEW vs, End(vs) PROVE Coherent'
  <2>1. task'.pc = "idle" BY <1>4, Shapes DEF End, Leave
  <2>. QED BY <1>1, <1>4, <2>1, SignalCoherent
<1>5. ASSUME wire' = wire, Attempt(task.attempt + 1, task, view) PROVE Coherent'
  <2>1. task'.pc = "read" BY <1>5, Shapes DEF Attempt, TasksAt
  <2>. QED BY <1>1, <1>5, <2>1, SignalCoherent
<1>6. ASSUME NEW frames \in Writings(task.got), wire' = wire, view' = clean,
             task' = [task EXCEPT !.pc = "write", !.attempt = 0, !.frames = frames, !.source = position]
      PROVE  Coherent'
  <2>1. task'.frames = frames /\ task'.view = v BY <1>6, Shapes DEF TasksAt
  <2>2. /\ frames \in {<<"snapshot">>, <<"update", "page">>, <<"part", "page">>}
        /\ frames # <<"snapshot">> => v = "room"
        /\ frames = <<"part", "page">> => ~view["room"].based
    <3>1. <<"part", "page">> # <<"snapshot">> /\ <<"update", "page">> # <<"snapshot">>
          /\ <<"part", "page">> # <<"update", "page">>
      OBVIOUS
    <3>. QED BY <1>6, <3>1 DEF Writings
  <2>3. view'["room"].based = view["room"].based BY <1>1, <1>6 DEF ViewsAt, ViewAt, Views
  <2>4. <<"page">> \notin {<<"snapshot">>, <<"update", "page">>, <<"part", "page">>} OBVIOUS
  <2>5. Paging(log, wire', binding["room"], open', view', task')
    BY <2>1, <2>2, <2>3, <2>4 DEF Paging
  <2>6. Frames(log, wire', fence) /\ Paged(log, wire', binding["room"]) BY <1>6 DEF Coherent
  <2>. QED BY <1>1, <2>5, <2>6, StreamMoves
<1>. QED BY <1>3, <1>4, <1>5, <1>6 DEF Judge

LEMMA HistoryIs == \A commits : History(commits) = Kept(log, commits)
BY DEF History, Only, Kept

LEMMA WriteCoherent == ASSUME Types, InOrder, Sent, Coherent, Write, UNCHANGED session PROVE Coherent'
<1>. DEFINE v == task.view  r == view[v]  b == binding["room"]  kind == Head(task.frames)
            source == IF Len(task.frames) = 1 /\ ~Pending(v) THEN task.source ELSE NoSource
            f == Frame(v, kind, Carried(kind), History(r.payload), source)
<1>1. /\ UNCHANGED <<store, fence>> /\ v \in Views /\ view \in ViewsAt(position) /\ task.pc = "write"
      /\ task.frames # <<>> /\ r \in ViewAt(position) /\ wire \in Seq(FramesAt(position)) /\ position = Len(log)
      /\ position \in Nat /\ task.source \in 0..position
  <2>1. task.source \in -1..position /\ task.source # NoSource BY Shapes DEF Write, Types, StreamTypes
  <2>. QED BY <2>1, Shapes DEF Write, Types, StreamTypes, ViewsAt, position, NoSource
<1>2. CASE ~Current(task)
  <2>1. task'.pc = "idle" /\ wire' = wire BY <1>2, Shapes DEF Write, End, Leave
  <2>. QED BY <1>1, <2>1, SignalCoherent
<1>3. CASE Current(task)
  <2>1. open /\ r.live /\ r.epoch = task.epoch /\ IsCurrent(task, open, view) BY <1>3 DEF Current, IsCurrent
  <2>2. Send(<<f>>) /\ view' = view /\ task' = [task EXCEPT !.pc = "flush", !.frames = Tail(@)]
    BY <1>3 DEF Write
  <2>3. /\ task.frames \in {<<"snapshot">>, <<"update", "page">>, <<"part", "page">>, <<"page">>}
        /\ task.frames # <<"snapshot">> => v = "room"
        /\ task.frames = <<"part", "page">> => ~view["room"].based
        /\ task.frames = <<"page">> => Follows(log, wire, b, task.epoch, Len(wire), Rest(log, task, view["room"]))
    BY <1>1, <2>1 DEF Coherent, Paging
  <2>4. /\ task.got = Shown(log, v, task.source) /\ Kept(log, r.payload) \subseteq task.got
        /\ ~r.based => r.payload = {}
    BY <1>1, <2>1 DEF Sent, Writes, Told, Blank
  <2>5. Whole(log, v, task.got) BY <1>1, <2>4 DEF Whole
  <2>6. kind \in {"snapshot", "part", "update", "page"} /\ Tail(task.frames) \in {<<>>, <<"page">>}
        /\ (kind # "snapshot" => v = "room")
        /\ (kind = "page" => task.frames = <<"page">>)
        /\ (kind = "part" => task.frames = <<"part", "page">>)
        /\ (Tail(task.frames) = <<"page">> => kind \in {"part", "update"})
    <3>1. \A x : Head(<<x>>) = x /\ Tail(<<x>>) = <<>> OBVIOUS
    <3>2. \A x, y : Head(<<x, y>>) = x /\ Tail(<<x, y>>) = <<y>> OBVIOUS
    <3>3. <<>> # <<"page">> OBVIOUS
    <3>4. /\ task.frames = <<"snapshot">> => kind = "snapshot" /\ Tail(task.frames) = <<>>
          /\ task.frames = <<"page">> => kind = "page" /\ Tail(task.frames) = <<>>
          /\ task.frames = <<"update", "page">> => kind = "update" /\ Tail(task.frames) = <<"page">>
          /\ task.frames = <<"part", "page">> => kind = "part" /\ Tail(task.frames) = <<"page">>
      BY <3>1, <3>2
    <3>. HIDE DEF kind
    <3>. QED BY <2>3, <3>3, <3>4
  <2>7. f \in FramesAt(position)
    <3>1. kind \in FrameKinds BY <2>6 DEF FrameKinds
    <3>2. Carried(kind) \in SUBSET (1..position) /\ History(r.payload) \in SUBSET (1..position)
      <4>1. r.payload \in SUBSET (1..position) /\ task.got \in SUBSET (1..position) BY <1>1, Shapes DEF ViewAt
      <4>. QED BY <4>1, OnlyType DEF Carried
    <3>3. source \in -1..position BY <1>1 DEF NoSource
    <3>. HIDE DEF kind, source
    <3>. QED BY <1>1, <3>1, <3>2, <3>3, FrameType
  <2>8. /\ f.view = v /\ f.kind = kind /\ f.epoch = task.epoch
        /\ f.content = Carried(kind) /\ f.after = Kept(log, r.payload)
    BY <2>1, HistoryIs DEF Frame
  <2>9. /\ kind = "snapshot" => f.content = task.got
        /\ kind = "page" => f.content = Kept(log, task.got) \ Kept(log, view["room"].payload)
        /\ kind \in {"part", "update"} => f.content = task.got \ Kept(log, task.got)
    BY <2>6, <2>8, HistoryIs DEF Carried
  <2>10. wire' = wire \o <<f>> /\ task'.pc = "flush" /\ task'.view = v /\ task'.epoch = task.epoch
         /\ task'.got = task.got /\ task'.frames = Tail(task.frames)
    BY <2>1, <2>2, Shapes DEF Send, TasksAt
  <2>. HIDE DEF f, kind, source, b
  <2>11. Frames(log, wire', fence) /\ Paged(log, wire', b)
    <3>1. <<f>> \in Seq(FramesAt(position)) /\ Len(<<f>>) = 1 /\ <<f>>[1] = f
          /\ \A i \in 1..Len(<<f>>) : i = 1 /\ <<f>>[i] = f
      BY <2>7
    <3>2. r.epoch <= fence[v] BY <1>1 DEF InOrder, Tokens, Bound
    <3>3. FrameOK(log, fence, f) BY <2>1, <2>5, <2>6, <2>8, <2>9, <3>2 DEF FrameOK
    <3>4. kind = "page" => Follows(log, wire, b, f.epoch, Len(wire), f.content)
      BY <2>3, <2>6, <2>8, <2>9 DEF Rest
    <3>5. Frames(log, wire, fence) /\ Paged(log, wire, b) BY DEF Coherent, b
    <3>. QED BY <1>1, <2>8, <2>10, <3>1, <3>3, <3>4, <3>5, FramesAdded
  <2>12. ASSUME Tail(task.frames) = <<"page">>
         PROVE  v = "room" /\ Follows(log, wire', b, task.epoch, Len(wire'), Rest(log, task', view["room"]))
    <3>1. kind \in {"part", "update"} /\ v = "room" BY <2>6, <2>12
    <3>. DEFINE commits == IF kind = "part" THEN f.content ELSE f.content \cup f.after
    <3>2. Starts(f, commits) BY <2>8, <3>1 DEF Starts
    <3>3. commits \cup Rest(log, task', view["room"]) = task.got
      <4>1. Rest(log, task', view["room"]) = Kept(log, task.got) \ Kept(log, r.payload) BY <2>10, <3>1 DEF Rest
      <4>2. Kept(log, task.got) \subseteq task.got BY DEF Kept
      <4>3. kind = "part" => Kept(log, r.payload) = {} BY <2>3, <2>4, <2>6, <3>1 DEF Kept
      <4>. QED BY <2>4, <2>8, <2>9, <3>1, <4>1, <4>2, <4>3
    <3>. HIDE DEF commits
    <3>. QED BY <1>1, <2>5, <2>7, <2>8, <2>10, <3>1, <3>2, <3>3, FollowsStart
  <2>13. <<>> # <<"page">> /\ <<>> # <<"part", "page">> /\ <<"page">> # <<"part", "page">>
         /\ <<>> # <<"update", "page">>
    OBVIOUS
  <2>14. Paging(log, wire', b, open', view', task') BY <2>2, <2>6, <2>10, <2>12, <2>13 DEF Paging
  <2>. QED BY <1>1, <2>11, <2>14, StreamMoves DEF b
<1>. QED BY <1>2, <1>3

LEMMA FlushedCoherent == ASSUME Types, InOrder, Coherent, Flushed, UNCHANGED session PROVE Coherent'
<1>. DEFINE v == task.view
<1>1. UNCHANGED <<store, fence>> /\ v \in Views /\ task.pc = "flush" BY Shapes DEF Flushed
<1>2. CASE task' = [task EXCEPT !.pc = "write"] /\ UNCHANGED <<open, view, tail, wire>>
  <2>1. /\ task'.pc = "write" /\ task'.view = v /\ task'.epoch = task.epoch /\ task'.got = task.got
        /\ task'.frames = task.frames
    BY <1>2, Shapes DEF TasksAt
  <2>2. Paging(log, wire', binding["room"], open', view', task')
    BY <1>1, <1>2, <2>1 DEF Coherent, Paging, IsCurrent, Rest
  <2>3. Frames(log, wire', fence) /\ Paged(log, wire', binding["room"]) BY <1>2 DEF Coherent
  <2>. QED BY <1>1, <2>2, <2>3, StreamMoves
<1>3. ASSUME NEW vs, End(vs), wire' = wire PROVE Coherent'
  <2>1. task'.pc = "idle" BY <1>3, Shapes DEF End, Leave
  <2>. QED BY <1>1, <1>3, <2>1, SignalCoherent
<1>4. CASE Settle(task.got, task.source)
  <2>. DEFINE r == Certified(view[v], task.got, task.source)
  <2>1. CASE view[v].based BY <1>3, <1>4, <2>1 DEF Settle
  <2>2. CASE ~view[v].based
    <3>1. /\ task' = [task EXCEPT !.pc = "ready", !.got = {}, !.source = NoSource]
          /\ Send(<<Frame(v, "ready", {}, {}, r.covered)>>)
      BY <1>4, <2>2 DEF Settle
    <3>2. r.covered \in -1..position
      <4>1. position \in -1..position /\ task.source \in -1..position /\ view[v] \in ViewAt(position)
        BY Shapes DEF ViewsAt
      <4>. QED BY <4>1 DEF Certified, ViewAt
    <3>3. task'.pc = "ready" BY <3>1, Shapes DEF TasksAt
    <3>. HIDE DEF r
    <3>4. wire' = wire \/ wire' = wire \o <<Frame(v, "ready", {}, {}, r.covered)>> BY <3>1 DEF Send
    <3>5. "ready" \in {"ready", "resync"} OBVIOUS
    <3>. QED BY <1>1, <3>2, <3>3, <3>4, <3>5, SignalCoherent
  <2>. QED BY <2>1, <2>2
<1>. QED BY <1>2, <1>3, <1>4 DEF Flushed

LEMMA CoverageCoherent == ASSUME Types, InOrder, Coherent, Coverage, UNCHANGED session PROVE Coherent'
<1>. DEFINE covers(v) == IF Eligible(v) THEN <<Frame(v, "coverage", {}, {}, view[v].covered)>> ELSE <<>>
            fs == covers("rooms") \o covers("room")  b == binding["room"]
<1>1. UNCHANGED <<store, fence, view, task>> /\ Send(fs) /\ (open' => open) BY DEF Coverage, Send
<1>2. "rooms" \in Views /\ "room" \in Views /\ wire \in Seq(FramesAt(position)) BY Shapes DEF Views
<1>3. ASSUME NEW v \in Views
      PROVE  /\ covers(v) \in Seq(FramesAt(position)) /\ Len(covers(v)) \in 0..1
             /\ ~Eligible(v) => covers(v) = <<>>
             /\ \A i \in 1..Len(covers(v)) :
                  FrameOK(log, fence, covers(v)[i]) /\ covers(v)[i].kind # "page" /\ covers(v)[i].view = v
  <2>. DEFINE f == Frame(v, "coverage", {}, {}, view[v].covered)
  <2>1. view[v].covered \in -1..position
    <3>1. view[v] \in ViewAt(position) BY Shapes DEF ViewsAt
    <3>. QED BY <3>1 DEF ViewAt
  <2>2. f \in FramesAt(position) /\ FrameOK(log, fence, f) /\ f.kind # "page" /\ f.view = v
    BY <2>1, SignalOK
  <2>3. covers(v) = (IF Eligible(v) THEN <<f>> ELSE <<>>) OBVIOUS
  <2>. HIDE DEF f, covers
  <2>4. <<f>> \in Seq(FramesAt(position)) /\ Len(<<f>>) = 1 /\ \A i \in 1..Len(<<f>>) : <<f>>[i] = f
        /\ <<>> \in Seq(FramesAt(position)) /\ Len(<<>>) = 0
    BY <2>2, EmptySeq
  <2>. QED BY <2>2, <2>3, <2>4
<1>. HIDE DEF covers
<1>4. /\ fs \in Seq(FramesAt(position)) /\ Len(fs) = Len(covers("rooms")) + Len(covers("room"))
      /\ \A i \in 1..Len(fs) : fs[i] = IF i <= Len(covers("rooms")) THEN covers("rooms")[i]
                                       ELSE covers("room")[i - Len(covers("rooms"))]
  BY <1>2, <1>3, ConcatProperties
<1>5. \A i \in 1..Len(fs) : FrameOK(log, fence, fs[i]) /\ fs[i].kind # "page"
  <2>. TAKE i \in 1..Len(fs)
  <2>1. Len(covers("rooms")) \in Nat /\ Len(covers("room")) \in Nat BY <1>2, <1>3
  <2>2. \/ i \in 1..Len(covers("rooms")) /\ i <= Len(covers("rooms"))
        \/ i - Len(covers("rooms")) \in 1..Len(covers("room")) /\ ~(i <= Len(covers("rooms")))
    BY <1>4, <2>1
  <2>. QED BY <1>2, <1>3, <1>4, <2>2
<1>6. ~Eligible("room") => fs = covers("rooms") BY <1>2, <1>3, ConcatEmptySeq
<1>. HIDE DEF fs
<1>7. wire' = wire \/ wire' = wire \o fs BY <1>1 DEF Send
<1>8. Frames(log, wire', fence) /\ Paged(log, wire', b) BY <1>4, <1>5, <1>7, SignalsAdded
<1>9. ASSUME task.pc \in {"write", "flush"}, IsCurrent(task, open, view), task.frames = <<"page">>
      PROVE  Follows(log, wire', b, task.epoch, Len(wire'), Rest(log, task, view["room"]))
  <2>1. task.view = "room" /\ Follows(log, wire, b, task.epoch, Len(wire), Rest(log, task, view["room"]))
    BY <1>9 DEF Coherent, Paging
  <2>2. view["room"].running BY <1>9, <2>1 DEF InOrder, Tokens, Holds
  <2>3. fs = covers("rooms") BY <1>6, <2>2 DEF Eligible
  <2>4. \A i \in 1..Len(fs) : fs[i].view # "room" BY <1>2, <1>3, <2>3
  <2>. HIDE DEF b
  <2>. QED BY <1>2, <1>4, <1>7, <2>1, <2>4, FollowsOthers
<1>10. Paging(log, wire', b, open', view', task') BY <1>1, <1>9 DEF Coherent, Paging, IsCurrent
<1>. QED BY <1>1, <1>8, <1>10, StreamMoves

LEMMA TogetherThen == Together(log', wire', fence', open', view', task', Here') => Coherent'
BY DEF Coherent, Together, Here

(* The next frame is read: one the session ignores, or one it takes up. *)
LEMMA ReadTogether ==
  ASSUME Types, InOrder, Coherent, wire # <<>>, NEW f, f = Head(wire), NEW b, b = binding[f.view],
         NEW c \in BindingAt(position),
         \/ c = b /\ (~b.live \/ f.epoch < b.epoch)
         \/ b.live /\ ~(f.epoch < b.epoch) /\ ~Refused(b, f) /\ Takes(b, f, c)
  PROVE  Together(log, Tail(wire), fence, open, view, task, [Here EXCEPT !.binding[f.view] = c])
<1>. DEFINE v == f.view  s == [Here EXCEPT !.binding[v] = c]  rest == Tail(wire)
<1>1. /\ wire \in Seq(FramesAt(position)) /\ fence \in [Views -> Nat] /\ f \in FramesAt(position)
      /\ \A u \in Views : binding[u] \in BindingAt(position)
      /\ Here \in SessionsAt(position) /\ Here.binding = binding /\ Here.asked = asked /\ Here.posts = posts
      /\ "room" \in Views /\ position \in Nat
  BY Shapes, HereIs, HeadTailProperties DEF SessionsAt, BindingsAt, Here, Views
<1>2. /\ Len(rest) = Len(wire) - 1 /\ Len(wire) \in Nat /\ Len(wire) >= 1 /\ f = wire[1]
      /\ \A i \in 1..Len(rest) : rest[i] = wire[i + 1] /\ i + 1 \in 1..Len(wire) /\ (i + 1) - 1 = i
      /\ 1 \in 1..Len(wire)
  BY <1>1, HeadTailProperties, LenProperties, EmptySeq
<1>3. v \in Views /\ f.epoch \in Nat /\ f.content \in SUBSET (1..position) /\ f.kind \in FrameKinds
  BY <1>1 DEF FramesAt
<1>4. b \in BindingAt(position) /\ b.epoch \in Nat /\ c.epoch \in Nat BY <1>1, <1>3 DEF BindingAt
<1>5. /\ s.asked = asked /\ s.posts = posts /\ s.binding[v] = c
      /\ \A u \in Views : u # v => s.binding[u] = binding[u]
  BY <1>1, <1>3 DEF SessionsAt, BindingsAt
<1>6. c.live = b.live /\ c.epoch = b.epoch BY DEF Takes
<1>. HIDE DEF s, v, rest
<1>7. AskedOf(s) BY <1>1, <1>3, <1>5, <1>6 DEF Coherent, AskedOf, v
<1>8. Fenced(fence, s) BY <1>1, <1>5 DEF Coherent, Fenced
<1>9. FrameOK(log, fence, f) BY <1>2 DEF Coherent, Frames
<1>10. b.live /\ ~(f.epoch < b.epoch) => f.epoch = b.epoch
  <2>1. f.epoch <= fence[v] /\ fence[v] <= asked[v] /\ (b.live => b.epoch = asked[v])
    BY <1>1, <1>3, <1>9 DEF FrameOK, Coherent, Fenced, AskedOf, v
  <2>2. fence[v] \in Nat BY <1>1, <1>3
  <2>. QED BY <1>3, <1>4, <2>1, <2>2
<1>11. c.live /\ c.whole => Whole(log, v, c.pending)
  <2>. SUFFICES ASSUME c.live, c.whole PROVE Whole(log, v, c.pending) OBVIOUS
  <2>1. b.whole /\ c.pending = b.pending => Whole(log, v, c.pending)
    BY <1>1, <1>3, <1>6 DEF Coherent, Wholes, v
  <2>2. CASE c = b BY <2>1, <2>2
  <2>3. CASE b.live /\ ~(f.epoch < b.epoch) /\ ~Refused(b, f) /\ Takes(b, f, c)
    <3>1. CASE f.kind = "snapshot" BY <1>9, <2>3, <3>1 DEF FrameOK, Takes, v
    <3>2. CASE f.kind = "page"
      <4>1. v = "room" /\ f.epoch = b.epoch /\ b = binding["room"] BY <1>9, <1>10, <2>3, <3>2 DEF FrameOK, v
      <4>2. Follows(log, wire, b, f.epoch, 1 - 1, f.content) BY <1>2, <3>2, <4>1 DEF Coherent, Paged
      <4>3. Before(wire, f.epoch, 1 - 1) = {} BY DEF Before
      <4>4. Whole(log, "room", b.pending \cup f.content) BY <2>3, <4>1, <4>2, <4>3 DEF Follows
      <4>5. c.pending = b.pending \cup f.content BY <2>3, <3>2 DEF Takes
      <4>. QED BY <4>1, <4>4, <4>5
    <3>3. CASE f.kind \in {"part", "update"} BY <2>3, <3>3 DEF Takes
    <3>4. CASE f.kind \in {"ready", "coverage", "resync"}
      <4>1. c.whole = b.whole /\ c.pending = b.pending BY <2>3, <3>4 DEF Takes
      <4>. QED BY <2>1, <4>1
    <3>. QED BY <1>3, <3>1, <3>2, <3>3, <3>4 DEF FrameKinds
  <2>. QED BY <2>2, <2>3
<1>12. Wholes(log, s) BY <1>1, <1>5, <1>11 DEF Coherent, Wholes
<1>13. Frames(log, rest, fence) BY <1>2 DEF Coherent, Frames
<1>14. ASSUME NEW e, NEW m \in 1..Len(wire), NEW content, Follows(log, wire, binding["room"], e, m, content)
       PROVE  Follows(log, rest, s.binding["room"], e, m - 1, content)
  <2>. DEFINE d == s.binding["room"]
  <2>1. d.live /\ d.epoch = e =>
          IF f.view = "room" /\ f.epoch = e
          THEN \A commits : Starts(f, commits) => d.pending = commits
          ELSE binding["room"].live /\ binding["room"].epoch = e /\ d.pending = binding["room"].pending
    <3>. SUFFICES ASSUME d.live, d.epoch = e
                  PROVE  IF f.view = "room" /\ f.epoch = e
                         THEN \A commits : Starts(f, commits) => d.pending = commits
                         ELSE /\ binding["room"].live /\ binding["room"].epoch = e
                              /\ d.pending = binding["room"].pending
      OBVIOUS
    <3>1. CASE v # "room" BY <1>1, <1>5, <3>1 DEF v
    <3>2. CASE v = "room"
      <4>1. d = c /\ b = binding["room"] /\ b.live /\ b.epoch = e BY <1>5, <1>6, <3>2 DEF v
      <4>2. CASE c = b /\ (~b.live \/ f.epoch < b.epoch)
        <5>1. f.epoch # e BY <1>3, <1>4, <4>1, <4>2
        <5>. QED BY <4>1, <4>2, <5>1
      <4>3. CASE b.live /\ ~(f.epoch < b.epoch) /\ ~Refused(b, f) /\ Takes(b, f, c)
        <5>1. f.epoch = e BY <1>10, <4>1, <4>3
        <5>2. f.kind = "part" => c.pending = f.content BY <4>3 DEF Takes
        <5>3. f.kind = "update" => f.after = History(b.pending) /\ c.pending = f.content \cup History(b.pending)
          BY <4>3 DEF Takes, Refused, Continued
        <5>. QED BY <3>2, <4>1, <5>1, <5>2, <5>3 DEF Starts, v
      <4>. QED BY <4>2, <4>3
    <3>. QED BY <3>1, <3>2
  <2>. HIDE DEF d
  <2>2. Follows(log, Tail(wire), d, e, m - 1, content) BY <1>1, <1>14, <2>1, FollowsRead
  <2>. QED BY <2>2 DEF d, rest
<1>15. Paged(log, rest, s.binding["room"])
  <2>. SUFFICES ASSUME NEW i \in 1..Len(rest), rest[i].kind = "page"
                PROVE  Follows(log, rest, s.binding["room"], rest[i].epoch, i - 1, rest[i].content)
    BY DEF Paged
  <2>1. rest[i] = wire[i + 1] /\ i + 1 \in 1..Len(wire) /\ (i + 1) - 1 = i /\ i \in 1..Len(wire)
    BY <1>2
  <2>2. Follows(log, wire, binding["room"], rest[i].epoch, i, rest[i].content)
    BY <2>1 DEF Coherent, Paged
  <2>. QED BY <1>14, <2>1, <2>2
<1>16. Paging(log, rest, s.binding["room"], open, view, task)
  <2>1. Len(wire) \in 1..Len(wire) /\ Len(rest) = Len(wire) - 1 BY <1>2
  <2>. QED BY <1>14, <2>1 DEF Coherent, Paging
<1>. QED BY <1>7, <1>8, <1>12, <1>13, <1>15, <1>16 DEF Together, s, v, rest

(* A session that holds nothing of the stream is lost. *)
LEMMA SilentAsked ==
  ASSUME NEW n \in Nat, NEW s \in SessionsAt(n), NEW t \in SessionsAt(n), t.binding = Silent(s).binding,
         t.posts = {}
  PROVE  AskedOf(t) /\ \A v \in Views : ~t.binding[v].live
<1>1. \A v \in Views : t.binding[v] = Unbound BY DEF Silent, SessionsAt
<1>. QED BY <1>1 DEF AskedOf, Unbound

LEMMA LoseCoherent == ASSUME Types, Lose, UNCHANGED store PROVE Coherent'
<1>. DEFINE q == Silent(Here)  s == Recover(q, "rooms")  t == Recover(s, "room")
<1>1. q \in SessionsAt(position) /\ Here \in SessionsAt(position) /\ "room" \in Views /\ "rooms" \in Views
      /\ position \in Nat
  BY Shapes, HereIs, SilentTypes DEF Views
<1>2. q.posts = {} BY <1>1 DEF Silent, SessionsAt
<1>. HIDE DEF q
<1>3. s \in SessionsAt(position) /\ s.binding = q.binding /\ s.posts = {}
  BY <1>1, <1>2, RecoverTypes DEF Recover, SessionsAt
<1>. HIDE DEF s
<1>4. t \in SessionsAt(position) /\ t.binding = q.binding /\ t.posts = {}
  BY <1>1, <1>3, RecoverTypes DEF Recover, SessionsAt
<1>. HIDE DEF t
<1>5. Becomes(IF wanted THEN t ELSE s) /\ Closed(FALSE) BY DEF Lose, q, s, t
<1>6. \A u \in {s, t} : AskedOf(u) /\ \A v \in Views : ~u.binding[v].live
  BY <1>1, <1>3, <1>4, SilentAsked DEF q
<1>. QED BY <1>3, <1>4, <1>5, <1>6, ClosedCoherent

LEMMA ReceiveCoherent == ASSUME Types, InOrder, Coherent, Receive PROVE Coherent'
<1>. DEFINE f == Head(wire)  b == binding[f.view]
<1>1. UNCHANGED store /\ wire # <<>> /\ f \in FramesAt(position) /\ position \in Nat
      /\ Here \in SessionsAt(position) /\ Here.binding = binding
  BY Shapes, HereIs, HeadTailProperties DEF Receive, Here
<1>2. f.view \in Views /\ b \in BindingAt(position) BY <1>1 DEF FramesAt, SessionsAt, BindingsAt
<1>3. CASE (~b.live \/ f.epoch < b.epoch) /\ wire' = Tail(wire)
           /\ UNCHANGED <<open, view, fence, tail, task, session>>
  <2>1. Together(log, Tail(wire), fence, open, view, task, [Here EXCEPT !.binding[f.view] = b])
    BY <1>1, <1>2, <1>3, ReadTogether
  <2>2. [Here EXCEPT !.binding[f.view] = b] = Here BY <1>1, <1>2 DEF SessionsAt, BindingsAt, Here
  <2>3. Here' = Here /\ log' = log BY <1>1, <1>3 DEF session, Here, store
  <2>. QED BY <1>3, <2>1, <2>2, <2>3, TogetherThen
<1>4. CASE Lose BY <1>1, <1>4, LoseCoherent
<1>5. CASE /\ b.live /\ ~(f.epoch < b.epoch) /\ ~Refused(b, f)
           /\ Becomes(Apply(f)) /\ wire' = Tail(wire)
           /\ UNCHANGED <<open, view, fence, tail, task, mode, turns>>
  <2>1. PICK c \in BindingAt(position) : Takes(b, f, c) /\ Keeps([Here EXCEPT !.binding[f.view] = c], Apply(f))
    BY <1>1, ApplyTakes
  <2>. DEFINE s == [Here EXCEPT !.binding[f.view] = c]  u == Apply(f)
  <2>2. s \in SessionsAt(position) BY <1>1, <1>2, HeldTypes
  <2>3. u \in SessionsAt(position) BY <1>1, ApplyTypes
  <2>4. Together(log, Tail(wire), fence, open, view, task, s) BY <1>1, <1>2, <1>5, <2>1, ReadTogether
  <2>5. Keeps(s, u) BY <2>1
  <2>6. Here' = u /\ log' = log
    <3>. HIDE DEF u
    <3>1. Becomes(u) BY <1>5 DEF u
    <3>. QED BY <1>1, <2>3, <3>1 DEF Becomes, Here, SessionsAt, store
  <2>7. Tail(wire) \in Seq(FramesAt(position)) /\ fence \in [Views -> Nat]
    BY <1>1, Shapes, HeadTailProperties
  <2>. HIDE DEF s, u, f
  <2>8. Together(log, Tail(wire), fence, open, view, task, u)
    BY <1>1, <2>2, <2>3, <2>4, <2>5, <2>7, TaskFenced, KeptTogether
  <2>. QED BY <1>5, <2>6, <2>8, TogetherThen
<1>. QED BY <1>3, <1>4, <1>5 DEF Receive

(* A registration or a removal reaches the daemon: what the view had still to write is void. *)
LEMMA ServeCoherent == ASSUME Types, InOrder, Coherent, NEW p \in posts, Serve(p) PROVE Coherent'
<1>. DEFINE v == p.view
<1>1. /\ v \in Views /\ p.epoch \in Nat /\ fence \in [Views -> Nat] /\ view \in ViewsAt(position)
      /\ "room" \in Views /\ Here \in SessionsAt(position) /\ position \in Nat
  BY Shapes, HereIs, PostTypes DEF Here, Views
<1>2. p.epoch <= asked[v] /\ \A u \in Views : asked[u] \in Nat /\ fence[u] \in Nat
  BY <1>1 DEF Coherent, AskedOf, Here, SessionsAt
<1>3. /\ posts' \subseteq posts /\ UNCHANGED <<log, binding, asked, wire, task, open>>
      /\ \A u \in Views : fence'[u] >= fence[u] /\ fence'[u] <= asked[u]
      /\ \A u \in Views : view'[u] = view[u] \/ ~view'[u].live \/ view'[u].epoch > fence[u]
  <2>1. \A u \in Views : fence[u] <= asked[u] BY DEF Coherent, Fenced, Here
  <2>2. CASE Register(v, p.epoch)
    <3>1. Schedule(Fresh(p.epoch)).epoch = p.epoch BY DEF Schedule, Fresh, Off
    <3>. QED BY <1>1, <1>2, <2>1, <2>2, <3>1 DEF Serve, Register, ViewsAt
  <2>3. CASE Remove(v, p.epoch)
    <3>1. ~Off.live BY DEF Off
    <3>. QED BY <1>1, <1>2, <2>1, <2>3, <3>1 DEF Serve, Remove, ViewsAt
  <2>. QED BY <2>2, <2>3 DEF Serve
<1>4. AskedOf(Here') /\ Wholes(log, Here') /\ Fenced(fence', Here')
  BY <1>3 DEF Coherent, AskedOf, Wholes, Fenced, Here
<1>5. \A i \in 1..Len(wire) : wire[i] \in FramesAt(position) BY Shapes, ElementOfSeq
<1>6. Frames(log, wire, fence')
  <2>. SUFFICES ASSUME NEW i \in 1..Len(wire) PROVE FrameOK(log, fence', wire[i]) BY DEF Frames
  <2>1. wire[i].view \in Views /\ wire[i].epoch \in Nat BY <1>5 DEF FramesAt
  <2>2. FrameOK(log, fence, wire[i]) BY DEF Coherent, Frames
  <2>3. fence'[wire[i].view] >= fence[wire[i].view] /\ fence'[wire[i].view] <= asked[wire[i].view]
    BY <1>3, <2>1
  <2>4. fence'[wire[i].view] \in Nat BY <1>1, <1>2, <2>1 DEF Serve, Register, Remove
  <2>. QED BY <1>2, <2>1, <2>2, <2>3, <2>4 DEF FrameOK
<1>7. Paging(log, wire, binding["room"], open, view', task)
  <2>. SUFFICES ASSUME task.pc \in {"write", "flush"}, IsCurrent(task, open, view')
                PROVE  /\ view'[task.view] = view[task.view] /\ IsCurrent(task, open, view)
    BY DEF Coherent, Paging, Rest
  <2>1. task.view \in Views /\ task.epoch \in Nat /\ task.epoch <= fence[task.view]
    BY Shapes, TaskFenced
  <2>2. view'[task.view] = view[task.view] BY <1>2, <1>3, <2>1 DEF IsCurrent
  <2>. QED BY <2>2 DEF IsCurrent
<1>8. Paged(log, wire, binding["room"]) BY DEF Coherent
<1>. QED BY <1>3, <1>4, <1>6, <1>7, <1>8 DEF Coherent

LEMMA ConnectCoherent == ASSUME Types, Connect PROVE Coherent'
<1>. DEFINE fresh == [Here EXCEPT !.poll = [v \in Views |-> NoPoll], !.binding = [v \in Views |-> Unbound],
                                  !.asked = [v \in Views |-> 0], !.posts = {}]
            rooms == Bind(fresh, "rooms")  both == Bind(rooms, "room")
            Blanks(s) == AskedOf(s) /\ \A v \in Views : s.binding[v].live => ~s.binding[v].whole
<1>1. position \in Nat /\ "room" \in Views /\ "rooms" \in Views /\ Here \in SessionsAt(position)
  BY Shapes, HereIs DEF Views
<1>2. fresh \in SessionsAt(position) /\ fresh.posts = {} /\ fresh.binding = [v \in Views |-> Unbound]
  BY <1>1, SilentTypes DEF SessionsAt
<1>3. Blanks(fresh) BY <1>2 DEF AskedOf, Unbound
<1>4. ASSUME NEW s \in SessionsAt(position), Blanks(s), NEW v \in Views
      PROVE  Bind(s, v) \in SessionsAt(position) /\ Blanks(Bind(s, v))
  <2>1. Keeps(s, Bind(s, v)) /\ Bind(s, v) \in SessionsAt(position) BY <1>1, BindKeeps, BindTypes
  <2>. QED BY <1>4, <2>1 DEF Keeps, Rebinds, Alike
<1>5. Becomes(IF wanted THEN both ELSE rooms) /\ Closed(TRUE) /\ UNCHANGED store BY DEF Connect
<1>. HIDE DEF fresh
<1>6. rooms \in SessionsAt(position) /\ Blanks(rooms) BY <1>1, <1>2, <1>3, <1>4
<1>. HIDE DEF rooms
<1>7. both \in SessionsAt(position) /\ Blanks(both) BY <1>1, <1>4, <1>6
<1>. QED BY <1>5, <1>6, <1>7, ClosedCoherent

LEMMA RetryCoherent == ASSUME Types, InOrder, Coherent, NEW v \in Views, Retry(v) PROVE Coherent'
<1>. DEFINE u == [Here EXCEPT !.binding[v] = Unbound]
<1>1. position \in Nat /\ Here \in SessionsAt(position) /\ Unbound \in BindingAt(position)
  BY Shapes, HereIs DEF Unbound, NoSource, BindingAt
<1>2. u \in SessionsAt(position) BY <1>1, HeldTypes
<1>3. Keeps(Here, u)
  <2>1. /\ u.asked = Here.asked /\ u.posts = Here.posts /\ ~u.binding[v].live
        /\ \A x \in Views : x # v => u.binding[x] = Here.binding[x]
    BY <1>1 DEF SessionsAt, BindingsAt, Unbound
  <2>2. \A x \in Views : u.asked[x] = Here.asked[x] /\ Here.asked[x] \in Nat BY <1>1, <2>1 DEF SessionsAt
  <2>. QED BY <2>1, <2>2 DEF Keeps, AskedOf, Rebinds, Alike
<1>4. Becomes(Bind(u, v)) /\ UNCHANGED <<store, stream>> BY DEF Retry
<1>. HIDE DEF u
<1>5. Bind(u, v) \in SessionsAt(position) /\ Keeps(Here, Bind(u, v))
  BY <1>1, <1>2, <1>3, BindTypes, BindKeeps, KeepsOn
<1>. QED BY <1>4, <1>5, SessionMoves

(* A recovery reader, or the choice of a room, takes nothing from the stream. *)
LEMMA PollCoherent == ASSUME Types, InOrder, Coherent, Poll PROVE Coherent'
<1>1. UNCHANGED <<store, stream>> BY DEF Poll, PollTail, PollHead, PollAnswers
<1>2. position \in Nat /\ Here \in SessionsAt(position) BY Shapes, HereIs
<1>3. ASSUME PollTail \/ \E v \in Views : PollHead(v) PROVE Coherent'
  <2>1. UNCHANGED <<binding, asked, posts, log, wire, fence, open, view, task>>
    BY <1>1, <1>3 DEF PollTail, PollHead, stream, store
  <2>. QED BY <2>1 DEF Coherent, AskedOf, Wholes, Fenced, Here
<1>4. ASSUME NEW v \in Views, PollAnswers(v) PROVE Coherent'
  <2>. DEFINE done == [Here EXCEPT !.poll[v].pc = "idle", !.poll[v].got = {}]
  <2>1. poll \in PollsAt(position) /\ poll[v].got \in SUBSET (1..position)
    BY <1>2 DEF SessionsAt, Here, PollsAt, PollAt
  <2>2. [poll EXCEPT ![v].pc = "idle", ![v].got = {}] \in PollsAt(position) BY <2>1 DEF PollsAt, PollAt
  <2>3. done = [Here EXCEPT !.poll = [poll EXCEPT ![v].pc = "idle", ![v].got = {}]]
    BY <2>1 DEF Here, PollsAt, PollAt
  <2>4. Becomes(IF v = "room" /\ (poll[v].stale \/ ~Listed(page)) THEN done ELSE Deliver(done, v, poll[v].got))
    BY <1>4 DEF PollAnswers
  <2>. HIDE DEF done
  <2>5. done \in SessionsAt(position) /\ Keeps(Here, done)
    <3>1. /\ done \in SessionsAt(position)
          /\ done.binding = Here.binding /\ done.asked = Here.asked /\ done.posts = Here.posts
      BY <1>2, <2>2, <2>3 DEF SessionsAt
    <3>. QED BY <3>1, KeepsAll
  <2>6. /\ Deliver(done, v, poll[v].got) \in SessionsAt(position)
        /\ Keeps(Here, Deliver(done, v, poll[v].got))
    BY <1>2, <2>1, <2>5, DeliverTypes, DeliverKeeps, KeepsOn
  <2>. QED BY <1>1, <2>4, <2>5, <2>6, SessionMoves
<1>. QED BY <1>3, <1>4 DEF Poll

LEMMA OperatorCoherent ==
  ASSUME Types, InOrder, Coherent, WatchRoom \/ LeaveRoom \/ Hide \/ Show PROVE Coherent'
<1>1. position \in Nat /\ Here \in SessionsAt(position) /\ "room" \in Views BY Shapes, HereIs DEF Views
<1>2. CASE WatchRoom
  <2>. DEFINE s == [Here EXCEPT !.wanted = TRUE]
              read == IF \E v \in Views : poll[v].on THEN Recover(s, "room") ELSE s
  <2>1. s \in SessionsAt(position) /\ Keeps(Here, s)
    <3>1. /\ s \in SessionsAt(position)
          /\ s.binding = Here.binding /\ s.asked = Here.asked /\ s.posts = Here.posts
      BY <1>1 DEF SessionsAt
    <3>. HIDE DEF s
    <3>. QED BY <3>1, KeepsAll
  <2>2. read \in SessionsAt(position) /\ Keeps(Here, read)
    <3>. HIDE DEF s
    <3>. QED BY <1>1, <2>1, RecoverTypes, RecoverKeeps, KeepsOn
  <2>3. Becomes(IF mode = "up" THEN Bind(read, "room") ELSE read) /\ UNCHANGED <<store, stream>>
    BY <1>2 DEF WatchRoom
  <2>. HIDE DEF read
  <2>4. Bind(read, "room") \in SessionsAt(position) /\ Keeps(Here, Bind(read, "room"))
    BY <1>1, <2>2, BindTypes, BindKeeps, KeepsOn
  <2>. QED BY <2>2, <2>3, <2>4, SessionMoves
<1>3. CASE LeaveRoom
  <2>1. Unwatch(Here) \in SessionsAt(position) /\ Keeps(Here, Unwatch(Here))
    BY <1>1, UnwatchTypes, UnwatchKeeps
  <2>. QED BY <1>3, <2>1, SessionMoves DEF LeaveRoom
<1>4. CASE Hide
  <2>. DEFINE q == Silent(Here)  t == [q EXCEPT !.poll = [v \in Views |-> NoPoll]]
  <2>1. q \in SessionsAt(position) /\ q.posts = {} BY <1>1, SilentTypes DEF Silent, SessionsAt
  <2>2. t \in SessionsAt(position) /\ t.binding = q.binding /\ t.posts = {}
    <3>. HIDE DEF q
    <3>. QED BY <1>1, <2>1, SilentTypes DEF SessionsAt
  <2>3. Becomes(t) /\ Closed(FALSE) /\ UNCHANGED store BY <1>4 DEF Hide
  <2>. HIDE DEF t
  <2>4. AskedOf(t) /\ \A v \in Views : ~t.binding[v].live BY <1>1, <2>2, SilentAsked DEF q
  <2>. QED BY <2>2, <2>3, <2>4, ClosedCoherent
<1>5. CASE Show
  <2>1. UNCHANGED <<binding, asked, posts, log, wire, fence, open, view, task>>
    BY <1>5 DEF Show, stream, store
  <2>. QED BY <2>1 DEF Coherent, AskedOf, Wholes, Fenced, Here
<1>. QED BY <1>2, <1>3, <1>4, <1>5

LEMMA CoherentStep == ASSUME Types, InOrder, Sent, Coherent, [Next]_vars PROVE Coherent'
<1>1. CASE UNCHANGED vars
  <2>1. UNCHANGED <<binding, asked, posts, log, wire, fence, open, view, task>>
    BY <1>1 DEF vars, session, stream, store
  <2>. QED BY <2>1 DEF Coherent, AskedOf, Wholes, Fenced, Here
<1>2. CASE (\E k \in Kinds \ {"health"} : Commit(k)) /\ UNCHANGED session
  BY <1>2, PublishCoherent DEF Commit
<1>3. CASE (\E w \in {"ok", "pending", "failed"} : SetResourceHealth(w)) /\ UNCHANGED session
  BY <1>3, PublishCoherent DEF SetResourceHealth, Kinds
<1>4. CASE (Refresh \/ Coverage) /\ UNCHANGED session
  BY <1>4, QuietCoherent, JudgeCoherent, WriteCoherent, FlushedCoherent, CoverageCoherent DEF Refresh
<1>5. CASE Connect BY <1>5, ConnectCoherent
<1>6. CASE Drop \/ Ended BY <1>6, LoseCoherent DEF Drop, Ended
<1>7. CASE Receive BY <1>7, ReceiveCoherent
<1>8. CASE \E v \in Views : Retry(v) BY <1>8, RetryCoherent
<1>9. CASE \E p \in posts : Serve(p) BY <1>9, ServeCoherent
<1>10. CASE Poll BY <1>10, PollCoherent
<1>11. CASE WatchRoom \/ LeaveRoom \/ Hide \/ Show BY <1>11, OperatorCoherent
<1>. QED BY <1>1, <1>2, <1>3, <1>4, <1>5, <1>6, <1>7, <1>8, <1>9, <1>10, <1>11 DEF Next

LEMMA CoherentInit == Init => Coherent
<1>. SUFFICES ASSUME Init PROVE Coherent OBVIOUS
<1>1. /\ \A v \in Views : ~binding[v].live /\ asked[v] = 0 /\ fence[v] = 0
      /\ posts = {} /\ wire = <<>> /\ ~open
  BY DEF Init, Unbound
<1>2. Len(wire) = 0 BY <1>1, Shapes, TypesInit, EmptySeq
<1>. QED BY <1>1, <1>2
     DEF Coherent, AskedOf, Wholes, Fenced, Frames, Paged, Paging, IsCurrent, Here

(* Whatever commits, saves and reconnections fall between the frames of a projection, what   *)
(* the session assembles as whole is one state of the store: a snapshot, or records it holds *)
(* continued by an increment and its pages (write of resource-views.ts, receive of           *)
(* poller.ts).                                                                               *)
THEOREM StreamIsASnapshotAlways == Spec => []StreamIsASnapshot
<1>1. Init => Types /\ InOrder /\ Sent /\ Coherent BY TypesInit, InOrderInit, SentInit, CoherentInit
<1>2. Types /\ InOrder /\ Sent /\ Coherent /\ [Next]_vars => (Types /\ InOrder /\ Sent /\ Coherent)'
  BY TypesStep, InOrderStep, SentStep, CoherentStep
<1>3. Coherent => StreamIsASnapshot BY CoherentStream
<1>. QED BY <1>1, <1>2, <1>3, PTL DEF Spec

-----------------------------------------------------------------------------
(* What the page shows of a room the stream vouches for. *)

(* The frames on the wire that the session's binding b of the room will take up, and what  *)
(* it holds once it has read n frames: a part drops the records held before it.            *)
Mine(w, b) == {i \in 1..Len(w) : w[i].view = "room" /\ w[i].epoch = b.epoch}
Cut(w, b, k, n) == \E m \in Mine(w, b) : k < m /\ m <= n /\ w[m].kind = "part"
Has(lg, w, b, n, x) ==
  \/ x \in b.pending /\ (lg[x] = "history" => ~Cut(w, b, 0, n))
  \/ \E k \in Mine(w, b) : k <= n /\ x \in w[k].content /\ (lg[x] = "history" => ~Cut(w, b, k, n))

(* A part or an update was read and its page was not; the baseline was stated complete. *)
Owes(w, b, n) ==
  \/ b.has /\ ~b.whole /\ ~\E k \in Mine(w, b) : k <= n /\ w[k].kind = "page"
  \/ \E j \in Mine(w, b) : /\ j <= n /\ w[j].kind \in {"part", "update"}
                           /\ ~\E k \in Mine(w, b) : j < k /\ k <= n /\ w[k].kind = "page"
Readied(w, b, n) == b.ready \/ \E k \in Mine(w, b) : k <= n /\ w[k].kind = "ready"

(* A frame never takes back what the session holds, and states a position only once the *)
(* session holds all there was up to it.                                                *)
FrameFits(lg, w, b, j) ==
  /\ w[j].kind \in {"ready", "coverage", "resync"} => w[j].content = {}
  /\ w[j].kind = "snapshot" => \A x : Has(lg, w, b, j - 1, x) => x \in w[j].content
  /\ w[j].kind \in {"part", "update"} =>
       \A x : Has(lg, w, b, j - 1, x) /\ lg[x] # "history" => x \in w[j].content
  /\ w[j].source # NoSource => \A x \in Shown(lg, "room", w[j].source) : Has(lg, w, b, j, x)
  /\ w[j].kind = "coverage" => ~Owes(w, b, j - 1)
  /\ w[j].kind = "part" => ~Readied(w, b, j - 1)
Wired(lg, fn, w, b) ==
  b.live =>
    /\ \A x : Has(lg, w, b, Len(w), x) => x \in Shown(lg, "room", Len(lg))
    /\ fn["room"] < b.epoch => ~b.has /\ ~b.ready /\ b.pending = {}
    /\ \A j \in Mine(w, b) : FrameFits(lg, w, b, j)

(* What the daemon counts as sent is what the session will hold, up to what the refresh *)
(* that writes has still to send.                                                       *)
Writing(t, r) == t.pc \in {"write", "flush"} /\ t.view = "room" /\ t.epoch = r.epoch
Fills(lg, w, b, t) ==
  /\ \A x : Has(lg, w, b, Len(w), x) => x \in t.got
  /\ t.frames = <<"page">> => \A x \in t.got : lg[x] # "history" => Has(lg, w, b, Len(w), x)
  /\ t.frames = <<>> => \A x \in t.got : Has(lg, w, b, Len(w), x)
Served(lg, w, b, o, r, t) ==
  /\ o /\ r.live /\ (r.ready \/ (t.pc = "ready" /\ t.view = "room" /\ t.epoch = r.epoch)) => r.based
  /\ o /\ r.live /\ b.live /\ r.epoch = b.epoch =>
    /\ \A x \in r.payload : Has(lg, w, b, Len(w), x)
    /\ ~r.based => ~Readied(w, b, Len(w))
    /\ Writing(t, r) => Fills(lg, w, b, t)
    /\ Owes(w, b, Len(w)) => Writing(t, r) /\ t.frames = <<"page">>

(* The wires agree up to n. *)
LEMMA UpTo ==
  ASSUME NEW w, NEW w2, Len(w) \in Nat, Len(w2) \in Nat, Len(w) <= Len(w2), NEW n \in 0..Len(w),
         \A i \in 1..Len(w) : w2[i] = w[i], NEW lg, NEW b
  PROVE  /\ \A x : Has(lg, w2, b, n, x) <=> Has(lg, w, b, n, x)
         /\ Owes(w2, b, n) <=> Owes(w, b, n)
         /\ Readied(w2, b, n) <=> Readied(w, b, n)
<1>1. \A k : k \in Mine(w2, b) /\ k <= n <=> k \in Mine(w, b) /\ k <= n
  BY DEF Mine
<1>2. \A k \in Mine(w, b) : w2[k] = w[k] BY DEF Mine
<1>3. \A k : Cut(w2, b, k, n) <=> Cut(w, b, k, n) BY <1>1, <1>2 DEF Cut
<1>4. \A x : Has(lg, w2, b, n, x) <=> Has(lg, w, b, n, x) BY <1>1, <1>2, <1>3 DEF Has
<1>5. Owes(w2, b, n) <=> Owes(w, b, n) BY <1>1, <1>2 DEF Owes
<1>6. Readied(w2, b, n) <=> Readied(w, b, n) BY <1>1, <1>2 DEF Readied
<1>. QED BY <1>4, <1>5, <1>6

(* One more frame is read. *)
Adds(lg, b, f, w, m, w2, n) ==
  LET mine == f.view = "room" /\ f.epoch = b.epoch IN
  /\ \A x : Has(lg, w2, b, n, x) <=>
              \/ Has(lg, w, b, m, x) /\ ~(mine /\ f.kind = "part" /\ lg[x] = "history")
              \/ mine /\ x \in f.content
  /\ Owes(w2, b, n) <=>
       \/ mine /\ f.kind \in {"part", "update"}
       \/ Owes(w, b, m) /\ ~(mine /\ f.kind = "page")
  /\ Readied(w2, b, n) <=> Readied(w, b, m) \/ (mine /\ f.kind = "ready")
LEMMA OneMore ==
  ASSUME NEW w, Len(w) \in Nat, NEW n \in 1..Len(w), NEW lg, NEW b
  PROVE  Adds(lg, b, w[n], w, n - 1, w, n)
<1>. DEFINE f == w[n]  mine == f.view = "room" /\ f.epoch = b.epoch
<1>1. /\ \A k \in Mine(w, b) : k \in 1..Len(w) /\ (k <= n <=> k <= n - 1 \/ k = n)
      /\ n \in Mine(w, b) <=> mine
  BY DEF Mine
<1>2. \A k \in 0..Len(w) : k <= n - 1 => (Cut(w, b, k, n) <=> Cut(w, b, k, n - 1) \/ (mine /\ f.kind = "part"))
  BY <1>1 DEF Cut
<1>3. ~Cut(w, b, n, n) BY <1>1 DEF Cut
<1>4. ASSUME NEW x
      PROVE  Has(lg, w, b, n, x) <=>
                     \/ Has(lg, w, b, n - 1, x) /\ ~(mine /\ f.kind = "part" /\ lg[x] = "history")
                     \/ mine /\ x \in f.content
  <2>1. 0 \in 0..Len(w) /\ 0 <= n - 1 /\ \A k \in Mine(w, b) : k \in 0..Len(w) BY <1>1
  <2>2. \A k \in Mine(w, b) : k <= n - 1 => (Cut(w, b, k, n) <=> Cut(w, b, k, n - 1) \/ (mine /\ f.kind = "part"))
    BY <1>2, <2>1
  <2>3. Cut(w, b, 0, n) <=> Cut(w, b, 0, n - 1) \/ (mine /\ f.kind = "part") BY <1>2, <2>1
  <2>. QED BY <1>1, <1>3, <2>2, <2>3 DEF Has
<1>5. Owes(w, b, n) <=>
              \/ mine /\ f.kind \in {"part", "update"}
              \/ Owes(w, b, n - 1) /\ ~(mine /\ f.kind = "page")
  BY <1>1 DEF Owes
<1>6. Readied(w, b, n) <=> Readied(w, b, n - 1) \/ (mine /\ f.kind = "ready") BY <1>1 DEF Readied
<1>. QED BY <1>4, <1>5, <1>6 DEF Adds

(* A frame may be written after those of w. *)
MayFollow(lg, w, b, f) ==
  b.live /\ f.view = "room" /\ f.epoch = b.epoch =>
    LET n == Len(w) IN
    /\ \A x \in f.content : x \in Shown(lg, "room", Len(lg))
    /\ f.kind \in {"ready", "coverage", "resync"} => f.content = {}
    /\ f.kind = "snapshot" => \A x : Has(lg, w, b, n, x) => x \in f.content
    /\ f.kind \in {"part", "update"} => \A x : Has(lg, w, b, n, x) /\ lg[x] # "history" => x \in f.content
    /\ f.source # NoSource =>
         f.kind # "part" /\ \A x \in Shown(lg, "room", f.source) : Has(lg, w, b, n, x) \/ x \in f.content
    /\ f.kind = "coverage" => ~Owes(w, b, n)
    /\ f.kind = "part" => ~Readied(w, b, n)

LEMMA WiredAdded ==
  ASSUME NEW lg, NEW fn, NEW w, NEW b, NEW f, NEW w2, Len(w) \in Nat, Len(w2) = Len(w) + 1, w2[Len(w2)] = f,
         \A i \in 1..Len(w) : w2[i] = w[i], Wired(lg, fn, w, b), MayFollow(lg, w, b, f)
  PROVE  Wired(lg, fn, w2, b)
<1>. SUFFICES ASSUME b.live PROVE Wired(lg, fn, w2, b) BY DEF Wired
<1>. DEFINE n == Len(w)  mine == f.view = "room" /\ f.epoch = b.epoch
<1>1. /\ \A k \in 0..n : \A x : Has(lg, w2, b, k, x) <=> Has(lg, w, b, k, x)
      /\ \A k \in 0..n : (Owes(w2, b, k) <=> Owes(w, b, k)) /\ (Readied(w2, b, k) <=> Readied(w, b, k))
  <2>1. Len(w2) \in Nat /\ Len(w) <= Len(w2) OBVIOUS
  <2>. HIDE DEF mine
  <2>. QED BY <2>1, UpTo
<1>2. n + 1 \in 1..Len(w2) /\ (n + 1) - 1 = n /\ n \in 0..n OBVIOUS
<1>3. \A x : Has(lg, w2, b, n + 1, x) <=>
                \/ Has(lg, w, b, n, x) /\ ~(mine /\ f.kind = "part" /\ lg[x] = "history")
                \/ mine /\ x \in f.content
  <2>1. Len(w2) \in Nat /\ w2[n + 1] = f OBVIOUS
  <2>2. Adds(lg, b, f, w2, n, w2, n + 1) BY <1>2, <2>1, OneMore
  <2>. QED BY <1>1, <1>2, <2>2 DEF Adds
<1>4. \A x : Has(lg, w2, b, Len(w2), x) => x \in Shown(lg, "room", Len(lg))
  BY <1>3 DEF Wired, MayFollow
<1>5. ASSUME NEW j \in Mine(w2, b) PROVE FrameFits(lg, w2, b, j)
  <2>1. CASE j <= n
    <3>1. j \in 1..n /\ j - 1 \in 0..n /\ j \in 0..n /\ w2[j] = w[j] BY <1>5, <2>1 DEF Mine
    <3>2. j \in Mine(w, b) BY <1>5, <3>1 DEF Mine
    <3>3. FrameFits(lg, w, b, j) BY <3>2 DEF Wired
    <3>. QED BY <1>1, <3>1, <3>3 DEF FrameFits
  <2>2. CASE j = n + 1
    <3>1. w2[j] = f /\ mine /\ j - 1 = n BY <1>2, <1>5, <2>2 DEF Mine
    <3>2. MayFollow(lg, w, b, f) /\ b.live OBVIOUS
    <3>3. /\ \A x : Has(lg, w2, b, j - 1, x) <=> Has(lg, w, b, n, x)
          /\ Owes(w2, b, j - 1) <=> Owes(w, b, n)
          /\ Readied(w2, b, j - 1) <=> Readied(w, b, n)
      BY <1>1, <1>2, <3>1
    <3>4. f.source # NoSource => \A x \in Shown(lg, "room", f.source) : Has(lg, w2, b, j, x)
      BY <1>3, <2>2, <3>1, <3>2 DEF MayFollow
    <3>. DEFINE m == Len(w)
    <3>5. m = n OBVIOUS
    <3>. HIDE DEF n, m
    <3>6. /\ f.kind = "snapshot" => \A x : Has(lg, w, b, n, x) => x \in f.content
          /\ f.kind \in {"part", "update"} => \A x : Has(lg, w, b, n, x) /\ lg[x] # "history" => x \in f.content
          /\ f.kind \in {"ready", "coverage", "resync"} => f.content = {}
          /\ f.kind = "coverage" => ~Owes(w, b, n)
          /\ f.kind = "part" => ~Readied(w, b, n)
      BY <3>1, <3>2, <3>5 DEF MayFollow, m
    <3>. QED BY <3>1, <3>3, <3>4, <3>6 DEF FrameFits
  <2>. QED BY <1>2, <2>1, <2>2 DEF Mine
<1>. QED BY <1>4, <1>5 DEF Wired

(* What becomes of the binding that takes the next frame up. *)
Stated(b, f) ==
  IF f.source # NoSource /\ (f.kind \in {"ready", "coverage"} \/ (f.kind \in {"snapshot", "page"} /\ b.ready))
  THEN f.source ELSE b.source
TakenUp(b, f, c) ==
  /\ Takes(b, f, c)
  /\ c.has = (b.has \/ f.kind \in {"snapshot", "page", "part"})
  /\ c.ready = (b.ready \/ f.kind = "ready") /\ c.failed = (b.failed \/ f.kind = "resync")
  /\ c.source = Stated(b, f)
StaysAs(b, c) ==
  /\ c.live = b.live /\ c.epoch = b.epoch /\ c.pending = b.pending
  /\ c.has = b.has /\ c.whole = b.whole /\ c.ready = b.ready

(* The next frame f of w is read, leaving rest and c. *)
OneRead(w, rest, f, b, c) ==
  /\ Len(w) \in Nat \ {0} /\ Len(rest) = Len(w) - 1 /\ \A i \in 1..Len(rest) : rest[i] = w[i + 1]
  /\ f = w[1] /\ f.kind \in FrameKinds
  /\ b.has \in BOOLEAN /\ b.ready \in BOOLEAN /\ b.whole \in BOOLEAN /\ (b.ready => b.has)
  /\ IF f.view = "room" /\ f.epoch = b.epoch
     THEN TakenUp(b, f, c) /\ FrameFits(log, w, b, 1) ELSE StaysAs(b, c)
ReadsOn(rest, c, w, b, n) ==
  /\ \A x : Has(log, rest, c, n, x) <=> Has(log, w, b, n + 1, x)
  /\ Owes(rest, c, n) => Owes(w, b, n + 1)
  /\ Readied(rest, c, n) <=> Readied(w, b, n + 1)

LEMMA HeadRead ==
  ASSUME NEW w, NEW rest, NEW f, NEW b, NEW c, OneRead(w, rest, f, b, c), NEW n \in 0..Len(rest)
  PROVE  ReadsOn(rest, c, w, b, n)
<1>. SUFFICES ASSUME Len(w) \in Nat \ {0}, Len(rest) = Len(w) - 1, \A i \in 1..Len(rest) : rest[i] = w[i + 1],
                     f = w[1], f.kind \in FrameKinds, b.has \in BOOLEAN, b.ready \in BOOLEAN, b.whole \in BOOLEAN,
                     b.ready => b.has,
                     IF f.view = "room" /\ f.epoch = b.epoch
                     THEN TakenUp(b, f, c) /\ FrameFits(log, w, b, 1) ELSE StaysAs(b, c)
              PROVE  ReadsOn(rest, c, w, b, n)
  BY DEF OneRead
<1>. DEFINE mine == f.view = "room" /\ f.epoch = b.epoch  part == mine /\ f.kind = "part"
<1>1. c.live = b.live /\ c.epoch = b.epoch BY DEF StaysAs, TakenUp, Takes
<1>2. /\ \A i \in 1..Len(rest) : i + 1 \in 1..Len(w) /\ (i \in Mine(rest, c) <=> i + 1 \in Mine(w, b))
      /\ \A m \in 1..Len(w) : m = 1 \/ (m - 1 \in 1..Len(rest) /\ (m - 1) + 1 = m)
      /\ 1 \in Mine(w, b) <=> mine
      /\ Mine(rest, c) \subseteq 1..Len(rest) /\ Mine(w, b) \subseteq 1..Len(w)
  BY <1>1 DEF Mine
<1>3. \A k \in 0..Len(rest) : Cut(rest, c, k, n) <=> Cut(w, b, k + 1, n + 1)
  <2>. TAKE k \in 0..Len(rest)
  <2>1. ASSUME NEW m \in Mine(rest, c), k < m, m <= n, rest[m].kind = "part" PROVE Cut(w, b, k + 1, n + 1)
    <3>1. m + 1 \in Mine(w, b) /\ w[m + 1] = rest[m] /\ k + 1 < m + 1 /\ m + 1 <= n + 1 BY <1>2, <2>1
    <3>. QED BY <2>1, <3>1 DEF Cut
  <2>2. ASSUME NEW m \in Mine(w, b), k + 1 < m, m <= n + 1, w[m].kind = "part" PROVE Cut(rest, c, k, n)
    <3>1. m - 1 \in Mine(rest, c) /\ rest[m - 1] = w[m] /\ k < m - 1 /\ m - 1 <= n BY <1>2, <2>2
    <3>. QED BY <2>2, <3>1 DEF Cut
  <2>. QED BY <2>1, <2>2 DEF Cut
<1>4. Cut(w, b, 0, n + 1) <=> part \/ Cut(rest, c, 0, n)
  <2>1. Cut(rest, c, 0, n) <=> Cut(w, b, 1, n + 1) BY <1>3
  <2>2. Cut(w, b, 0, n + 1) <=> part \/ Cut(w, b, 1, n + 1) BY <1>2 DEF Cut
  <2>. QED BY <2>1, <2>2
<1>5. \A x : x \in c.pending <=>
               \/ x \in b.pending /\ ~(part /\ log[x] = "history")
               \/ mine /\ x \in f.content
  <2>1. CASE ~mine BY <2>1 DEF StaysAs
  <2>2. CASE mine
    <3>1. Takes(b, f, c) /\ FrameFits(log, w, b, 1) /\ 1 - 1 = 0 BY <2>2 DEF TakenUp
    <3>2. \A m \in Mine(w, b) : ~(m <= 0) BY <1>2
    <3>3. \A x : Has(log, w, b, 0, x) <=> x \in b.pending BY <3>2 DEF Has, Cut
    <3>4. \A x : x \in Continued(b, f) <=> x \in f.content \/ (x \in b.pending /\ log[x] = "history")
      BY HistoryIs DEF Continued, Kept
    <3>5. CASE f.kind = "snapshot" BY <2>2, <3>1, <3>3, <3>5 DEF FrameFits, Takes
    <3>6. CASE f.kind = "part" BY <2>2, <3>1, <3>3, <3>6 DEF FrameFits, Takes
    <3>7. CASE f.kind = "update" BY <2>2, <3>1, <3>3, <3>4, <3>7 DEF FrameFits, Takes
    <3>8. CASE f.kind = "page" BY <2>2, <3>1, <3>8 DEF Takes
    <3>9. CASE f.kind \in {"ready", "coverage", "resync"} BY <2>2, <3>1, <3>9 DEF FrameFits, Takes
    <3>. QED BY <3>5, <3>6, <3>7, <3>8, <3>9 DEF FrameKinds
  <2>. QED BY <2>1, <2>2
<1>6. ASSUME NEW x PROVE Has(log, rest, c, n, x) <=> Has(log, w, b, n + 1, x)
  <2>. DEFINE old == log[x] = "history"
              Later == \E k \in Mine(rest, c) : k <= n /\ x \in rest[k].content /\ (old => ~Cut(rest, c, k, n))
  <2>1. (\E k \in Mine(w, b) : k <= n + 1 /\ x \in w[k].content /\ (old => ~Cut(w, b, k, n + 1)))
          <=> Later \/ (mine /\ x \in f.content /\ (old => ~Cut(rest, c, 0, n)))
    <3>1. Cut(rest, c, 0, n) <=> Cut(w, b, 1, n + 1) BY <1>3
    <3>2. \A k \in Mine(rest, c) : /\ k + 1 \in Mine(w, b) /\ w[k + 1] = rest[k] /\ (k <= n => k + 1 <= n + 1)
                                   /\ Cut(rest, c, k, n) <=> Cut(w, b, k + 1, n + 1)
      BY <1>2, <1>3
    <3>3. \A k \in Mine(w, b) : k = 1 \/
            /\ k - 1 \in Mine(rest, c) /\ rest[k - 1] = w[k] /\ (k <= n + 1 => k - 1 <= n)
            /\ Cut(rest, c, k - 1, n) <=> Cut(w, b, k, n + 1)
      BY <1>2, <1>3
    <3>4. 1 <= n + 1 OBVIOUS
    <3>. QED BY <1>2, <3>1, <3>2, <3>3, <3>4
  <2>2. Has(log, rest, c, n, x) <=> (x \in c.pending /\ (old => ~Cut(rest, c, 0, n))) \/ Later BY DEF Has
  <2>3. Has(log, w, b, n + 1, x) <=>
          \/ x \in b.pending /\ (old => ~Cut(w, b, 0, n + 1))
          \/ Later \/ (mine /\ x \in f.content /\ (old => ~Cut(rest, c, 0, n)))
    BY <2>1 DEF Has
  <2>. HIDE DEF Later, old
  <2>4. x \in c.pending <=> (x \in b.pending /\ ~(part /\ old)) \/ (mine /\ x \in f.content) BY <1>5 DEF old
  <2>. QED BY <1>4, <2>2, <2>3, <2>4
<1>7. Readied(rest, c, n) <=> Readied(w, b, n + 1)
  <2>1. c.ready <=> b.ready \/ (mine /\ f.kind = "ready") BY DEF TakenUp, StaysAs
  <2>2. \A k \in Mine(rest, c) : k <= n => k + 1 \in Mine(w, b) /\ w[k + 1] = rest[k] /\ k + 1 <= n + 1
    BY <1>2
  <2>3. \A k \in Mine(w, b) : k <= n + 1 => k = 1 \/ (k - 1 \in Mine(rest, c) /\ rest[k - 1] = w[k] /\ k - 1 <= n)
    BY <1>2
  <2>4. 1 <= n + 1 OBVIOUS
  <2>. QED BY <1>2, <2>1, <2>2, <2>3, <2>4 DEF Readied
<1>8. Owes(rest, c, n) => Owes(w, b, n + 1)
  <2>1. \A k \in Mine(w, b) : k <= n + 1 => k = 1 \/ (k - 1 \in Mine(rest, c) /\ rest[k - 1] = w[k] /\ k - 1 <= n)
    BY <1>2
  <2>2. \A k \in Mine(rest, c) : k <= n => k + 1 \in Mine(w, b) /\ w[k + 1] = rest[k] /\ k + 1 <= n + 1
    BY <1>2
  <2>3. ASSUME c.has, ~c.whole, ~\E k \in Mine(rest, c) : k <= n /\ rest[k].kind = "page" PROVE Owes(w, b, n + 1)
    <3>1. CASE ~mine
      <4>1. b.has /\ ~b.whole BY <2>3, <3>1 DEF StaysAs
      <4>. QED BY <1>2, <2>1, <2>3, <3>1, <4>1 DEF Owes
    <3>2. CASE mine /\ f.kind \in {"part", "update"}
      <4>1. 1 \in Mine(w, b) /\ 1 <= n + 1 BY <1>2, <3>2
      <4>2. ~\E k \in Mine(w, b) : 1 < k /\ k <= n + 1 /\ w[k].kind = "page" BY <2>1, <2>3
      <4>3. w[1].kind \in {"part", "update"} BY <3>2
      <4>. QED BY <4>1, <4>2, <4>3 DEF Owes
    <3>3. CASE mine /\ f.kind \notin {"part", "update"}
      <4>1. f.kind \in {"ready", "coverage", "resync"} /\ b.has /\ ~b.whole
        BY <2>3, <3>3 DEF TakenUp, Takes, FrameKinds
      <4>. QED BY <2>1, <2>3, <4>1 DEF Owes
    <3>. QED BY <3>1, <3>2, <3>3
  <2>4. ASSUME NEW j \in Mine(rest, c), j <= n, rest[j].kind \in {"part", "update"},
               ~\E k \in Mine(rest, c) : j < k /\ k <= n /\ rest[k].kind = "page"
        PROVE  Owes(w, b, n + 1)
    <3>1. j + 1 \in Mine(w, b) /\ w[j + 1] = rest[j] /\ j + 1 <= n + 1 BY <2>2, <2>4
    <3>2. \A k \in Mine(w, b) : j + 1 < k /\ k <= n + 1 =>
            k - 1 \in Mine(rest, c) /\ rest[k - 1] = w[k] /\ k - 1 <= n /\ j < k - 1
      BY <1>2, <2>1
    <3>. QED BY <2>4, <3>1, <3>2 DEF Owes
  <2>. QED BY <2>3, <2>4 DEF Owes
<1>. QED BY <1>6, <1>7, <1>8 DEF ReadsOn

(* What the session holds once it has read all, when f is written after w. *)
LEMMA Written ==
  ASSUME NEW lg, NEW fn, NEW n, NEW w \in Seq(FramesAt(n)), NEW f \in FramesAt(n), NEW b,
         Wired(lg, fn, w, b), MayFollow(lg, w, b, f), NEW w2, w2 = w \o <<f>>
  PROVE  Wired(lg, fn, w2, b) /\ Adds(lg, b, f, w, Len(w), w2, Len(w2))
<1>1. w2 = Append(w, f) BY AppendIsConcat
<1>2. /\ Len(w2) = Len(w) + 1 /\ Len(w) \in Nat /\ w2[Len(w2)] = f
      /\ \A i \in 1..Len(w) : w2[i] = w[i]
  BY <1>1, AppendProperties, LenProperties
<1>3. Wired(lg, fn, w2, b) BY <1>2, WiredAdded
<1>4. Len(w2) \in 1..Len(w2) /\ Len(w2) - 1 = Len(w) /\ Len(w2) \in Nat /\ Len(w) \in 0..Len(w) BY <1>2
<1>. DEFINE m == Len(w)  n2 == Len(w2)
<1>5. m \in 0..Len(w) /\ Len(w) <= Len(w2) BY <1>2
<1>6. Adds(lg, b, f, w2, m, w2, n2) BY <1>2, <1>4, OneMore
<1>. HIDE DEF m, n2
<1>7. /\ \A x : Has(lg, w2, b, m, x) <=> Has(lg, w, b, m, x)
      /\ Owes(w2, b, m) <=> Owes(w, b, m)
      /\ Readied(w2, b, m) <=> Readied(w, b, m)
  BY <1>2, <1>4, <1>5, UpTo
<1>8. Adds(lg, b, f, w, m, w2, n2) BY <1>6, <1>7 DEF Adds
<1>. QED BY <1>3, <1>8 DEF m, n2

(* A frame that carries nothing, after which neither end counts on anything more. *)
Nothing(f, b) == f.view = "room" /\ f.epoch = b.epoch => f.kind \in {"resync", "coverage"} /\ f.content = {}
AsMuch(lg, w, w2, b) ==
  /\ \A x : Has(lg, w2, b, Len(w2), x) <=> Has(lg, w, b, Len(w), x)
  /\ Owes(w2, b, Len(w2)) <=> Owes(w, b, Len(w))
  /\ Readied(w2, b, Len(w2)) <=> Readied(w, b, Len(w))
LEMMA WrittenNothing ==
  ASSUME NEW lg, NEW fn, NEW n, NEW w \in Seq(FramesAt(n)), NEW f \in FramesAt(n), NEW b,
         Wired(lg, fn, w, b), MayFollow(lg, w, b, f), Nothing(f, b), NEW w2, w2 = w \o <<f>>
  PROVE  Wired(lg, fn, w2, b) /\ AsMuch(lg, w, w2, b)
<1>1. Wired(lg, fn, w2, b) /\ Adds(lg, b, f, w, Len(w), w2, Len(w2)) BY Written
<1>. QED BY <1>1 DEF Nothing, Adds, AsMuch

-----------------------------------------------------------------------------
(* The daemon's end: what a registration counts as sent is on its way. *)
LEMMA ServedOn ==
  ASSUME NEW lg, NEW w, NEW b, NEW o, NEW r, NEW t, Served(lg, w, b, o, r, t), NEW w2, AsMuch(lg, w, w2, b),
         NEW o2, NEW r2, NEW t2, o2 => o, r2.live => r.live, r2.epoch = r.epoch, r2.payload = r.payload,
         r2.based = r.based, r2.ready => r.ready \/ r.based,
         o2 /\ r2.live /\ t2.pc = "ready" /\ t2.view = "room" /\ t2.epoch = r.epoch =>
           t.pc = "ready" /\ t.view = "room" /\ t.epoch = r.epoch,
         o2 /\ r2.live /\ b.live /\ r.epoch = b.epoch /\ Writing(t2, r) => Fills(lg, w, b, t2),
         o2 /\ r2.live /\ b.live /\ r.epoch = b.epoch /\ Writing(t, r) /\ t.frames = <<"page">> =>
           Writing(t2, r) /\ t2.frames = <<"page">>
  PROVE  Served(lg, w2, b, o2, r2, t2)
<1>1. o2 /\ r2.live /\ (r2.ready \/ (t2.pc = "ready" /\ t2.view = "room" /\ t2.epoch = r2.epoch)) => r2.based
  BY DEF Served
<1>. SUFFICES ASSUME o2, r2.live, b.live, r.epoch = b.epoch
              PROVE  Served(lg, w2, b, TRUE, r2, t2)
  BY <1>1 DEF Served
<1>2. /\ \A x \in r.payload : Has(lg, w, b, Len(w), x)
      /\ ~r.based => ~Readied(w, b, Len(w))
      /\ Owes(w, b, Len(w)) => Writing(t, r) /\ t.frames = <<"page">>
  BY DEF Served
<1>3. Writing(t2, r2) <=> Writing(t2, r) BY DEF Writing
<1>4. Writing(t2, r) => Fills(lg, w2, b, t2) BY DEF AsMuch, Fills
<1>. QED BY <1>1, <1>2, <1>3, <1>4 DEF AsMuch, Served

LEMMA AsMuchAlways == \A lg, w, b : AsMuch(lg, w, w, b)
BY DEF AsMuch

Fitting == Wired(log, fence, wire, binding["room"])
           /\ Served(log, wire, binding["room"], open, view["room"], task)

(* What a step of the daemon writes that carries nothing. *)
LEMMA SignalFits ==
  ASSUME Types, NEW w1 \in Seq(FramesAt(position)), Wired(log, fence, w1, binding["room"]),
         NEW v \in Views, NEW kind \in {"resync", "coverage"}, NEW source \in -1..position,
         v = "room" /\ binding["room"].live /\ view["room"].epoch = binding["room"].epoch =>
           /\ source # NoSource => \A x \in Shown(log, "room", source) : Has(log, w1, binding["room"], Len(w1), x)
           /\ kind = "coverage" => ~Owes(w1, binding["room"], Len(w1)),
         NEW w, w = w1 \o <<Frame(v, kind, {}, {}, source)>>
  PROVE  Wired(log, fence, w, binding["room"]) /\ AsMuch(log, w1, w, binding["room"])
<1>. DEFINE f == Frame(v, kind, {}, {}, source)  b == binding["room"]
<1>1. "resync" \in FrameKinds /\ "coverage" \in FrameKinds /\ {} \in SUBSET (1..position) BY DEF FrameKinds
<1>2. f \in FramesAt(position) BY <1>1, FrameType
<1>3. f.view = v /\ f.kind = kind /\ f.epoch = view[v].epoch /\ f.content = {} /\ f.source = source BY DEF Frame
<1>. HIDE DEF f
<1>4. MayFollow(log, w1, b, f)
  <2>. HIDE DEF b
  <2>. DEFINE n == Len(w1)
  <2>. HIDE DEF n
  <2>1. f.source # NoSource /\ f.view = "room" /\ f.epoch = b.epoch /\ b.live =>
          \A x \in Shown(log, "room", f.source) : Has(log, w1, b, n, x)
    BY <1>3 DEF b, n
  <2>2. f.kind = "coverage" /\ f.view = "room" /\ f.epoch = b.epoch /\ b.live => ~Owes(w1, b, n)
    BY <1>3 DEF b, n
  <2>. QED BY <1>3, <2>1, <2>2 DEF MayFollow, n
<1>5. Nothing(f, b) BY <1>3 DEF Nothing
<1>6. w = w1 \o <<f>> /\ Wired(log, fence, w1, b) BY DEF f
<1>. HIDE DEF b
<1>7. Wired(log, fence, w, b) /\ AsMuch(log, w1, w, b) BY <1>2, <1>4, <1>5, <1>6, WrittenNothing
<1>. QED BY <1>7 DEF b

(* A registration goes on with what it was sent. *)
GoesOn(r, r2) ==
  /\ r2.epoch = r.epoch /\ r2.payload = r.payload /\ r2.based = r.based
  /\ r2.live => r.live
  /\ r2.ready => r.ready \/ r.based

LEMMA LeaveGoesOn ==
  ASSUME NEW n, NEW job, job.view \in Views, NEW vs \in ViewsAt(n), NEW rest, Leave(job, vs, rest)
  PROVE  GoesOn(vs["room"], view'["room"])
<1>1. "room" \in Views /\ vs["room"] \in ViewAt(n) BY DEF ViewsAt, Views
<1>2. view' = vs \/ view' = [vs EXCEPT ![job.view].running = FALSE] BY DEF Leave
<1>3. CASE view' = vs BY <1>3 DEF GoesOn
<1>4. CASE view' = [vs EXCEPT ![job.view].running = FALSE]
  <2>1. view'["room"] = vs["room"] \/ view'["room"] = [vs["room"] EXCEPT !.running = FALSE]
    BY <1>1, <1>4 DEF ViewsAt
  <2>. QED BY <1>1, <2>1 DEF GoesOn, ViewAt
<1>. QED BY <1>2, <1>3, <1>4

LEMMA MarkGoesOn ==
  ASSUME NEW n, NEW vs \in ViewsAt(n), NEW v \in Views
  PROVE  /\ GoesOn(vs["room"], [vs EXCEPT ![v].dirty = FALSE]["room"])
         /\ GoesOn(vs["room"], [vs EXCEPT ![v].failed = TRUE]["room"])
         /\ \A p : GoesOn(vs["room"], [vs EXCEPT ![v].covered = p]["room"])
         /\ (v = "room" => vs["room"].based) => GoesOn(vs["room"], [vs EXCEPT ![v].ready = TRUE]["room"])
<1>1. "room" \in Views /\ vs["room"] \in ViewAt(n) BY DEF ViewsAt, Views
<1>. QED BY <1>1 DEF GoesOn, ViewsAt, ViewAt

LEMMA GoesOnOn ==
  ASSUME NEW q, NEW r, NEW s, GoesOn(q, r), GoesOn(r, s) PROVE GoesOn(q, s)
BY DEF GoesOn

LEMMA StreamFits ==
  ASSUME Types, Fitting, UNCHANGED <<store, fence, session>>,
         Wired(log, fence, wire', binding["room"]), AsMuch(log, wire, wire', binding["room"]),
         open' => open, GoesOn(view["room"], view'["room"]),
         open' /\ view'["room"].live /\ task'.pc = "ready" /\ task'.view = "room" /\ task'.epoch = view["room"].epoch =>
           task.pc = "ready" /\ task.view = "room" /\ task.epoch = view["room"].epoch,
         open' /\ view'["room"].live /\ binding["room"].live /\ view["room"].epoch = binding["room"].epoch
           /\ Writing(task', view["room"]) => Fills(log, wire, binding["room"], task'),
         open' /\ view'["room"].live /\ binding["room"].live /\ view["room"].epoch = binding["room"].epoch
           /\ Writing(task, view["room"]) /\ task.frames = <<"page">> =>
             Writing(task', view["room"]) /\ task'.frames = <<"page">>
  PROVE  Fitting'
<1>1. binding' = binding /\ log' = log /\ fence' = fence BY DEF session, store
<1>2. Served(log, wire', binding["room"], open', view'["room"], task')
  BY ServedOn DEF Fitting, GoesOn
<1>. QED BY <1>1, <1>2 DEF Fitting

(* A refresh that is over, read on or only about to write. *)
LEMMA StillFits ==
  ASSUME Types, Fitting, UNCHANGED <<store, fence, session>>, GoesOn(view["room"], view'["room"]),
         task'.pc \notin {"write", "flush", "ready"},
         task.pc \in {"write", "flush"} => ~Current(task) \/ task.frames # <<"page">>,
         \/ UNCHANGED <<open, wire>>
         \/ \E v \in Views : Send(<<Frame(v, "resync", {}, {}, NoSource)>>)
  PROVE  Fitting'
<1>1. open' => open BY Shapes DEF Send
<1>2. Wired(log, fence, wire', binding["room"]) /\ AsMuch(log, wire, wire', binding["room"])
  <2>1. CASE wire' = wire BY <2>1, AsMuchAlways DEF Fitting
  <2>2. ASSUME NEW v \in Views, wire' = wire \o <<Frame(v, "resync", {}, {}, NoSource)>>
        PROVE  Wired(log, fence, wire', binding["room"]) /\ AsMuch(log, wire, wire', binding["room"])
    <3>1. NoSource \in -1..position BY Shapes DEF NoSource
    <3>. QED BY <2>2, <3>1, SignalFits, Shapes DEF Fitting
  <2>. QED BY <2>1, <2>2 DEF Send
<1>3. open' /\ view'["room"].live /\ Writing(task, view["room"]) => Current(task)
  BY <1>1 DEF Writing, Current, GoesOn
<1>4. ~Writing(task', view["room"]) BY DEF Writing
<1>5. Writing(task, view["room"]) => task.pc \in {"write", "flush"} BY DEF Writing
<1>. QED BY <1>1, <1>2, <1>3, <1>4, <1>5, StreamFits

LEMMA GoesOnSelf == \A r : GoesOn(r, r)
BY DEF GoesOn

LEMMA FailFits ==
  ASSUME Types, Fail, task.pc \notin {"write", "flush"}, Fitting, UNCHANGED <<store, fence, session>>
  PROVE  Fitting'
<1>. DEFINE vs == [view EXCEPT ![task.view].failed = TRUE]
<1>1. vs \in ViewsAt(position) /\ task.view \in Views /\ GoesOn(view["room"], vs["room"])
  BY Shapes, Marked, MarkGoesOn
<1>2. Leave(task, vs, tail) /\ Send(<<Frame(task.view, "resync", {}, {}, NoSource)>>) BY DEF Fail, End
<1>. HIDE DEF vs
<1>3. GoesOn(view["room"], view'["room"]) BY <1>1, <1>2, LeaveGoesOn, GoesOnOn
<1>4. task'.pc = "idle" BY <1>2, Shapes DEF Leave
<1>. QED BY <1>1, <1>2, <1>3, <1>4, StillFits

LEMMA EndFits ==
  ASSUME Types, Fitting, NEW vs \in ViewsAt(position), End(vs), GoesOn(view["room"], vs["room"]),
         task.pc \in {"write", "flush"} => ~Current(task) \/ task.frames # <<"page">>,
         UNCHANGED <<store, fence, session, open, wire>>
  PROVE  Fitting'
<1>1. task.view \in Views /\ Leave(task, vs, tail) BY Shapes DEF End
<1>2. GoesOn(view["room"], view'["room"]) BY <1>1, LeaveGoesOn, GoesOnOn
<1>3. task'.pc = "idle" BY <1>1, Shapes DEF Leave
<1>. QED BY <1>2, <1>3, StillFits

LEMMA QuietFits ==
  ASSUME Types, Fitting, UNCHANGED session,
         Begin \/ ReadRoom \/ ReadListedRoom \/ ReadOtherRooms \/ ListingFails \/ ReadyFlushed
  PROVE  Fitting'
<1>1. UNCHANGED <<store, fence>>
  BY DEF Begin, ReadRoom, ReadListedRoom, ReadOtherRooms, ListingFails, ReadyFlushed
<1>2. view \in ViewsAt(position) BY Shapes
<1>3. CASE Begin
  <2>. DEFINE job == Head(tail)  v == job.view  clean == [view EXCEPT ![v].dirty = FALSE]
              down == [clean EXCEPT ![v].failed = TRUE]
  <2>1. job \in Jobs /\ task.pc = "idle" BY <1>3, Shapes, HeadTailProperties DEF Begin
  <2>2. v \in Views BY <2>1 DEF Jobs
  <2>3. clean \in ViewsAt(position) /\ GoesOn(view["room"], clean["room"]) BY <1>2, <2>2, Marked, MarkGoesOn
  <2>4. down \in ViewsAt(position) /\ GoesOn(view["room"], down["room"])
    <3>. HIDE DEF clean
    <3>1. down \in ViewsAt(position) /\ GoesOn(clean["room"], down["room"]) BY <2>2, <2>3, Marked, MarkGoesOn
    <3>. HIDE DEF down
    <3>. QED BY <2>3, <3>1, GoesOnOn
  <2>5. \/ Skip(view, job) /\ UNCHANGED <<open, wire>>
        \/ Skip(clean, job) /\ UNCHANGED <<open, wire>>
        \/ Skip(down, job) /\ Send(<<Frame(v, "resync", {}, {}, NoSource)>>)
        \/ Attempt(1, job, clean) /\ UNCHANGED <<open, wire>>
    BY <1>3 DEF Begin
  <2>. HIDE DEF clean, down, job
  <2>6. ASSUME NEW vs \in {view, clean, down}, Skip(vs, job)
        PROVE  GoesOn(view["room"], view'["room"]) /\ task'.pc = "idle"
    <3>1. vs \in ViewsAt(position) /\ GoesOn(view["room"], vs["room"]) BY <1>2, <2>3, <2>4, GoesOnSelf
    <3>2. Leave(job, vs, Tail(tail)) BY <2>6 DEF Skip
    <3>. QED BY <2>2, <3>1, <3>2, LeaveGoesOn, GoesOnOn, Shapes DEF Leave
  <2>7. Attempt(1, job, clean) => GoesOn(view["room"], view'["room"]) /\ task'.pc = "read"
    BY <2>3, Shapes DEF Attempt, TasksAt
  <2>8. GoesOn(view["room"], view'["room"]) /\ task'.pc \in {"idle", "read"} BY <2>5, <2>6, <2>7
  <2>. QED BY <1>1, <2>1, <2>2, <2>5, <2>8, StillFits
<1>4. CASE ReadRoom \/ ReadListedRoom \/ ReadOtherRooms
  <2>1. task'.pc \in {"others", "judge"} /\ UNCHANGED <<open, view, wire>> /\ task.pc \in {"read", "others"}
    BY <1>4, Shapes DEF ReadRoom, ReadListedRoom, ReadOtherRooms, TasksAt
  <2>. QED BY <1>1, <2>1, GoesOnSelf, StillFits
<1>5. CASE ListingFails
  <2>1. task.pc = "read" /\ (Fail \/ (End(view) /\ UNCHANGED <<open, wire>>)) BY <1>5 DEF ListingFails
  <2>. QED BY <1>1, <1>2, <2>1, FailFits, EndFits, GoesOnSelf
<1>6. CASE ReadyFlushed
  <2>. DEFINE up == [view EXCEPT ![task.view].ready = TRUE]
  <2>1. /\ task.pc = "ready" /\ UNCHANGED <<open, wire>>
        /\ End(IF Current(task) THEN up ELSE view)
    BY <1>6 DEF ReadyFlushed
  <2>2. Current(task) => GoesOn(view["room"], up["room"]) /\ up \in ViewsAt(position)
    <3>1. Current(task) /\ task.view = "room" => view["room"].based BY <2>1 DEF Fitting, Served, Current
    <3>. QED BY <1>2, <3>1, Shapes, MarkGoesOn, Marked
  <2>. HIDE DEF up
  <2>. QED BY <1>1, <1>2, <2>1, <2>2, EndFits, GoesOnSelf
<1>. QED BY <1>3, <1>4, <1>5, <1>6

LEMMA JudgeFits == ASSUME Types, Sent, Fitting, Judge, UNCHANGED session PROVE Fitting'
<1>. DEFINE v == task.view  clean == [view EXCEPT ![v].dirty = FALSE]
            still == [clean EXCEPT ![v].covered = position]
<1>1. UNCHANGED <<store, fence>> /\ v \in Views /\ view \in ViewsAt(position) /\ task.pc = "judge" /\ position \in Nat
  BY Shapes DEF Judge
<1>2. clean \in ViewsAt(position) /\ GoesOn(view["room"], clean["room"]) BY <1>1, Marked, MarkGoesOn
<1>3. still \in ViewsAt(position) /\ GoesOn(view["room"], still["room"])
  <2>. HIDE DEF clean
  <2>1. GoesOn(clean["room"], still["room"]) BY <1>1, <1>2, MarkGoesOn
  <2>2. still \in ViewsAt(position)
    <3>1. position \in 0..position /\ v \in Views /\ clean \in [Views -> ViewAt(position)] BY <1>1, <1>2 DEF ViewsAt
    <3>2. clean[v] \in ViewAt(position) BY <3>1
    <3>3. [clean[v] EXCEPT !.covered = position] \in ViewAt(position) BY SMTT(30), <3>1, <3>2 DEF ViewAt
    <3>. QED BY SMTT(30), <3>1, <3>2, <3>3 DEF ViewsAt
  <2>. HIDE DEF still
  <2>. QED BY <1>2, <2>1, <2>2, GoesOnOn
<1>4. ASSUME NEW vs \in {view, clean, still}, End(vs), UNCHANGED <<open, wire>> PROVE Fitting'
  <2>1. vs \in ViewsAt(position) /\ GoesOn(view["room"], vs["room"]) BY <1>1, <1>2, <1>3, GoesOnSelf
  <2>. QED BY <1>1, <1>4, <2>1, EndFits
<1>5. ASSUME Attempt(task.attempt + 1, task, view), UNCHANGED <<open, wire>> PROVE Fitting'
  <2>1. task'.pc = "read" /\ view' = view BY <1>5, Shapes DEF Attempt, TasksAt
  <2>. QED BY <1>1, <1>5, <2>1, GoesOnSelf, StillFits
<1>6. ASSUME Fail PROVE Fitting' BY <1>1, <1>6, FailFits
<1>7. ASSUME ~task.moved, NEW frames \in Writings(task.got), UNCHANGED <<open, wire>>, view' = clean,
             task' = [task EXCEPT !.pc = "write", !.attempt = 0, !.frames = frames, !.source = position]
      PROVE  Fitting'
  <2>1. /\ task'.pc = "write" /\ task'.frames = frames /\ task'.view = v /\ task'.got = task.got
        /\ task'.epoch = task.epoch
    BY <1>7, Shapes DEF TasksAt
  <2>2. frames # <<"page">> /\ frames # <<>>
    <3>1. \A s \in {<<"snapshot">>, <<"update", "page">>, <<"part", "page">>} : s # <<"page">> /\ s # <<>>
      OBVIOUS
    <3>. QED BY <1>7, <3>1 DEF Writings
  <2>3. task.got = Shown(log, v, Len(log)) BY <1>1, <1>7 DEF Sent, Reads
  <2>4. binding["room"].live /\ Writing(task', view["room"]) => Fills(log, wire, binding["room"], task')
    <3>1. binding["room"].live =>
            \A x : Has(log, wire, binding["room"], Len(wire), x) => x \in Shown(log, "room", Len(log))
      BY DEF Fitting, Wired
    <3>. QED BY <2>1, <2>2, <2>3, <3>1 DEF Fills, Writing
  <2>5. ~Writing(task, view["room"]) BY <1>1 DEF Writing
  <2>6. Wired(log, fence, wire', binding["room"]) /\ AsMuch(log, wire, wire', binding["room"])
    BY <1>7, AsMuchAlways DEF Fitting
  <2>. QED BY <1>1, <1>2, <1>7, <2>1, <2>4, <2>5, <2>6, StreamFits
<1>. HIDE DEF clean
<1>8. \/ \E vs \in {view, clean, still} : End(vs) /\ UNCHANGED <<open, wire>>
      \/ Attempt(task.attempt + 1, task, view) /\ UNCHANGED <<open, wire>>
      \/ Fail
      \/ /\ ~task.moved /\ UNCHANGED <<open, wire>> /\ view' = clean
         /\ \E frames \in Writings(task.got) :
              task' = [task EXCEPT !.pc = "write", !.attempt = 0, !.frames = frames, !.source = position]
  BY DEF Judge, clean
<1>. QED BY <1>4, <1>5, <1>6, <1>7, <1>8

(* The next frame of a projection. *)
Brings(lg, f, t) ==
  /\ f.kind = "snapshot" => f.content = t.got /\ t.frames # <<"page">> /\ Tail(t.frames) = <<>>
  /\ f.kind = "page" => /\ f.content = Kept(lg, t.got) \ f.after
                        /\ t.frames = <<"page">> /\ Tail(t.frames) = <<>>
  /\ f.kind \in {"part", "update"} => /\ f.content = t.got \ Kept(lg, t.got) /\ f.source = NoSource
                                      /\ t.frames # <<"page">> /\ Tail(t.frames) = <<"page">>
LEMMA NextFrame ==
  ASSUME Types, Sent, Coherent, Write, Current(task)
  PROVE  \E f \in FramesAt(position) :
           /\ wire' = wire \o <<f>> /\ view' = view /\ (open' => open)
           /\ task'.pc = "flush" /\ task'.view = task.view /\ task'.epoch = task.epoch
           /\ task'.got = task.got /\ task'.frames = Tail(task.frames)
           /\ f.view = task.view /\ f.epoch = task.epoch /\ f.kind \in {"snapshot", "part", "update", "page"}
           /\ f.kind # "snapshot" => task.view = "room"
           /\ task.got = Shown(log, task.view, task.source) /\ task.source \in 0..position
           /\ Kept(log, view[task.view].payload) \subseteq task.got
           /\ ~view[task.view].based => view[task.view].payload = {}
           /\ f.after = Kept(log, view[task.view].payload) /\ f.source \in {NoSource, task.source}
           /\ Brings(log, f, task)
           /\ f.kind = "part" => task.frames = <<"part", "page">> /\ ~view["room"].based
<1>. DEFINE v == task.view  r == view[v]  b == binding["room"]  kind == Head(task.frames)
            source == IF Len(task.frames) = 1 /\ ~Pending(v) THEN task.source ELSE NoSource
            f == Frame(v, kind, Carried(kind), History(r.payload), source)
<1>1. /\ v \in Views /\ view \in ViewsAt(position) /\ task.pc = "write"
      /\ task.frames # <<>> /\ r \in ViewAt(position) /\ position = Len(log)
      /\ position \in Nat /\ task.source \in 0..position
  <2>1. task.source \in -1..position /\ task.source # NoSource BY Shapes DEF Write, Types, StreamTypes
  <2>. QED BY <2>1, Shapes DEF Write, Types, StreamTypes, ViewsAt, position, NoSource
<1>2. open /\ r.live /\ r.epoch = task.epoch /\ IsCurrent(task, open, view) BY DEF Current, IsCurrent
<1>3. Send(<<f>>) /\ view' = view /\ task' = [task EXCEPT !.pc = "flush", !.frames = Tail(@)]
  BY DEF Write
<1>4. /\ task.frames \in {<<"snapshot">>, <<"update", "page">>, <<"part", "page">>, <<"page">>}
      /\ task.frames # <<"snapshot">> => v = "room"
      /\ task.frames = <<"part", "page">> => ~view["room"].based
  BY <1>1, <1>2 DEF Coherent, Paging
<1>5. /\ task.got = Shown(log, v, task.source) /\ Kept(log, r.payload) \subseteq task.got
      /\ ~r.based => r.payload = {}
  BY <1>1, <1>2 DEF Sent, Writes, Told, Blank
<1>6. \/ task.frames = <<"snapshot">> /\ kind = "snapshot" /\ Tail(task.frames) = <<>> /\ Len(task.frames) = 1
      \/ task.frames = <<"page">> /\ kind = "page" /\ Tail(task.frames) = <<>> /\ Len(task.frames) = 1
      \/ /\ task.frames = <<"update", "page">> /\ kind = "update" /\ Tail(task.frames) = <<"page">>
         /\ Len(task.frames) = 2
      \/ /\ task.frames = <<"part", "page">> /\ kind = "part" /\ Tail(task.frames) = <<"page">>
         /\ Len(task.frames) = 2
  <2>1. \A x : Head(<<x>>) = x /\ Tail(<<x>>) = <<>> /\ Len(<<x>>) = 1 OBVIOUS
  <2>2. \A x, y : Head(<<x, y>>) = x /\ Tail(<<x, y>>) = <<y>> /\ Len(<<x, y>>) = 2 OBVIOUS
  <2>. HIDE DEF kind
  <2>3. CASE task.frames = <<"snapshot">> BY <2>1, <2>3 DEF kind
  <2>4. CASE task.frames = <<"page">> BY <2>1, <2>4 DEF kind
  <2>5. CASE task.frames = <<"update", "page">> BY <2>2, <2>5 DEF kind
  <2>6. CASE task.frames = <<"part", "page">> BY <2>2, <2>6 DEF kind
  <2>. QED BY <1>4, <2>3, <2>4, <2>5, <2>6
<1>7. kind # "page" => task.frames # <<"page">>
  <2>1. <<"snapshot">> # <<"page">> /\ \A x, y : <<x, y>> # <<"page">> OBVIOUS
  <2>. HIDE DEF kind
  <2>. QED BY <1>6, <2>1
<1>8. f \in FramesAt(position)
  <2>1. kind \in FrameKinds BY <1>6 DEF FrameKinds
  <2>2. Carried(kind) \in SUBSET (1..position) /\ History(r.payload) \in SUBSET (1..position)
    <3>1. r.payload \in SUBSET (1..position) /\ task.got \in SUBSET (1..position) BY <1>1, Shapes DEF ViewAt
    <3>. QED BY <3>1, OnlyType DEF Carried
  <2>3. source \in -1..position BY <1>1 DEF NoSource
  <2>. HIDE DEF kind, source
  <2>. QED BY <1>1, <2>1, <2>2, <2>3, FrameType
<1>9. /\ f.view = v /\ f.kind = kind /\ f.epoch = task.epoch /\ f.source = source
      /\ f.content = Carried(kind) /\ f.after = Kept(log, r.payload)
  BY <1>2, HistoryIs DEF Frame
<1>10. source \in {NoSource, task.source} /\ (kind \in {"part", "update"} => source = NoSource)
  <2>. HIDE DEF kind
  <2>. QED BY <1>6
<1>11. wire' = wire \o <<f>> /\ task'.pc = "flush" /\ task'.view = v /\ task'.epoch = task.epoch
       /\ task'.got = task.got /\ task'.frames = Tail(task.frames) /\ (open' => open)
  BY <1>2, <1>3, Shapes DEF Send, TasksAt
<1>. HIDE DEF f, kind, source, b
<1>12. /\ kind = "snapshot" => f.content = task.got
       /\ kind = "page" => f.content = Kept(log, task.got) \ Kept(log, view["room"].payload)
       /\ kind \in {"part", "update"} => f.content = task.got \ Kept(log, task.got)
  BY <1>6, <1>9, HistoryIs DEF Carried
<1>13. kind # "snapshot" => v = "room"
  <2>1. \A x, y : <<x, y>> # <<"snapshot">> OBVIOUS
  <2>2. <<"page">> # <<"snapshot">> OBVIOUS
  <2>. QED BY <1>4, <1>6, <2>1, <2>2
<1>14. Brings(log, f, task) BY <1>6, <1>7, <1>9, <1>10, <1>12, <1>13 DEF Brings
<1>15. f.kind = "part" => task.frames = <<"part", "page">> /\ ~view["room"].based BY <1>4, <1>6, <1>9
<1>16. f.kind \in {"snapshot", "part", "update", "page"} /\ (f.kind # "snapshot" => task.view = "room")
       /\ f.after = Kept(log, view[task.view].payload) /\ f.source \in {NoSource, task.source}
       /\ f.view = task.view /\ f.epoch = task.epoch
  BY <1>6, <1>9, <1>10, <1>13
<1>. QED BY <1>1, <1>3, <1>5, <1>8, <1>11, <1>14, <1>15, <1>16

LEMMA WriteFits == ASSUME Types, InOrder, Sent, Coherent, Fitting, Write, UNCHANGED session PROVE Fitting'
<1>. DEFINE b == binding["room"]  r == view["room"]  m == Len(wire)  m2 == Len(wire')
<1>1. UNCHANGED <<store, fence>> /\ view \in ViewsAt(position) /\ wire \in Seq(FramesAt(position))
      /\ position = Len(log) /\ task.pc = "write"
  BY Shapes DEF Write, position
<1>2. CASE ~Current(task)
  <2>1. End(view) /\ UNCHANGED <<open, wire>> BY <1>2 DEF Write
  <2>. QED BY <1>1, <1>2, <2>1, EndFits, GoesOnSelf
<1>3. CASE Current(task)
  <2>1. PICK f \in FramesAt(position) :
           /\ wire' = wire \o <<f>> /\ view' = view /\ (open' => open)
           /\ task'.pc = "flush" /\ task'.view = task.view /\ task'.epoch = task.epoch
           /\ task'.got = task.got /\ task'.frames = Tail(task.frames)
           /\ f.view = task.view /\ f.epoch = task.epoch /\ f.kind \in {"snapshot", "part", "update", "page"}
           /\ f.kind # "snapshot" => task.view = "room"
           /\ task.got = Shown(log, task.view, task.source) /\ task.source \in 0..position
           /\ Kept(log, view[task.view].payload) \subseteq task.got
           /\ ~view[task.view].based => view[task.view].payload = {}
           /\ f.after = Kept(log, view[task.view].payload) /\ f.source \in {NoSource, task.source}
           /\ Brings(log, f, task)
           /\ f.kind = "part" => task.frames = <<"part", "page">> /\ ~view["room"].based
    BY <1>3, NextFrame
  <2>2. binding' = binding /\ log' = log /\ fence' = fence BY <1>1 DEF session, store
  <2>3. Wired(log, fence, wire, b) /\ Served(log, wire, b, open, r, task) BY DEF Fitting
  <2>4. open' /\ r.live /\ r.ready => r.based BY <2>1, <2>3 DEF Served
  <2>5. open /\ view[task.view].live /\ view[task.view].epoch = task.epoch BY <1>3 DEF Current
  <2>6. CASE ~(b.live /\ task.view = "room" /\ task.epoch = b.epoch)
    <3>1. MayFollow(log, wire, b, f) BY <2>1, <2>6 DEF MayFollow
    <3>. HIDE DEF b
    <3>2. Wired(log, fence, wire', b) BY <1>1, <2>1, <2>3, <3>1, Written
    <3>3. CASE ~b.live
      <4>1. Served(log, wire', b, open', view'["room"], task') BY <2>1, <2>4, <3>3 DEF Served
      <4>. QED BY <2>2, <3>2, <4>1 DEF Fitting, b
    <3>4. CASE b.live
      <4>1. Nothing(f, b) BY <2>1, <2>6, <3>4 DEF Nothing
      <4>2. AsMuch(log, wire, wire', b) BY <1>1, <2>1, <2>3, <3>1, <4>1, WrittenNothing
      <4>. QED BY <1>1, <2>1, <2>5, <2>6, <3>2, <3>4, <4>2, StreamFits, GoesOnSelf DEF b, Writing
    <3>. QED BY <3>3, <3>4
  <2>7. CASE b.live /\ task.view = "room" /\ task.epoch = b.epoch
    <3>1. Writing(task, r) /\ r.epoch = b.epoch /\ r.live /\ open BY <1>1, <2>5, <2>7 DEF Writing
    <3>. HIDE DEF b, r
    <3>2. /\ \A x \in r.payload : Has(log, wire, b, m, x)
          /\ ~r.based => ~Readied(wire, b, m)
          /\ Owes(wire, b, m) => task.frames = <<"page">>
          /\ \A x : Has(log, wire, b, m, x) => x \in task.got
          /\ task.frames = <<"page">> => \A x \in task.got : log[x] # "history" => Has(log, wire, b, m, x)
      BY <2>3, <2>7, <3>1 DEF Served, Fills
    <3>3. /\ \A x : x \in Kept(log, task.got) <=> x \in task.got /\ log[x] = "history"
          /\ f.after \subseteq r.payload /\ f.after \subseteq task.got
          /\ \A x \in f.content : x \in task.got
          /\ ~r.based => r.payload = {}
          /\ f.kind = "part" => ~r.based
          /\ f.view = "room" /\ f.epoch = b.epoch
      BY <2>1, <2>7 DEF Kept, Brings, r
    <3>4. f.kind \in {"snapshot", "page"} => \A x \in task.got : Has(log, wire, b, m, x) \/ x \in f.content
      BY <3>2, <3>3, <2>1 DEF Brings
    <3>5. task.got = Shown(log, "room", task.source) /\ \A x \in task.got : x \in Shown(log, "room", Len(log))
      BY <1>1, <2>1, <2>7 DEF Shown
    <3>6. MayFollow(log, wire, b, f)
      <4>. HIDE DEF m
      <4>1. f.kind = "snapshot" => \A x : Has(log, wire, b, m, x) => x \in f.content BY <2>1, <3>2 DEF Brings
      <4>2. f.kind \in {"part", "update"} => \A x : Has(log, wire, b, m, x) /\ log[x] # "history" => x \in f.content
        BY <2>1, <3>2, <3>3 DEF Brings
      <4>3. f.source # NoSource =>
              f.kind # "part" /\ \A x \in Shown(log, "room", f.source) : Has(log, wire, b, m, x) \/ x \in f.content
        BY <2>1, <3>4, <3>5 DEF Brings
      <4>4. f.kind = "part" => ~Readied(wire, b, m) BY <3>2, <3>3
      <4>5. \A x \in f.content : x \in Shown(log, "room", Len(log)) BY <3>3, <3>5
      <4>6. f.kind \notin {"ready", "coverage", "resync"} BY <2>1
      <4>. QED BY <4>1, <4>2, <4>3, <4>4, <4>5, <4>6 DEF MayFollow, m
    <3>7. Wired(log, fence, wire', b) /\ Adds(log, b, f, wire, m, wire', m2)
      BY <1>1, <2>1, <2>3, <3>6, Written
    <3>. HIDE DEF m, m2
    <3>8. /\ \A x : Has(log, wire', b, m2, x) <=>
                      \/ Has(log, wire, b, m, x) /\ ~(f.kind = "part" /\ log[x] = "history")
                      \/ x \in f.content
          /\ Owes(wire', b, m2) => f.kind \in {"part", "update"} \/ (Owes(wire, b, m) /\ f.kind # "page")
          /\ Readied(wire', b, m2) => Readied(wire, b, m)
      BY <2>1, <3>3, <3>7 DEF Adds
    <3>9. \A x \in r.payload : Has(log, wire', b, m2, x) BY <3>2, <3>3, <3>8
    <3>10. Fills(log, wire', b, task')
      <4>1. \A x : Has(log, wire', b, m2, x) => x \in task.got BY <3>2, <3>3, <3>8
      <4>2. f.kind \in {"part", "update"} => \A x \in task.got : log[x] # "history" => Has(log, wire', b, m2, x)
        BY <2>1, <3>3, <3>8 DEF Brings
      <4>3. f.kind \in {"snapshot", "page"} => \A x \in task.got : Has(log, wire', b, m2, x)
        <5>1. f.kind \in {"snapshot", "page"} => f.kind # "part" OBVIOUS
        <5>. QED BY <3>4, <3>8, <5>1
      <4>4. task'.got = task.got BY <2>1
      <4>5. task'.frames = <<"page">> => f.kind \in {"part", "update"}
        <5>1. <<>> # <<"page">> OBVIOUS
        <5>. QED BY <2>1, <5>1 DEF Brings
      <4>6. task'.frames = <<>> => f.kind \in {"snapshot", "page"}
        <5>1. <<>> # <<"page">> OBVIOUS
        <5>. QED BY <2>1, <5>1 DEF Brings
      <4>. QED BY <4>1, <4>2, <4>3, <4>4, <4>5, <4>6 DEF Fills, m2
    <3>11. Owes(wire', b, m2) => task'.frames = <<"page">>
      BY <2>1, <3>2, <3>8 DEF Brings
    <3>12. Writing(task', r) BY <2>1, <2>7, <3>1 DEF Writing
    <3>13. ~r.based => ~Readied(wire', b, m2) BY <3>2, <3>8
    <3>14. Served(log, wire', b, open', r, task')
      <4>1. task'.pc # "ready" BY <2>1
      <4>. QED BY <2>4, <3>9, <3>10, <3>11, <3>12, <3>13, <4>1 DEF Served, m2, r
    <3>. QED BY <2>1, <2>2, <3>7, <3>14 DEF Fitting, b, r
  <2>. QED BY <2>6, <2>7
<1>. QED BY <1>2, <1>3

LEMMA FlushedFits == ASSUME Types, InOrder, Sent, Fitting, Flushed, UNCHANGED session PROVE Fitting'
<1>. DEFINE v == task.view  b == binding["room"]  r == view["room"]  m == Len(wire)  m2 == Len(wire')
            c == Certified(view[v], task.got, task.source)
<1>1. UNCHANGED <<store, fence>> /\ v \in Views /\ view \in ViewsAt(position) /\ wire \in Seq(FramesAt(position))
      /\ position = Len(log) /\ position \in Nat /\ task.pc = "flush"
  BY Shapes DEF Flushed, position
<1>2. binding' = binding /\ log' = log /\ fence' = fence BY <1>1 DEF session, store
<1>3. Wired(log, fence, wire, b) /\ Served(log, wire, b, open, r, task) BY DEF Fitting
<1>4. CASE task.frames # <<>> /\ task' = [task EXCEPT !.pc = "write"] /\ UNCHANGED <<open, view, tail, wire>>
  <2>1. /\ task'.pc = "write" /\ task'.view = v /\ task'.epoch = task.epoch /\ task'.got = task.got
        /\ task'.frames = task.frames
    BY <1>4, Shapes DEF TasksAt
  <2>2. Writing(task', r) <=> Writing(task, r) BY <1>1, <2>1 DEF Writing
  <2>. HIDE DEF b, r
  <2>3. Fills(log, wire, b, task) => Fills(log, wire, b, task') BY <2>1 DEF Fills
  <2>4. open /\ r.live /\ b.live /\ r.epoch = b.epoch /\ Writing(task', r) => Fills(log, wire, b, task')
    BY <1>3, <2>2, <2>3 DEF Served
  <2>. QED BY <1>1, <1>4, <2>1, <2>2, <2>4, AsMuchAlways, GoesOnSelf, StreamFits DEF Fitting, b, r
<1>5. CASE task.frames = <<>> /\ End(view) /\ UNCHANGED <<open, wire>>
  <2>1. <<>> # <<"page">> OBVIOUS
  <2>. QED BY <1>1, <1>5, <2>1, EndFits, GoesOnSelf
<1>6. CASE task.frames = <<>> /\ Current(task) /\ ~Pending(v) /\ Settle(task.got, task.source)
  <2>1. task.source # NoSource BY <1>1 DEF Types, StreamTypes
  <2>2. [view EXCEPT ![v] = c] \in ViewsAt(position) BY <1>1, <2>1, CertifiedType
  <2>3. /\ view[v] \in ViewAt(position) /\ c.payload = task.got /\ c.based = TRUE /\ c.epoch = view[v].epoch
        /\ c.live = view[v].live /\ c.covered = (IF view[v].dirty THEN task.source ELSE position)
    <3>1. view[v] \in ViewAt(position) BY <1>1 DEF ViewsAt
    <3>. QED BY <3>1 DEF Certified, ViewAt
  <2>. HIDE DEF c
  <2>4. CASE view[v].based
    <3>1. End([view EXCEPT ![v] = c]) /\ UNCHANGED <<open, wire>> BY <1>6, <2>4 DEF Settle, c
    <3>2. CASE v = "rooms"
      <4>1. [view EXCEPT ![v] = c]["room"] = view["room"] BY <1>1, <3>2 DEF Views, ViewsAt
      <4>2. <<>> # <<"page">> OBVIOUS
      <4>. QED BY <1>1, <1>6, <2>2, <3>1, <4>1, <4>2, EndFits, GoesOnSelf
    <3>3. CASE v = "room"
      <4>1. task'.pc = "idle" /\ view'["room"].epoch = c.epoch /\ view'["room"].payload = c.payload /\ view'["room"].based
        <5>1. [view EXCEPT ![v] = c]["room"] = c BY <1>1, <3>3 DEF Views, ViewsAt
        <5>2. GoesOn(c, view'["room"]) /\ task'.pc = "idle"
          <6>. DEFINE vs == [view EXCEPT ![v] = c]
          <6>1. Leave(task, vs, tail) /\ vs \in ViewsAt(position) /\ task.view \in Views BY <1>1, <2>2, <3>1 DEF End
          <6>. HIDE DEF vs
          <6>2. GoesOn(vs["room"], view'["room"]) BY <6>1, LeaveGoesOn
          <6>3. task'.pc = "idle" BY <6>1, Shapes DEF Leave
          <6>. QED BY <5>1, <6>2, <6>3 DEF vs
        <5>. QED BY <2>3, <5>2 DEF GoesOn
      <4>2. ASSUME open, r.live, b.live, r.epoch = b.epoch
            PROVE  /\ \A x \in task.got : Has(log, wire, b, m, x)
                   /\ ~Owes(wire, b, m)
        <5>1. Writing(task, r)
          <6>1. task.epoch = r.epoch BY <1>6, <3>3 DEF Current
          <6>. QED BY <1>1, <3>3, <6>1 DEF Writing
        <5>2. <<>> # <<"page">> OBVIOUS
        <5>3. Served(log, wire, b, open, r, task) BY <1>3
        <5>. HIDE DEF b, r
        <5>. QED BY <1>6, <4>2, <5>1, <5>2, <5>3 DEF Served, Fills
      <4>3. view'["room"].live => r.live BY <3>1, <3>3, <1>6 DEF Current
      <4>4. ~Writing(task', view'["room"]) BY <4>1 DEF Writing
      <4>5. Served(log, wire, b, open, view'["room"], task')
        <5>1. view'["room"].epoch = r.epoch /\ view'["room"].payload = task.got BY <2>3, <3>3, <4>1
        <5>. HIDE DEF b, r
        <5>. QED BY <4>1, <4>2, <4>3, <4>4, <5>1 DEF Served, m
      <4>. QED BY <1>2, <1>3, <3>1, <4>5 DEF Fitting
    <3>. QED BY <1>1, <3>2, <3>3 DEF Views
  <2>5. CASE ~view[v].based
    <3>. DEFINE f == Frame(v, "ready", {}, {}, c.covered)
    <3>1. /\ view' = [view EXCEPT ![v] = c]
          /\ task' = [task EXCEPT !.pc = "ready", !.got = {}, !.source = NoSource]
          /\ Send(<<f>>)
      BY <1>6, <2>5 DEF Settle, c
    <3>2. open /\ open' \in BOOLEAN /\ wire' = wire \o <<f>> /\ task'.pc = "ready" /\ task'.view = v /\ task'.epoch = task.epoch
      BY <1>6, <3>1, Shapes DEF Send, TasksAt, Current
    <3>3. f \in FramesAt(position) /\ f.view = v /\ f.kind = "ready" /\ f.epoch = view[v].epoch /\ f.content = {}
          /\ f.source = c.covered
      <4>1. "ready" \in FrameKinds /\ {} \in SUBSET (1..position) BY DEF FrameKinds
      <4>2. c.covered \in -1..position
        <5>1. task.source \in -1..position /\ position \in -1..position BY <1>1, Shapes
        <5>. QED BY <2>3, <5>1
      <4>. QED BY <1>1, <4>1, <4>2, FrameType DEF Frame
    <3>. HIDE DEF f
    <3>4. CASE v = "rooms"
      <4>1. view'["room"] = view["room"] BY <1>1, <3>1, <3>4 DEF Views, ViewsAt
      <4>2. MayFollow(log, wire, b, f) BY <3>3, <3>4 DEF MayFollow
      <4>3. Nothing(f, b) BY <3>3, <3>4 DEF Nothing
      <4>. HIDE DEF b
      <4>4. Wired(log, fence, wire', b) /\ AsMuch(log, wire, wire', b)
        BY <1>1, <1>3, <3>2, <3>3, <4>2, <4>3, WrittenNothing
      <4>5. ~Writing(task, r) /\ ~Writing(task', r) BY <3>2, <3>4 DEF Writing
      <4>. QED BY <1>1, <3>2, <3>4, <4>1, <4>4, <4>5, StreamFits, GoesOnSelf DEF b
    <3>5. CASE v = "room"
      <4>1. view'["room"] = c BY <1>1, <3>1, <3>5 DEF Views, ViewsAt
      <4>2. Writing(task, r) /\ r.live
        <5>1. task.epoch = r.epoch /\ r.live BY <1>6, <3>5 DEF Current
        <5>. QED BY <1>1, <3>5, <5>1 DEF Writing
      <4>3. ASSUME b.live, r.epoch = b.epoch
            PROVE  (\A x \in task.got : Has(log, wire, b, m, x)) /\ ~Owes(wire, b, m)
        <5>1. <<>> # <<"page">> OBVIOUS
        <5>2. Served(log, wire, b, open, r, task) BY <1>3
        <5>. HIDE DEF b, r
        <5>. QED BY <1>6, <3>2, <4>2, <4>3, <5>1, <5>2 DEF Served, Fills
      <4>4. task.got = Shown(log, "room", c.covered)
        <5>1. /\ task.got = Shown(log, v, task.source)
              /\ ~r.dirty /\ ~Hold(watch, v) => task.got = Shown(log, v, Len(log))
          BY <1>1, <1>6, <3>5 DEF Sent, Writes, Current
        <5>2. ~Hold(watch, v) BY <1>6 DEF Pending, Hold
        <5>. QED BY <1>1, <2>3, <3>5, <5>1, <5>2
      <4>5. MayFollow(log, wire, b, f)
        <5>1. b.live /\ f.epoch = b.epoch => \A x \in Shown(log, "room", f.source) : Has(log, wire, b, m, x)
          BY <3>3, <3>5, <4>3, <4>4
        <5>. HIDE DEF b
        <5>. QED BY <3>3, <5>1 DEF MayFollow, m
      <4>. HIDE DEF b, r
      <4>6. Wired(log, fence, wire', b) /\ Adds(log, b, f, wire, m, wire', m2)
        BY <1>1, <1>3, <3>2, <3>3, <4>5, Written
      <4>. HIDE DEF m, m2
      <4>7. /\ \A x : Has(log, wire', b, m2, x) <=> Has(log, wire, b, m, x)
            /\ Owes(wire', b, m2) => Owes(wire, b, m)
        BY <3>3, <4>6 DEF Adds
      <4>8. c.epoch = r.epoch /\ c.payload = task.got /\ c.based BY <2>3, <3>5 DEF r
      <4>9. ~Writing(task', c) BY <3>2 DEF Writing
      <4>10. Served(log, wire', b, open', c, task')
        BY <4>3, <4>7, <4>8, <4>9 DEF Served, m2
      <4>. QED BY <1>2, <4>1, <4>6, <4>10 DEF Fitting, b
    <3>. QED BY <1>1, <3>4, <3>5 DEF Views
  <2>. QED BY <2>4, <2>5
<1>. QED BY <1>1, <1>4, <1>5, <1>6 DEF Flushed

LEMMA CoverageFits == ASSUME Types, InOrder, Sent, Fitting, Coverage, UNCHANGED session PROVE Fitting'
<1>. DEFINE cover(v) == Frame(v, "coverage", {}, {}, view[v].covered)
            covers(v) == IF Eligible(v) THEN <<cover(v)>> ELSE <<>>
            b == binding["room"]  r == view["room"]
            w1 == wire \o covers("rooms")  w2 == w1 \o covers("room")
<1>1. UNCHANGED <<store, fence, view, task>> /\ open /\ Send(covers("rooms") \o covers("room")) /\ (open' => open)
  BY DEF Coverage, Send
<1>2. "rooms" \in Views /\ "room" \in Views /\ wire \in Seq(FramesAt(position)) /\ view \in ViewsAt(position)
  BY Shapes DEF Views
<1>3. ASSUME NEW v \in Views PROVE view[v].covered \in -1..position /\ <<cover(v)>> \in Seq(FramesAt(position))
  <2>1. view[v].covered \in -1..position
    <3>1. view[v] \in ViewAt(position) BY <1>2 DEF ViewsAt
    <3>. QED BY <3>1 DEF ViewAt
  <2>2. "coverage" \in FrameKinds /\ {} \in SUBSET (1..position) BY DEF FrameKinds
  <2>. QED BY <2>1, <2>2, FrameType
<1>4. \A v \in Views : covers(v) \in Seq(FramesAt(position)) BY <1>3
<1>5. wire' = w2
  <2>. DEFINE rs == covers("rooms")  rm == covers("room")
  <2>1. rs \in Seq(FramesAt(position)) /\ rm \in Seq(FramesAt(position)) BY <1>2, <1>4
  <2>2. wire' = wire \o (rs \o rm) BY <1>1 DEF Send
  <2>. HIDE DEF rs, rm
  <2>3. (wire \o rs) \o rm = wire \o (rs \o rm) BY <1>2, <2>1, ConcatAssociative
  <2>. QED BY <2>2, <2>3 DEF rs, rm
<1>6. Wired(log, fence, w1, b) /\ AsMuch(log, wire, w1, b) /\ w1 \in Seq(FramesAt(position))
  <2>1. CASE Eligible("rooms")
    <3>1. w1 = wire \o <<cover("rooms")>> BY <2>1
    <3>2. w1 \in Seq(FramesAt(position)) BY <1>2, <1>3, <3>1, ConcatProperties
    <3>. HIDE DEF w1, b
    <3>. QED BY <1>2, <1>3, <3>1, <3>2, SignalFits DEF Fitting, b
  <2>2. CASE ~Eligible("rooms")
    <3>1. w1 = wire BY <1>2, <2>2, ConcatEmptySeq
    <3>. HIDE DEF w1
    <3>. QED BY <1>2, <3>1, AsMuchAlways DEF Fitting
  <2>. QED BY <2>1, <2>2
<1>7. ASSUME Eligible("room"), b.live, r.epoch = b.epoch
      PROVE  /\ \A x \in Shown(log, "room", r.covered) : Has(log, w1, b, Len(w1), x)
             /\ ~Owes(w1, b, Len(w1))
  <2>1. r.live /\ r.ready /\ ~r.failed /\ ~r.running BY <1>7 DEF Eligible
  <2>2. r.based BY <1>1, <2>1 DEF Fitting, Served
  <2>3. r.payload = Shown(log, "room", r.covered) BY <1>1, <1>2, <2>1, <2>2 DEF Sent, Told, States, Serves
  <2>4. ~Writing(task, r)
    <3>1. Writing(task, r) => r.running
      <4>1. Writing(task, r) => task.pc # "idle" /\ IsCurrent(task, open, view) /\ task.view = "room"
        BY <1>1, <2>1 DEF Writing, IsCurrent
      <4>. QED BY <4>1 DEF InOrder, Tokens, Holds
    <3>. QED BY <2>1, <3>1
  <2>5. /\ \A x \in r.payload : Has(log, wire, b, Len(wire), x)
        /\ ~Owes(wire, b, Len(wire))
    <3>1. Served(log, wire, b, open, r, task) BY DEF Fitting
    <3>. HIDE DEF b, r
    <3>. QED BY <1>1, <1>7, <2>1, <2>4, <3>1 DEF Served
  <2>. HIDE DEF w1, b, r
  <2>. QED BY <1>6, <2>3, <2>5 DEF AsMuch
<1>8. Wired(log, fence, w2, b) /\ AsMuch(log, w1, w2, b)
  <2>1. CASE Eligible("room")
    <3>1. w2 = w1 \o <<cover("room")>> BY <2>1
    <3>. HIDE DEF w1, w2
    <3>. QED BY <1>2, <1>3, <1>6, <1>7, <2>1, <3>1, SignalFits
  <2>2. CASE ~Eligible("room")
    <3>. HIDE DEF w1
    <3>1. w2 = w1 BY <1>6, <2>2, ConcatEmptySeq
    <3>. HIDE DEF w2
    <3>. QED BY <1>6, <3>1, AsMuchAlways
  <2>. QED BY <2>1, <2>2
<1>. HIDE DEF w1, w2, b, r
<1>9. AsMuch(log, wire, w2, b) BY <1>6, <1>8 DEF AsMuch
<1>10. Served(log, wire, b, open, r, task) BY DEF Fitting, b, r
<1>11. r.live /\ b.live /\ r.epoch = b.epoch /\ Writing(task, r) => Fills(log, wire, b, task)
  BY <1>1, <1>10 DEF Served
<1>12. task' = task /\ view' = view BY <1>1
<1>. QED BY <1>1, <1>5, <1>8, <1>9, <1>11, <1>12, GoesOnSelf, StreamFits DEF b, r

LEMMA MoreShown ==
  ASSUME NEW lg \in Seq(Kinds), NEW k \in Kinds, NEW fn, NEW w \in Seq(FramesAt(Len(lg))),
         NEW b \in BindingAt(Len(lg)), Wired(lg, fn, w, b)
  PROVE  LET lg2 == Append(lg, k) IN
         /\ Wired(lg2, fn, w, b)
         /\ \A n, x : Has(lg2, w, b, n, x) <=> Has(lg, w, b, n, x)
<1>. DEFINE lg2 == Append(lg, k)
<1>1. /\ Len(lg2) = Len(lg) + 1 /\ Len(lg) \in Nat
      /\ \A p \in 0..Len(lg) : Shown(lg2, "room", p) = Shown(lg, "room", p)
  BY Grown
<1>2. \A i \in 1..Len(lg) : lg2[i] = lg[i] BY AppendProperties
<1>3. \A i \in Mine(w, b) : w[i].content \in SUBSET (1..Len(lg)) /\ w[i].source \in -1..Len(lg)
  <2>. SUFFICES ASSUME NEW i \in 1..Len(w) PROVE w[i].content \in SUBSET (1..Len(lg)) /\ w[i].source \in -1..Len(lg)
    BY DEF Mine
  <2>1. w[i] \in FramesAt(Len(lg)) BY ElementOfSeq
  <2>. QED BY <2>1 DEF FramesAt
<1>4. b.pending \in SUBSET (1..Len(lg)) BY DEF BindingAt
<1>. HIDE DEF lg2
<1>5. ASSUME NEW n, NEW x PROVE Has(lg2, w, b, n, x) <=> Has(lg, w, b, n, x)
  <2>1. x \in b.pending => lg2[x] = lg[x] BY <1>2, <1>4
  <2>2. \A i \in Mine(w, b) : x \in w[i].content => lg2[x] = lg[x] BY <1>2, <1>3
  <2>. QED BY <2>1, <2>2 DEF Has
<1>6. ASSUME NEW n, NEW x, Has(lg, w, b, n, x) PROVE x \in 1..Len(lg) BY <1>3, <1>4, <1>6 DEF Has
<1>7. Wired(lg2, fn, w, b)
  <2>. SUFFICES ASSUME b.live PROVE Wired(lg2, fn, w, b) BY DEF Wired
  <2>1. \A x : Has(lg2, w, b, Len(w), x) => x \in Shown(lg2, "room", Len(lg2))
    <3>. SUFFICES ASSUME NEW x, Has(lg2, w, b, Len(w), x) PROVE x \in Shown(lg2, "room", Len(lg2)) OBVIOUS
    <3>1. x \in Shown(lg, "room", Len(lg)) BY <1>5 DEF Wired
    <3>. QED BY <1>1, <1>2, <3>1 DEF Shown
  <2>2. ASSUME NEW j \in Mine(w, b) PROVE FrameFits(lg2, w, b, j)
    <3>1. FrameFits(lg, w, b, j) BY DEF Wired
    <3>2. w[j].source # NoSource => Shown(lg2, "room", w[j].source) = Shown(lg, "room", w[j].source)
      BY <1>1, <1>3 DEF NoSource
    <3>3. \A x : Has(lg, w, b, j - 1, x) => lg2[x] = lg[x] BY <1>2, <1>6
    <3>. QED BY <1>5, <3>1, <3>2, <3>3 DEF FrameFits
  <2>. QED BY <2>1, <2>2 DEF Wired
<1>. QED BY <1>5, <1>7 DEF lg2

LEMMA PublishFits ==
  ASSUME Types, Fitting, NEW k \in Kinds, NEW w, Publish(k, w), UNCHANGED session
  PROVE  Fitting'
<1>. DEFINE b == binding["room"]  r == view["room"]  r2 == Heard("room", k, w, position + 1)
            f == Frame("room", "resync", {}, {}, NoSource)  lost == r2.failed /\ ~r.failed
<1>1. /\ log' = Append(log, k) /\ fence' = fence /\ (open' => open)
      /\ view' = [u \in Views |-> Heard(u, k, w, position + 1)]
      /\ task' = [task EXCEPT !.moved = @ \/ Moves(k, w)]
      /\ wire' = IF open THEN wire \o (IF lost THEN <<f>> ELSE <<>>) ELSE wire
  BY DEF Publish, Send, Views
<1>2. /\ task'.pc = task.pc /\ task'.view = task.view /\ task'.epoch = task.epoch /\ task'.got = task.got
      /\ task'.frames = task.frames
  BY <1>1, Shapes DEF TasksAt
<1>3. /\ log \in Seq(Kinds) /\ position = Len(log) /\ "room" \in Views /\ position \in Nat
      /\ wire \in Seq(FramesAt(position)) /\ task.got \in SUBSET (1..position) /\ b \in BindingAt(position)
      /\ r \in ViewAt(position)
  BY Shapes DEF Types, StoreTypes, SessionTypes, SessionsAt, Here, BindingsAt, position, Views, ViewsAt
<1>4. f \in FramesAt(position) /\ f.kind = "resync" /\ f.source = NoSource /\ f.content = {}
  <2>1. "resync" \in FrameKinds /\ {} \in SUBSET (1..position) /\ NoSource \in -1..position
    BY <1>3 DEF FrameKinds, NoSource
  <2>2. f \in FramesAt(position) BY <1>3, <2>1, FrameType
  <2>. QED BY <2>2 DEF Frame
<1>5. view'["room"] = r2 /\ GoesOn(r, r2)
  <2>1. GoesOn(r, r2) BY <1>3 DEF Heard, Schedule, ViewAt, GoesOn
  <2>. QED BY <1>1, <1>3, <2>1
<1>6. binding' = binding BY DEF session
<1>7. Wired(log', fence, wire, b) /\ \A n, x : Has(log', wire, b, n, x) <=> Has(log, wire, b, n, x)
  <2>1. Wired(log, fence, wire, b) BY DEF Fitting
  <2>. HIDE DEF b
  <2>. QED BY <1>1, <1>3, <2>1, MoreShown
<1>8. \A x \in task.got : log'[x] = log[x] BY <1>1, <1>3, AppendProperties
<1>. HIDE DEF f, lost, b, r, r2
<1>9. Fills(log, wire, b, task) => Fills(log', wire, b, task) BY <1>7, <1>8 DEF Fills
<1>10. Served(log', wire, b, open, r, task)
  <2>1. Served(log, wire, b, open, r, task) BY DEF Fitting, b, r
  <2>. QED BY <1>7, <1>9, <2>1 DEF Served
<1>11. Wired(log', fence, wire', b) /\ AsMuch(log', wire, wire', b)
  <2>1. CASE wire' = wire BY <1>7, <2>1, AsMuchAlways
  <2>2. CASE wire' = wire \o <<f>>
    <3>1. MayFollow(log', wire, b, f) /\ Nothing(f, b) BY <1>4 DEF MayFollow, Nothing
    <3>. QED BY <1>3, <1>4, <1>7, <2>2, <3>1, WrittenNothing
  <2>. QED BY <1>1, <1>3, <2>1, <2>2, ConcatEmptySeq
<1>12. Writing(task', r) <=> Writing(task, r) BY <1>2 DEF Writing
<1>13. open /\ r2.live /\ b.live /\ r.epoch = b.epoch /\ Writing(task, r) => Fills(log', wire, b, task')
  <2>1. Fills(log', wire, b, task) => Fills(log', wire, b, task') BY <1>2 DEF Fills
  <2>. QED BY <1>5, <1>10, <2>1 DEF Served, GoesOn
<1>14. Served(log', wire', b, open', r2, task')
  <2>1. /\ r2.epoch = r.epoch /\ r2.payload = r.payload /\ r2.based = r.based /\ (r2.live => r.live)
        /\ r2.ready => r.ready \/ r.based
    BY <1>5 DEF GoesOn
  <2>2. open' /\ r2.live /\ b.live /\ r.epoch = b.epoch /\ Writing(task', r) => Fills(log', wire, b, task')
    BY <1>1, <1>12, <1>13
  <2>3. AsMuch(log', wire, wire', b) /\ (open' => open) BY <1>1, <1>11
  <2>4. /\ task'.pc = "ready" /\ task'.view = "room" /\ task'.epoch = r.epoch =>
             task.pc = "ready" /\ task.view = "room" /\ task.epoch = r.epoch
        /\ Writing(task, r) /\ task.frames = <<"page">> => Writing(task', r) /\ task'.frames = <<"page">>
    BY <1>2, <1>12
  <2>. QED BY <1>10, <2>1, <2>2, <2>3, <2>4, ServedOn
<1>. QED BY <1>1, <1>5, <1>6, <1>11, <1>14 DEF Fitting, b

(* What is asked for and not yet registered has nothing on the wire. *)
LEMMA NoneMine ==
  ASSUME Types, NEW fn \in [Views -> Nat], Frames(log, wire, fn), NEW b, b.epoch \in Nat, fn["room"] < b.epoch
  PROVE  Mine(wire, b) = {}
<1>1. \A i \in 1..Len(wire) : wire[i].epoch \in Nat /\ wire[i].epoch <= fn[wire[i].view]
  <2>. TAKE i \in 1..Len(wire)
  <2>1. wire[i] \in FramesAt(position) BY Shapes, ElementOfSeq
  <2>. QED BY <2>1 DEF FramesAt, Frames, FrameOK
<1>2. fn["room"] \in Nat BY DEF Views
<1>. QED BY <1>1, <1>2 DEF Mine

LEMMA ServeFits ==
  ASSUME Types, InOrder, Coherent, Fitting, NEW p \in posts, Serve(p) PROVE Fitting'
<1>. DEFINE v == p.view  b == binding["room"]  r == view["room"]
<1>1. /\ v \in Views /\ p.epoch \in Nat /\ fence \in [Views -> Nat] /\ view \in ViewsAt(position)
      /\ "room" \in Views /\ b.epoch \in Nat
  <2>1. /\ fence \in [Views -> Nat] /\ view \in ViewsAt(position) /\ "room" \in Views
        /\ Here \in SessionsAt(position) /\ position \in Nat
    BY Shapes, HereIs DEF Views
  <2>2. binding["room"] \in BindingAt(position) BY <2>1 DEF SessionsAt, Here, BindingsAt
  <2>3. v \in Views /\ p.epoch \in Nat BY <2>1, PostTypes DEF Here
  <2>. QED BY <2>1, <2>2, <2>3 DEF BindingAt
<1>2. UNCHANGED <<log, binding, wire, task, open>> BY DEF Serve, Register, Remove
<1>3. fence'["room"] \in Nat /\ fence'["room"] >= fence["room"] BY <1>1 DEF Serve, Register, Remove
<1>4. Wired(log, fence, wire, b) /\ Served(log, wire, b, open, r, task) BY DEF Fitting
<1>5. Wired(log, fence', wire, b)
  <2>. HIDE DEF b
  <2>. QED BY <1>1, <1>3, <1>4 DEF Wired
<1>6. Served(log, wire, b, open, view'["room"], task)
  <2>1. CASE view'["room"] = r BY <1>4, <2>1
  <2>2. CASE ~view'["room"].live BY <2>2 DEF Served
  <2>3. CASE Register("room", p.epoch)
    <3>. DEFINE c == view'["room"]
    <3>1. /\ c.epoch = p.epoch /\ ~c.ready /\ ~c.based /\ c.payload = {} /\ p.epoch > fence["room"]
      <4>1. c = Schedule(Fresh(p.epoch)) BY <1>1, <2>3 DEF Register, ViewsAt
      <4>2. p.epoch > fence["room"] BY <2>3 DEF Register
      <4>. QED BY <4>1, <4>2 DEF Schedule, Fresh, Off
    <3>2. task.pc # "idle" /\ task.view = "room" => task.epoch # c.epoch
      <4>1. task.pc # "idle" => task.epoch \in Nat /\ task.epoch <= fence[task.view]
        BY Shapes DEF TasksAt, InOrder, Tokens, Holds
      <4>. QED BY <1>1, <3>1, <4>1
    <3>3. ~Writing(task, c) BY <3>2 DEF Writing
    <3>4. ASSUME b.live, c.epoch = b.epoch PROVE ~Readied(wire, b, Len(wire)) /\ ~Owes(wire, b, Len(wire))
      <4>1. fence["room"] < b.epoch BY <1>1, <3>1, <3>4
      <4>2. Mine(wire, b) = {}
        <5>. HIDE DEF b
        <5>. QED BY <1>1, <4>1, NoneMine DEF Coherent
      <4>. QED BY <1>4, <3>4, <4>1, <4>2 DEF Wired, Readied, Owes
    <3>. HIDE DEF b, c
    <3>5. Served(log, wire, b, open, c, task)
      <4>1. task.pc = "ready" /\ task.view = "room" => task.epoch # c.epoch BY <3>2
      <4>. QED BY <3>1, <3>3, <3>4, <4>1 DEF Served
    <3>. QED BY <3>5 DEF c
  <2>4. view'["room"] = r \/ ~view'["room"].live \/ Register("room", p.epoch)
    <3>1. ASSUME Register(v, p.epoch) PROVE view'["room"] = r \/ v = "room"
      BY <1>1, <3>1 DEF Register, ViewsAt
    <3>2. ASSUME Remove(v, p.epoch) PROVE view'["room"] = r \/ ~view'["room"].live
      BY <1>1, <3>2 DEF Remove, ViewsAt, Off
    <3>. QED BY <3>1, <3>2 DEF Serve
  <2>. QED BY <2>1, <2>2, <2>3, <2>4
<1>. QED BY <1>2, <1>5, <1>6 DEF Fitting

(* Both ends as a lost stream and the next one leave them. *)
Begun(b) == ~b.has /\ ~b.ready /\ b.pending = {}
LEMMA ClosedFits ==
  ASSUME Types, NEW o, Closed(o), NEW b, binding'["room"] = b, b.live => Begun(b) PROVE Fitting'
<1>1. "room" \in Views /\ view'["room"] = Off /\ ~Off.live /\ wire' = <<>> /\ Len(<<>>) = 0
  BY EmptySeq DEF Closed, Views, Off
<1>2. \A w : Len(w) = 0 => Mine(w, b) = {} BY DEF Mine
<1>3. Wired(log', fence', wire', b)
  <2>1. Mine(wire', b) = {} BY <1>1, <1>2
  <2>2. b.live => \A x : ~Has(log', wire', b, Len(wire'), x) BY <2>1 DEF Has, Begun
  <2>. QED BY <2>1, <2>2 DEF Wired, Begun
<1>4. Served(log', wire', b, open', view'["room"], task') BY <1>1 DEF Served
<1>. QED BY <1>3, <1>4 DEF Fitting

-----------------------------------------------------------------------------
(* The session's end. *)
Unwatched(u) == u.binding["room"] = Unbound /\ u.wanted = FALSE /\ u.poll["room"] = NoPoll
SamePage(s, u) == u.page.room = s.page.room /\ u.page.cached = s.page.cached /\ u.page.deleted = s.page.deleted
Aside(s, u) ==
  \/ Unwatched(u)
  \/ /\ u.binding["room"] = s.binding["room"] /\ u.wanted = s.wanted /\ u.poll["room"] = s.poll["room"]
     /\ SamePage(s, u)

LEMMA UnwatchIs == ASSUME NEW n, NEW s \in SessionsAt(n) PROVE Unwatched(Unwatch(s))
<1>1. /\ Unwatch(s).binding = [s.binding EXCEPT !["room"] = Unbound] /\ Unwatch(s).wanted = FALSE
      /\ Unwatch(s).poll = [s.poll EXCEPT !["room"] = NoPoll]
  BY DEF Unwatch, SessionsAt
<1>2. "room" \in Views /\ s.binding \in BindingsAt(n) /\ s.poll \in PollsAt(n) BY DEF SessionsAt, Views
<1>. QED BY <1>1, <1>2 DEF Unwatched, BindingsAt, PollsAt

LEMMA AsideOn ==
  ASSUME NEW s, NEW t, NEW u, Aside(s, t), Aside(t, u) PROVE Aside(s, u)
<1>1. CASE Unwatched(u) BY <1>1 DEF Aside
<1>2. CASE ~Unwatched(u)
  <2>1. /\ u.binding["room"] = t.binding["room"] /\ u.wanted = t.wanted /\ u.poll["room"] = t.poll["room"]
        /\ SamePage(t, u)
    BY <1>2 DEF Aside
  <2>2. ~Unwatched(t) BY <1>2, <2>1 DEF Unwatched
  <2>3. /\ t.binding["room"] = s.binding["room"] /\ t.wanted = s.wanted /\ t.poll["room"] = s.poll["room"]
        /\ SamePage(s, t)
    BY <2>2 DEF Aside
  <2>. QED BY <2>1, <2>3 DEF Aside, SamePage
<1>. QED BY <1>1, <1>2

LEMMA DeliverRoomsAside ==
  ASSUME NEW n, NEW s \in SessionsAt(n), NEW content \in SUBSET (1..n)
  PROVE  Aside(s, DeliverRooms(s, content))
<1>1. s.page \in PagesAt(n) BY DEF SessionsAt
<1>2. CASE Gone(content)
  <2>. DEFINE pg == [s.page EXCEPT !.rows = content, !.room = {}, !.cached = FALSE]  t == [s EXCEPT !.page = pg]
  <2>1. pg \in PagesAt(n) BY <1>1 DEF PagesAt
  <2>2. t = [s EXCEPT !.page.rows = content, !.page.room = {}, !.page.cached = FALSE] BY <1>1 DEF SessionsAt, PagesAt
  <2>3. t \in SessionsAt(n)
    <3>. HIDE DEF pg
    <3>. QED BY <2>1 DEF SessionsAt
  <2>4. DeliverRooms(s, content) = Unwatch(t) BY <1>2, <2>2 DEF DeliverRooms
  <2>. HIDE DEF t
  <2>. QED BY <2>3, <2>4, UnwatchIs DEF Aside
<1>3. CASE ~Gone(content)
  <2>. DEFINE t == [s EXCEPT !.page.rows = content]
  <2>1. DeliverRooms(s, content) = t BY <1>3 DEF DeliverRooms
  <2>2. /\ t.binding = s.binding /\ t.wanted = s.wanted /\ t.poll = s.poll
        /\ t.page.room = s.page.room /\ t.page.cached = s.page.cached /\ t.page.deleted = s.page.deleted
    BY <1>1 DEF SessionsAt, PagesAt
  <2>. HIDE DEF t
  <2>. QED BY <2>1, <2>2 DEF Aside, SamePage
<1>. QED BY <1>2, <1>3

Drawn(s, content, u) ==
  \/ Unwatched(u)
  \/ /\ u.binding = s.binding /\ u.wanted = s.wanted
     /\ u.page.room = content /\ u.page.cached = TRUE /\ u.page.deleted = s.page.deleted
     /\ u.poll["room"].on = s.poll["room"].on /\ u.poll["room"].pc = s.poll["room"].pc
LEMMA DeliverRoomIs ==
  ASSUME NEW n, NEW s \in SessionsAt(n), NEW content \in SUBSET (1..n), ~s.page.deleted
  PROVE  Drawn(s, content, DeliverRoom(s, content))
<1>1. s.page \in PagesAt(n) /\ s.poll \in PollsAt(n) /\ "room" \in Views BY DEF SessionsAt, Views
<1>2. CASE Gone(content)
  <2>. DEFINE pg == [s.page EXCEPT !.deleted = TRUE, !.room = {}, !.cached = FALSE]  t == [s EXCEPT !.page = pg]
  <2>1. pg \in PagesAt(n) BY <1>1 DEF PagesAt
  <2>2. t = [s EXCEPT !.page.deleted = TRUE, !.page.room = {}, !.page.cached = FALSE] BY <1>1 DEF SessionsAt, PagesAt
  <2>3. t \in SessionsAt(n)
    <3>. HIDE DEF pg
    <3>. QED BY <2>1 DEF SessionsAt
  <2>4. DeliverRoom(s, content) = Unwatch(t) BY <1>2, <2>2 DEF DeliverRoom
  <2>. HIDE DEF t
  <2>5. Unwatched(DeliverRoom(s, content)) BY <2>3, <2>4, UnwatchIs
  <2>. QED BY <2>5 DEF Drawn
<1>3. CASE ~Gone(content)
  <2>. DEFINE rows == IF Listed(s.page)
                      THEN (s.page.rows \ Only(s.page.rows, {"metadata"})) \cup Only(content, {"metadata"})
                      ELSE s.page.rows
              pg == [s.page EXCEPT !.room = content, !.cached = TRUE, !.rows = rows]
              t == [s EXCEPT !.page = pg]
  <2>1. t = [s EXCEPT !.page.room = content, !.page.cached = TRUE,
                      !.page.rows = IF Listed(s.page)
                                    THEN (@ \ Only(@, {"metadata"})) \cup Only(content, {"metadata"})
                                    ELSE @]
    BY <1>1 DEF SessionsAt, PagesAt
  <2>2. DeliverRoom(s, content) = Outdated(t) BY <1>3, <2>1 DEF DeliverRoom
  <2>. HIDE DEF rows
  <2>3. pg.room = content /\ pg.cached = TRUE /\ pg.deleted = s.page.deleted BY <1>1 DEF PagesAt
  <2>. HIDE DEF pg
  <2>4. /\ Outdated(t).binding = s.binding /\ Outdated(t).wanted = s.wanted /\ Outdated(t).page = pg
        /\ Outdated(t).poll = [s.poll EXCEPT !["room"].stale = s.poll["room"].on]
    BY DEF Outdated, SessionsAt
  <2>. HIDE DEF t
  <2>5. LET p == [s.poll EXCEPT !["room"].stale = s.poll["room"].on]["room"] IN
        p.on = s.poll["room"].on /\ p.pc = s.poll["room"].pc
    BY <1>1 DEF PollsAt, PollAt
  <2>. QED BY <2>2, <2>3, <2>4, <2>5 DEF Drawn
<1>. QED BY <1>2, <1>3

LEMMA RoomsAside ==
  ASSUME NEW n \in Nat, NEW s \in SessionsAt(n)
  PROVE  /\ Aside(s, Recover(s, "rooms")) /\ Aside(s, StopRecovery(s, "rooms")) /\ Aside(s, Bind(s, "rooms"))
         /\ \A c : Aside(s, [s EXCEPT !.binding["rooms"] = c])
         /\ \A source : Aside(s, Certify(s, "rooms", source))
         /\ \A content : Aside(s, Released(s, "rooms", content))
<1>1. s.binding \in BindingsAt(n) /\ s.poll \in PollsAt(n) /\ "room" \in Views /\ "rooms" \in Views /\ "rooms" # "room"
  BY DEF SessionsAt, Views
<1>2. \A u : /\ u.binding["room"] = s.binding["room"] /\ u.wanted = s.wanted /\ u.page = s.page
             /\ u.poll["room"] = s.poll["room"]
             => Aside(s, u)
  BY DEF Aside, SamePage
<1>3. ASSUME NEW q PROVE Aside(s, [s EXCEPT !.poll["rooms"] = q])
  <2>. DEFINE u == [s EXCEPT !.poll["rooms"] = q]
  <2>1. u.binding = s.binding /\ u.wanted = s.wanted /\ u.page = s.page /\ u.poll = [s.poll EXCEPT !["rooms"] = q]
    BY DEF SessionsAt
  <2>2. [s.poll EXCEPT !["rooms"] = q]["room"] = s.poll["room"] BY <1>1 DEF PollsAt
  <2>. HIDE DEF u
  <2>3. Aside(s, u) BY <1>2, <2>1, <2>2
  <2>. QED BY <2>3 DEF u
<1>4. ASSUME NEW c PROVE Aside(s, [s EXCEPT !.binding["rooms"] = c])
  <2>. DEFINE u == [s EXCEPT !.binding["rooms"] = c]
  <2>1. /\ u.binding = [s.binding EXCEPT !["rooms"] = c] /\ u.wanted = s.wanted /\ u.page = s.page /\ u.poll = s.poll
    BY DEF SessionsAt
  <2>2. [s.binding EXCEPT !["rooms"] = c]["room"] = s.binding["room"] BY <1>1 DEF BindingsAt
  <2>. HIDE DEF u
  <2>3. Aside(s, u) BY <1>2, <2>1, <2>2
  <2>. QED BY <2>3 DEF u
<1>5. Aside(s, s) BY <1>2
<1>6. Aside(s, Recover(s, "rooms"))
  <2>1. [s EXCEPT !.poll["rooms"].on = TRUE] = [s EXCEPT !.poll["rooms"] = [s.poll["rooms"] EXCEPT !.on = TRUE]]
    BY <1>1 DEF SessionsAt, PollsAt
  <2>. QED BY <1>3, <1>5, <2>1 DEF Recover
<1>7. Aside(s, StopRecovery(s, "rooms")) BY <1>3 DEF StopRecovery
<1>8. Aside(s, Bind(s, "rooms"))
  <2>. DEFINE e == s.asked["rooms"] + 1  u == Bind(s, "rooms")
  <2>1. CASE s.binding["rooms"].live BY <1>5, <2>1 DEF Bind
  <2>2. CASE ~s.binding["rooms"].live
    <3>1. /\ u.binding = [s.binding EXCEPT !["rooms"] = [Unbound EXCEPT !.live = TRUE, !.epoch = e]]
          /\ u.wanted = s.wanted /\ u.page = s.page /\ u.poll = s.poll
      BY <2>2 DEF Bind, SessionsAt
    <3>2. u.binding["room"] = s.binding["room"] BY <1>1, <3>1 DEF BindingsAt
    <3>. HIDE DEF u
    <3>3. Aside(s, u) BY <1>2, <3>1, <3>2
    <3>. QED BY <3>3 DEF u
  <2>. QED BY <2>1, <2>2
<1>9. ASSUME NEW source PROVE Aside(s, Certify(s, "rooms", source))
  <2>1. [s EXCEPT !.binding["rooms"].source = source]
        = [s EXCEPT !.binding["rooms"] = [s.binding["rooms"] EXCEPT !.source = source]]
    BY <1>1 DEF SessionsAt, BindingsAt
  <2>. QED BY <1>4, <1>5, <2>1 DEF Certify
<1>10. ASSUME NEW content PROVE Aside(s, Released(s, "rooms", content))
  <2>1. Aside(s, Unwatch(s)) BY UnwatchIs DEF Aside
  <2>. QED BY <1>5, <2>1 DEF Released
<1>. QED BY <1>4, <1>6, <1>7, <1>8, <1>9, <1>10

(* What a frame leaves in the binding of its view, and what the session does then. *)
Assembled(b, f) ==
  CASE f.kind \in {"snapshot", "page"} ->
         [b EXCEPT !.has = TRUE, !.whole = TRUE,
                   !.pending = IF f.kind = "snapshot" THEN f.content ELSE b.pending \cup f.content]
    [] f.kind = "part"   -> [b EXCEPT !.has = TRUE, !.whole = FALSE, !.pending = f.content]
    [] f.kind = "update" -> [b EXCEPT !.whole = FALSE, !.pending = Continued(b, f)]
    [] f.kind = "ready"  -> [b EXCEPT !.ready = TRUE]
    [] f.kind = "resync" -> [b EXCEPT !.failed = TRUE]
    [] OTHER             -> b
Applied(t, f, b, c) ==
  CASE f.kind \in {"snapshot", "page"} ->
         LET held == Released(t, f.view, c.pending) IN
         IF b.ready THEN Deliver(Certify(held, f.view, f.source), f.view, c.pending) ELSE held
    [] f.kind \in {"part", "update"} -> t
    [] f.kind = "ready" -> Deliver(StopRecovery(Certify(t, f.view, f.source), f.view), f.view, c.pending)
    [] f.kind = "coverage" -> Certify(t, f.view, f.source)
    [] f.kind = "resync" -> Recover(t, f.view)

LEMMA AssembledType ==
  ASSUME NEW n, NEW b \in BindingAt(n), NEW f \in FramesAt(n)
  PROVE  LET c == Assembled(b, f) IN
         c \in BindingAt(n) /\ TakenUp(b, f, [c EXCEPT !.source = Stated(b, f)])
<1>. DEFINE c == Assembled(b, f)  content == IF f.kind = "snapshot" THEN f.content ELSE b.pending \cup f.content
            more == Continued(b, f)
            source == Stated(b, f)
<1>1. f.kind \in FrameKinds /\ f.content \in SUBSET (1..n) /\ b.pending \in SUBSET (1..n)
  BY DEF FramesAt, BindingAt
<1>2. content \in SUBSET (1..n) /\ more \in SUBSET (1..n) BY <1>1 DEF Continued, History, Only
<1>. HIDE DEF content, more
<1>3. \/ f.kind \in {"snapshot", "page"} /\ c = [b EXCEPT !.has = TRUE, !.whole = TRUE, !.pending = content]
      \/ f.kind = "part" /\ c = [b EXCEPT !.has = TRUE, !.whole = FALSE, !.pending = f.content]
      \/ f.kind = "update" /\ c = [b EXCEPT !.whole = FALSE, !.pending = more]
      \/ f.kind = "ready" /\ c = [b EXCEPT !.ready = TRUE]
      \/ f.kind = "resync" /\ c = [b EXCEPT !.failed = TRUE]
      \/ f.kind = "coverage" /\ c = b
  BY <1>1 DEF Assembled, FrameKinds, content, more
<1>. HIDE DEF c
<1>4. c \in BindingAt(n) BY <1>1, <1>2, <1>3 DEF BindingAt
<1>. DEFINE d == [c EXCEPT !.source = source]
<1>. HIDE DEF source
<1>5. /\ d.live = c.live /\ d.epoch = c.epoch /\ d.ready = c.ready /\ d.failed = c.failed /\ d.has = c.has
      /\ d.whole = c.whole /\ d.pending = c.pending /\ d.source = source
  BY <1>4 DEF BindingAt
<1>. HIDE DEF d
<1>6. TakenUp(b, f, d)
  <2>1. /\ d.live = b.live /\ d.epoch = b.epoch
        /\ d.has = (b.has \/ f.kind \in {"snapshot", "page", "part"})
        /\ d.ready = (b.ready \/ f.kind = "ready") /\ d.failed = (b.failed \/ f.kind = "resync")
        /\ d.whole = IF f.kind \in {"snapshot", "page"} THEN TRUE
                     ELSE IF f.kind \in {"part", "update"} THEN FALSE ELSE b.whole
    <3>1. b.has \in BOOLEAN /\ b.ready \in BOOLEAN /\ b.failed \in BOOLEAN BY DEF BindingAt
    <3>2. CASE f.kind \in {"snapshot", "page"} BY <1>3, <1>5, <3>1, <3>2 DEF BindingAt
    <3>3. CASE f.kind = "part" BY <1>3, <1>5, <3>1, <3>3 DEF BindingAt
    <3>4. CASE f.kind = "update" BY <1>3, <1>5, <3>1, <3>4 DEF BindingAt
    <3>5. CASE f.kind = "ready" BY <1>3, <1>5, <3>1, <3>5 DEF BindingAt
    <3>6. CASE f.kind = "resync" BY <1>3, <1>5, <3>1, <3>6 DEF BindingAt
    <3>7. CASE f.kind = "coverage" BY <1>3, <1>5, <3>1, <3>7 DEF BindingAt
    <3>. QED BY <1>1, <3>2, <3>3, <3>4, <3>5, <3>6, <3>7 DEF FrameKinds
  <2>2. d.pending = CASE f.kind \in {"snapshot", "part"} -> f.content
                      [] f.kind = "page"                 -> b.pending \cup f.content
                      [] f.kind = "update"               -> Continued(b, f)
                      [] OTHER                           -> b.pending
    BY <1>3, <1>5 DEF BindingAt, content, more
  <2>. QED BY <1>5, <2>1, <2>2 DEF TakenUp, Takes, source
<1>. QED BY <1>4, <1>6 DEF d, c, source


LEMMA ApplyIs ==
  ASSUME Types, wire # <<>>
  PROVE  LET f == Head(wire)  c == Assembled(binding[f.view], f)  t == [Here EXCEPT !.binding[f.view] = c] IN
         /\ f \in FramesAt(position) /\ f.view \in Views /\ binding[f.view] \in BindingAt(position)
         /\ c \in BindingAt(position) /\ t \in SessionsAt(position)
         /\ Apply(f) = Applied(t, f, binding[f.view], c)
<1>. DEFINE f == Head(wire)  v == f.view  b == binding[v]
            content == IF f.kind = "snapshot" THEN f.content ELSE b.pending \cup f.content
            more == Continued(b, f)  c == Assembled(b, f)
            With(d) == [Here EXCEPT !.binding[v] = d]
<1>1. f \in FramesAt(position) BY Shapes, HeadTailProperties
<1>2. v \in Views /\ f.kind \in FrameKinds BY <1>1 DEF FramesAt
<1>3. position \in Nat /\ Here \in SessionsAt(position) /\ Here.binding = binding BY Shapes, HereIs DEF Here
<1>4. b \in BindingAt(position) BY <1>2, <1>3 DEF SessionsAt, BindingsAt
<1>5. c \in BindingAt(position) BY <1>1, <1>4, AssembledType
<1>6. With(c) \in SessionsAt(position) BY <1>2, <1>3, <1>5, HeldTypes
<1>. HIDE DEF f, v
<1>. HIDE DEF content, more
<1>20. [Here EXCEPT !.binding[v].has = TRUE, !.binding[v].whole = TRUE, !.binding[v].pending = content]
       = With([b EXCEPT !.has = TRUE, !.whole = TRUE, !.pending = content])
  BY <1>2, <1>3 DEF SessionsAt, BindingsAt, BindingAt
<1>21. [Here EXCEPT !.binding[v].has = TRUE, !.binding[v].whole = FALSE, !.binding[v].pending = f.content]
       = With([b EXCEPT !.has = TRUE, !.whole = FALSE, !.pending = f.content])
  BY <1>2, <1>3 DEF SessionsAt, BindingsAt, BindingAt
<1>22. [Here EXCEPT !.binding[v].whole = FALSE, !.binding[v].pending = more]
       = With([b EXCEPT !.whole = FALSE, !.pending = more])
  BY <1>2, <1>3 DEF SessionsAt, BindingsAt, BindingAt
<1>7. /\ [Here EXCEPT !.binding[v].ready = TRUE] = With([b EXCEPT !.ready = TRUE])
      /\ [Here EXCEPT !.binding[v].failed = TRUE] = With([b EXCEPT !.failed = TRUE])
      /\ With(b) = Here
  BY <1>2, <1>3 DEF SessionsAt, BindingsAt, BindingAt
<1>. HIDE DEF b, content, more, With
<1>8. Applied(With(c), f, b, c) =
        CASE f.kind \in {"snapshot", "page"} ->
               LET held == Released(With(c), v, c.pending) IN
               IF b.ready THEN Deliver(Certify(held, v, f.source), v, c.pending) ELSE held
          [] f.kind \in {"part", "update"} -> With(c)
          [] f.kind = "ready" -> Deliver(StopRecovery(Certify(With(c), v, f.source), v), v, c.pending)
          [] f.kind = "coverage" -> Certify(With(c), v, f.source)
          [] f.kind = "resync" -> Recover(With(c), v)
  BY DEF Applied, v
<1>9. CASE f.kind \in {"snapshot", "page"}
  <2>1. c = [b EXCEPT !.has = TRUE, !.whole = TRUE, !.pending = content] BY <1>9 DEF Assembled, content
  <2>2. c.pending = content BY <1>4, <2>1 DEF BindingAt
  <2>3. With(c) = [Here EXCEPT !.binding[v].has = TRUE, !.binding[v].whole = TRUE, !.binding[v].pending = content]
    BY <1>20, <2>1
  <2>. HIDE DEF c
  <2>4. Apply(f) = LET held == Released(With(c), v, content) IN
                   IF b.ready THEN Deliver(Certify(held, v, f.source), v, content) ELSE held
    BY <1>9, <2>3 DEF Apply, v, b, content
  <2>. QED BY <1>1, <1>2, <1>4, <1>5, <1>6, <1>8, <1>9, <2>2, <2>4 DEF f, v, b, With, c
<1>10. CASE f.kind = "part"
  <2>1. c = [b EXCEPT !.has = TRUE, !.whole = FALSE, !.pending = f.content] BY <1>10 DEF Assembled
  <2>2. With(c) = [Here EXCEPT !.binding[v].has = TRUE, !.binding[v].whole = FALSE, !.binding[v].pending = f.content]
    BY <1>21, <2>1
  <2>. HIDE DEF c
  <2>3. Apply(f) = With(c) BY <1>10, <2>2 DEF Apply, v
  <2>. QED BY <1>1, <1>2, <1>4, <1>5, <1>6, <1>8, <1>10, <2>3 DEF f, v, b, With, c
<1>11. CASE f.kind = "update"
  <2>1. c = [b EXCEPT !.whole = FALSE, !.pending = more] BY <1>11 DEF Assembled, more
  <2>2. With(c) = [Here EXCEPT !.binding[v].whole = FALSE, !.binding[v].pending = more]
    BY <1>22, <2>1
  <2>. HIDE DEF c
  <2>3. Apply(f) = With(c) BY <1>11, <2>2 DEF Apply, v, b, more
  <2>. QED BY <1>1, <1>2, <1>4, <1>5, <1>6, <1>8, <1>11, <2>3 DEF f, v, b, With, c
<1>12. CASE f.kind = "ready"
  <2>1. c = [b EXCEPT !.ready = TRUE] BY <1>12 DEF Assembled
  <2>2. With(c) = [Here EXCEPT !.binding[v].ready = TRUE] /\ c.pending = b.pending BY <1>4, <1>7, <2>1 DEF BindingAt
  <2>. HIDE DEF c
  <2>3. Apply(f) = Deliver(StopRecovery(Certify(With(c), v, f.source), v), v, c.pending)
    BY <1>12, <2>2 DEF Apply, v, b
  <2>. QED BY <1>1, <1>2, <1>4, <1>5, <1>6, <1>8, <1>12, <2>3 DEF f, v, b, With, c
<1>13. CASE f.kind = "resync"
  <2>1. c = [b EXCEPT !.failed = TRUE] BY <1>13 DEF Assembled
  <2>2. With(c) = [Here EXCEPT !.binding[v].failed = TRUE] BY <1>7, <2>1
  <2>. HIDE DEF c
  <2>3. Apply(f) = Recover(With(c), v) BY <1>13, <2>2 DEF Apply, v
  <2>. QED BY <1>1, <1>2, <1>4, <1>5, <1>6, <1>8, <1>13, <2>3 DEF f, v, b, With, c
<1>14. CASE f.kind = "coverage"
  <2>1. c = b BY <1>14 DEF Assembled
  <2>2. With(c) = Here BY <1>7, <2>1
  <2>. HIDE DEF c
  <2>3. Apply(f) = Certify(With(c), v, f.source) BY <1>14, <2>2 DEF Apply, v
  <2>. QED BY <1>1, <1>2, <1>4, <1>5, <1>6, <1>8, <1>14, <2>3 DEF f, v, b, With, c
<1>. QED BY <1>2, <1>9, <1>10, <1>11, <1>12, <1>13, <1>14 DEF FrameKinds, f

(* What a step of the session is made of, and its type. *)
Step(n, s, u) == Aside(s, u) /\ u \in SessionsAt(n)

LEMMA RoomsStep ==
  ASSUME NEW n \in Nat, NEW s \in SessionsAt(n), NEW content \in SUBSET (1..n), NEW source \in -1..n
  PROVE  /\ Step(n, s, StopRecovery(s, "rooms")) /\ Step(n, s, Recover(s, "rooms")) /\ Step(n, s, Bind(s, "rooms"))
         /\ Step(n, s, Certify(s, "rooms", source))
         /\ Step(n, s, Released(s, "rooms", content)) /\ Step(n, s, Deliver(s, "rooms", content))
<1>1. "rooms" \in Views BY DEF Views
<1>2. /\ StopRecovery(s, "rooms") \in SessionsAt(n) /\ Recover(s, "rooms") \in SessionsAt(n)
      /\ Bind(s, "rooms") \in SessionsAt(n)
      /\ Certify(s, "rooms", source) \in SessionsAt(n) /\ Deliver(s, "rooms", content) \in SessionsAt(n)
  BY <1>1, RecoverTypes, BindTypes, CertifyTypes, DeliverTypes
<1>3. Released(s, "rooms", content) \in SessionsAt(n) BY UnwatchTypes DEF Released
<1>4. Deliver(s, "rooms", content) = DeliverRooms(s, content) BY DEF Deliver
<1>5. Aside(s, DeliverRooms(s, content)) BY DeliverRoomsAside
<1>. QED BY <1>2, <1>3, <1>4, <1>5, RoomsAside DEF Step

LEMMA StepOn ==
  ASSUME NEW n, NEW s, NEW t, NEW u, Step(n, s, t), Step(n, t, u) PROVE Step(n, s, u)
BY AsideOn DEF Step

LEMMA StepType == ASSUME NEW n, NEW s, NEW u, Step(n, s, u) PROVE u \in SessionsAt(n)
BY DEF Step

LEMMA ApplyRooms ==
  ASSUME Types, wire # <<>>, Head(wire).view = "rooms" PROVE Step(position, Here, Apply(Head(wire)))
<1>. DEFINE f == Head(wire)  b == binding["rooms"]  c == Assembled(b, f)  t == [Here EXCEPT !.binding["rooms"] = c]
            n == position
<1>1. /\ f \in FramesAt(n) /\ c \in BindingAt(n) /\ t \in SessionsAt(n) /\ Apply(f) = Applied(t, f, b, c)
      /\ f.view = "rooms"
  BY ApplyIs
<1>2. n \in Nat /\ Here \in SessionsAt(n) BY Shapes, HereIs
<1>3. f.kind \in FrameKinds /\ f.source \in -1..n /\ c.pending \in SUBSET (1..n) BY <1>1 DEF FramesAt, BindingAt
<1>4. Step(n, Here, t) BY <1>1, <1>2, RoomsAside DEF Step
<1>. HIDE DEF f, b, c, t, n
<1>. DEFINE held == Released(t, "rooms", c.pending)  sure == Certify(held, "rooms", f.source)
            kept == Certify(t, "rooms", f.source)  done == StopRecovery(kept, "rooms")
<1>5. Step(n, Here, held) BY <1>1, <1>2, <1>3, <1>4, RoomsStep, StepOn
<1>6. Step(n, Here, kept) BY <1>1, <1>2, <1>3, <1>4, RoomsStep, StepOn
<1>7. Step(n, Here, Recover(t, "rooms")) BY <1>1, <1>2, <1>3, <1>4, RoomsStep, StepOn
<1>. HIDE DEF held, kept
<1>8. Step(n, Here, sure) BY <1>2, <1>3, <1>5, RoomsStep, StepOn, StepType
<1>9. Step(n, Here, done) BY <1>2, <1>3, <1>6, RoomsStep, StepOn, StepType
<1>. HIDE DEF sure, done
<1>10. Step(n, Here, Deliver(sure, "rooms", c.pending)) BY <1>2, <1>3, <1>8, RoomsStep, StepOn, StepType
<1>11. Step(n, Here, Deliver(done, "rooms", c.pending)) BY <1>2, <1>3, <1>9, RoomsStep, StepOn, StepType
<1>12. Apply(f) \in {held, Deliver(sure, "rooms", c.pending), t, Deliver(done, "rooms", c.pending), kept, Recover(t, "rooms")}
  <2>1. CASE f.kind \in {"snapshot", "page"} BY <1>1, <2>1 DEF Applied, held, sure
  <2>2. CASE f.kind \in {"part", "update"} BY <1>1, <2>2 DEF Applied
  <2>3. CASE f.kind = "ready" BY <1>1, <2>3 DEF Applied, kept, done
  <2>4. CASE f.kind = "coverage" BY <1>1, <2>4 DEF Applied, kept
  <2>5. CASE f.kind = "resync" BY <1>1, <2>5 DEF Applied
  <2>. QED BY <1>3, <2>1, <2>2, <2>3, <2>4, <2>5 DEF FrameKinds
<1>. QED BY <1>4, <1>5, <1>6, <1>7, <1>10, <1>11, <1>12 DEF f, n

(* What the session does with a frame of the room. *)
Shows(b, f) == f.kind = "ready" \/ (f.kind \in {"snapshot", "page"} /\ b.ready)
Taken(s, b, f, c, u) ==
  \/ Unwatched(u)
  \/ /\ u.binding["room"] = c /\ u.wanted = s.wanted /\ u.page.deleted = s.page.deleted
     /\ u.page.room = (IF Shows(b, f) THEN c.pending ELSE s.page.room)
     /\ u.page.cached = (IF Shows(b, f) THEN TRUE ELSE s.page.cached)
     /\ u.poll["room"].on = (IF f.kind = "ready" THEN FALSE ELSE IF f.kind = "resync" THEN TRUE
                             ELSE s.poll["room"].on)
     /\ u.poll["room"].pc = (IF f.kind = "ready" THEN "idle" ELSE s.poll["room"].pc)

LEMMA AssembledSource ==
  ASSUME NEW n, NEW b \in BindingAt(n), NEW f \in FramesAt(n), NEW source
  PROVE  LET c == [Assembled(b, f) EXCEPT !.source = source] IN
         /\ Assembled(b, f).source = b.source
         /\ c.pending = Assembled(b, f).pending
         /\ source = b.source => c = Assembled(b, f)
<1>. DEFINE c == Assembled(b, f)
<1>1. f.kind \in FrameKinds BY DEF FramesAt
<1>2. c \in BindingAt(n) BY AssembledType
<1>3. c.source = b.source
  <2>1. CASE f.kind \in {"snapshot", "page"} BY <2>1 DEF Assembled, BindingAt
  <2>2. CASE f.kind = "part" BY <2>2 DEF Assembled, BindingAt
  <2>3. CASE f.kind = "update" BY <2>3 DEF Assembled, BindingAt
  <2>4. CASE f.kind \in {"ready", "resync"} BY <2>4 DEF Assembled, BindingAt
  <2>5. CASE f.kind = "coverage" BY <2>5 DEF Assembled
  <2>. QED BY <1>1, <2>1, <2>2, <2>3, <2>4, <2>5 DEF FrameKinds
<1>. HIDE DEF c
<1>4. [c EXCEPT !.source = source].pending = c.pending BY <1>2 DEF BindingAt
<1>5. source = b.source => [c EXCEPT !.source = source] = c BY <1>2, <1>3 DEF BindingAt
<1>. QED BY <1>3, <1>4, <1>5 DEF c

LEMMA RoomReaders ==
  ASSUME NEW n, NEW s \in SessionsAt(n)
  PROVE  /\ \A u \in {Recover(s, "room"), StopRecovery(s, "room")} :
              u.binding = s.binding /\ u.wanted = s.wanted /\ u.page = s.page
         /\ Recover(s, "room").poll["room"].on = TRUE
         /\ Recover(s, "room").poll["room"].pc = s.poll["room"].pc
         /\ StopRecovery(s, "room").poll["room"] = NoPoll
<1>1. "room" \in Views /\ s.poll \in PollsAt(n) /\ s.poll["room"].on \in BOOLEAN BY DEF SessionsAt, PollsAt, PollAt, Views
<1>2. \A u \in {Recover(s, "room"), StopRecovery(s, "room")} :
           u.binding = s.binding /\ u.wanted = s.wanted /\ u.page = s.page
  BY DEF Recover, StopRecovery, SessionsAt
<1>3. Recover(s, "room").poll["room"].on = TRUE /\ Recover(s, "room").poll["room"].pc = s.poll["room"].pc
  <2>1. CASE s.poll["room"].on BY <1>1, <2>1 DEF Recover
  <2>2. CASE ~s.poll["room"].on
    <3>1. Recover(s, "room").poll = [s.poll EXCEPT !["room"].on = TRUE] BY <2>2 DEF Recover, SessionsAt
    <3>. QED BY <1>1, <3>1 DEF PollsAt, PollAt
  <2>. QED BY <2>1, <2>2
<1>4. StopRecovery(s, "room").poll["room"] = NoPoll
  <2>1. StopRecovery(s, "room").poll = [s.poll EXCEPT !["room"] = NoPoll] BY DEF StopRecovery, SessionsAt
  <2>. QED BY <1>1, <2>1 DEF PollsAt
<1>. QED BY <1>2, <1>3, <1>4

LEMMA ApplyRoom ==
  ASSUME Types, wire # <<>>, Head(wire).view = "room", ~page.deleted
  PROVE  \E c \in BindingAt(position) :
           /\ TakenUp(binding["room"], Head(wire), c)
           /\ Taken(Here, binding["room"], Head(wire), c, Apply(Head(wire)))
<1>. DEFINE f == Head(wire)  b == binding["room"]  a == Assembled(b, f)  t == [Here EXCEPT !.binding["room"] = a]
            n == position  c == [a EXCEPT !.source = Stated(b, f)]  s == Here
            kept == Certify(t, "room", f.source)
<1>1. /\ f \in FramesAt(n) /\ b \in BindingAt(n) /\ a \in BindingAt(n) /\ t \in SessionsAt(n)
      /\ Apply(f) = Applied(t, f, b, a) /\ f.view = "room"
  BY ApplyIs
<1>2. n \in Nat /\ s \in SessionsAt(n) /\ ~s.page.deleted /\ "room" \in Views BY Shapes, HereIs DEF Here, Views
<1>3. f.kind \in FrameKinds /\ f.source \in -1..n /\ a.pending \in SUBSET (1..n) /\ b.source \in -1..n
  BY <1>1 DEF FramesAt, BindingAt
<1>4. TakenUp(b, f, c) BY <1>1, AssembledType
<1>5. Stated(b, f) \in -1..n /\ c \in BindingAt(n) /\ c.pending = a.pending
  <2>1. Stated(b, f) \in -1..n BY <1>3 DEF Stated
  <2>2. [a EXCEPT !.source = Stated(b, f)] \in BindingAt(n)
    <3>. HIDE DEF a
    <3>. QED BY <1>1, <2>1 DEF BindingAt
  <2>. QED BY <1>1, <2>1, <2>2, AssembledSource
<1>6. Stated(b, f) = b.source => c = a BY <1>1, AssembledSource
<1>. HIDE DEF a
<1>7. t.binding["room"] = a /\ t.wanted = s.wanted /\ t.page = s.page /\ t.poll = s.poll
  BY <1>1, <1>2 DEF SessionsAt, BindingsAt
<1>8. kept \in SessionsAt(n) BY <1>1, <1>2, <1>3, CertifyTypes
<1>9. /\ kept.wanted = s.wanted /\ kept.page = s.page /\ kept.poll = s.poll
      /\ kept.binding["room"] = IF f.source = NoSource THEN a ELSE [a EXCEPT !.source = f.source]
  <2>1. CASE f.source = NoSource BY <1>7, <2>1 DEF Certify
  <2>2. CASE f.source # NoSource
    <3>1. kept.binding = [t.binding EXCEPT !["room"] = [t.binding["room"] EXCEPT !.source = f.source]]
          /\ kept.wanted = t.wanted /\ kept.page = t.page /\ kept.poll = t.poll
      <4>. HIDE DEF t
      <4>1. kept = [t EXCEPT !.binding["room"].source = f.source] BY <2>2 DEF Certify
      <4>. HIDE DEF kept
      <4>. QED BY <1>1, <4>1 DEF SessionsAt
    <3>2. t.binding \in BindingsAt(n) BY <1>1 DEF SessionsAt
    <3>. HIDE DEF t, kept
    <3>. QED BY <1>2, <1>7, <2>2, <3>1, <3>2 DEF BindingsAt
  <2>. QED BY <2>1, <2>2
<1>. HIDE DEF f, b, t, n, s, kept
<1>10. f.kind \in {"ready", "coverage"} \/ (f.kind \in {"snapshot", "page"} /\ b.ready) => kept.binding["room"] = c
  BY <1>6, <1>9 DEF Stated
<1>. HIDE DEF c
<1>11. CASE f.kind \in {"snapshot", "page"} /\ b.ready
  <2>1. Apply(f) = DeliverRoom(kept, a.pending)
    BY <1>1, <1>11 DEF Applied, Released, Deliver, kept
  <2>2. Shows(b, f) BY <1>11 DEF Shows
  <2>3. kept.binding["room"] = c /\ ~kept.page.deleted BY <1>2, <1>9, <1>10, <1>11
  <2>. DEFINE u == DeliverRoom(kept, a.pending)
  <2>4. Drawn(kept, a.pending, u)
    BY <1>3, <1>8, <2>3, DeliverRoomIs
  <2>. HIDE DEF u
  <2>5. Taken(s, b, f, c, u) BY <1>5, <1>9, <1>11, <2>2, <2>3, <2>4 DEF Taken, Drawn
  <2>. QED BY <1>4, <1>5, <2>1, <2>5 DEF u, s, f, b, n
<1>12. CASE f.kind \in {"snapshot", "page"} /\ ~b.ready
  <2>1. Apply(f) = t BY <1>1, <1>12 DEF Applied, Released
  <2>2. ~Shows(b, f) /\ c = a BY <1>6, <1>12 DEF Shows, Stated
  <2>3. Taken(s, b, f, c, t) BY <1>7, <1>12, <2>2 DEF Taken
  <2>. QED BY <1>4, <1>5, <2>1, <2>3 DEF s, f, b, n
<1>13. CASE f.kind \in {"part", "update"}
  <2>1. Apply(f) = t BY <1>1, <1>13 DEF Applied
  <2>2. ~Shows(b, f) /\ c = a BY <1>6, <1>13 DEF Shows, Stated
  <2>3. Taken(s, b, f, c, t) BY <1>7, <1>13, <2>2 DEF Taken
  <2>. QED BY <1>4, <1>5, <2>1, <2>3 DEF s, f, b, n
<1>14. CASE f.kind = "ready"
  <2>. DEFINE q == StopRecovery(kept, "room")  u == DeliverRoom(q, a.pending)
  <2>1. Apply(f) = u BY <1>1, <1>14 DEF Applied, Deliver, kept
  <2>2. q \in SessionsAt(n) BY <1>2, <1>8, RecoverTypes
  <2>3. /\ q.binding = kept.binding /\ q.wanted = kept.wanted /\ q.page = kept.page /\ q.poll["room"] = NoPoll
    BY <1>8, RoomReaders
  <2>4. Shows(b, f) /\ kept.binding["room"] = c /\ ~kept.page.deleted /\ NoPoll.on = FALSE /\ NoPoll.pc = "idle"
    BY <1>2, <1>9, <1>10, <1>14 DEF Shows, NoPoll
  <2>. HIDE DEF q
  <2>5. Drawn(q, a.pending, u)
    BY <1>3, <2>2, <2>3, <2>4, DeliverRoomIs
  <2>. HIDE DEF u
  <2>6. Taken(s, b, f, c, u) BY <1>5, <1>9, <1>14, <2>3, <2>4, <2>5 DEF Taken, Drawn
  <2>. QED BY <1>4, <1>5, <2>1, <2>6 DEF s, f, b, n
<1>15. CASE f.kind = "coverage"
  <2>1. Apply(f) = kept BY <1>1, <1>15 DEF Applied, kept
  <2>2. ~Shows(b, f) /\ kept.binding["room"] = c BY <1>10, <1>15 DEF Shows
  <2>3. Taken(s, b, f, c, kept) BY <1>9, <1>15, <2>2 DEF Taken
  <2>. QED BY <1>4, <1>5, <2>1, <2>3 DEF s, f, b, n
<1>16. CASE f.kind = "resync"
  <2>. DEFINE u == Recover(t, "room")
  <2>1. Apply(f) = u BY <1>1, <1>16 DEF Applied
  <2>2. ~Shows(b, f) /\ c = a BY <1>6, <1>16 DEF Shows, Stated
  <2>3. /\ u.binding = t.binding /\ u.wanted = t.wanted /\ u.page = t.page /\ u.poll["room"].on = TRUE
        /\ u.poll["room"].pc = t.poll["room"].pc
    BY <1>1, RoomReaders
  <2>. HIDE DEF u
  <2>4. Taken(s, b, f, c, u) BY <1>7, <1>16, <2>2, <2>3 DEF Taken
  <2>. QED BY <1>4, <1>5, <2>1, <2>4 DEF s, f, b, n
<1>. QED BY <1>3, <1>11, <1>12, <1>13, <1>14, <1>15, <1>16 DEF FrameKinds

(* What a page that shows the room goes with, and what the stream vouches for. *)
Base(s) ==
  LET b == s.binding["room"] IN
  /\ s.page.deleted => ~s.wanted
  /\ s.poll["room"].pc # "idle" => s.poll["room"].on
  /\ b.live => s.wanted
  /\ b.ready => b.has
  /\ ~b.ready => b.source = NoSource
Sure(s) == LET b == s.binding["room"] IN b.live /\ b.ready /\ ~b.failed
Held(lg, s) ==
  LET b == s.binding["room"] IN
  Sure(s) =>
    /\ s.page.cached = TRUE
    /\ s.page.room \subseteq b.pending
    /\ b.whole => s.page.room = b.pending
    /\ Shown(lg, "room", b.source) \subseteq s.page.room
    /\ ~s.poll["room"].on
Gains(s, u) ==
  Sure(s) /\ Sure(u) => s.page.room \subseteq u.page.room /\ s.binding["room"].source <= u.binding["room"].source
Good(lg, s, u) == Base(u) /\ Held(lg, u) /\ Gains(s, u)

LEMMA UnsureGood == ASSUME NEW lg, NEW s, NEW u, Base(u), ~Sure(u) PROVE Good(lg, s, u)
BY DEF Good, Held, Gains

LEMMA UnwatchedGood == ASSUME NEW lg, NEW s, NEW u, Unwatched(u) PROVE Good(lg, s, u)
<1>1. Base(u) /\ ~Sure(u) BY DEF Base, Sure, Unwatched, Unbound, NoPoll
<1>. QED BY <1>1, UnsureGood

LEMMA AsideGood ==
  ASSUME NEW n \in Nat, NEW s \in SessionsAt(n), NEW lg, Base(s), Held(lg, s), NEW u, Aside(s, u)
  PROVE  Good(lg, s, u)
<1>1. CASE Unwatched(u) BY <1>1, UnwatchedGood
<1>2. CASE ~Unwatched(u)
  <2>1. s.binding["room"].source \in -1..n BY DEF SessionsAt, BindingsAt, BindingAt, Views
  <2>2. s.binding["room"].source <= s.binding["room"].source
    <3>1. \A p \in -1..n : p <= p OBVIOUS
    <3>. QED BY <2>1, <3>1
  <2>3. /\ u.binding["room"] = s.binding["room"] /\ u.wanted = s.wanted /\ u.poll["room"] = s.poll["room"]
        /\ u.page.room = s.page.room /\ u.page.cached = s.page.cached /\ u.page.deleted = s.page.deleted
    BY <1>2 DEF Aside, SamePage
  <2>4. Base(u) BY <2>3 DEF Base
  <2>5. Sure(u) <=> Sure(s) BY <2>3 DEF Sure
  <2>6. Held(lg, u) BY <2>3, <2>5 DEF Held
  <2>7. Gains(s, u) BY <2>2, <2>3 DEF Gains
  <2>. QED BY <2>4, <2>6, <2>7 DEF Good
<1>. QED BY <1>1, <1>2

(* The room's binding goes on as it was, is gone, or is one the daemon has not heard of. *)
Passes(b, d) ==
  \/ ~d.live
  \/ StaysAs(b, d)
  \/ Begun(d) /\ d.epoch \in Nat /\ d.epoch > fence["room"]

LEMMA PassesWired ==
  ASSUME Types, InOrder, Coherent, Fitting, NEW d, Passes(binding["room"], d)
  PROVE  Wired(log, fence, wire, d) /\ Served(log, wire, d, open, view["room"], task)
<1>. DEFINE b == binding["room"]  r == view["room"]
<1>1. Wired(log, fence, wire, b) /\ Served(log, wire, b, open, r, task) BY DEF Fitting
<1>2. /\ fence \in [Views -> Nat] /\ "room" \in Views /\ r.epoch \in Nat /\ r.epoch <= fence["room"]
      /\ fence["room"] \in Nat
  <2>1. fence \in [Views -> Nat] /\ "room" \in Views /\ r \in ViewAt(position) BY Shapes DEF Views, ViewsAt
  <2>2. r.epoch <= fence["room"] BY <2>1 DEF InOrder, Tokens, Bound
  <2>. QED BY <2>1, <2>2 DEF ViewAt
<1>. HIDE DEF b, r
<1>3. CASE ~d.live
  <2>1. Wired(log, fence, wire, d) BY <1>3 DEF Wired
  <2>2. Served(log, wire, d, open, r, task) BY <1>1, <1>3 DEF Served
  <2>. QED BY <2>1, <2>2 DEF r
<1>4. CASE StaysAs(b, d)
  <2>1. Mine(wire, d) = Mine(wire, b) BY <1>4 DEF Mine, StaysAs
  <2>2. \A k, n : Cut(wire, d, k, n) <=> Cut(wire, b, k, n) BY <2>1 DEF Cut
  <2>3. \A n, x : Has(log, wire, d, n, x) <=> Has(log, wire, b, n, x) BY <1>4, <2>1, <2>2 DEF Has, StaysAs
  <2>4. \A n : Owes(wire, d, n) <=> Owes(wire, b, n) BY <1>4, <2>1 DEF Owes, StaysAs
  <2>5. \A n : Readied(wire, d, n) <=> Readied(wire, b, n) BY <1>4, <2>1 DEF Readied, StaysAs
  <2>6. \A j : FrameFits(log, wire, d, j) <=> FrameFits(log, wire, b, j) BY <2>3, <2>4, <2>5 DEF FrameFits
  <2>7. Wired(log, fence, wire, d) BY <1>1, <1>4, <2>1, <2>3, <2>6 DEF Wired, StaysAs
  <2>8. Fills(log, wire, b, task) => Fills(log, wire, d, task) BY <2>3 DEF Fills
  <2>9. Served(log, wire, d, open, r, task) BY <1>1, <1>4, <2>3, <2>4, <2>5, <2>8 DEF Served, StaysAs
  <2>. QED BY <2>7, <2>9 DEF r
<1>5. CASE Begun(d) /\ d.epoch \in Nat /\ d.epoch > fence["room"]
  <2>1. fence["room"] < d.epoch /\ r.epoch # d.epoch BY <1>2, <1>5
  <2>2. Mine(wire, d) = {} BY <1>2, <1>5, <2>1, NoneMine DEF Coherent
  <2>3. \A n, x : ~Has(log, wire, d, n, x) BY <1>5, <2>2 DEF Has, Begun
  <2>4. Wired(log, fence, wire, d) BY <1>5, <2>2, <2>3 DEF Wired, Begun
  <2>5. Served(log, wire, d, open, r, task) BY <1>1, <2>1 DEF Served
  <2>. QED BY <2>4, <2>5 DEF r
<1>. QED BY <1>3, <1>4, <1>5 DEF Passes, b

(* The room's binding once the next frame of the wire is read. *)
Reads1(b, f, d) ==
  d.live => /\ b.live
            /\ b.ready => b.has
            /\ IF f.view = "room" /\ f.epoch = b.epoch THEN TakenUp(b, f, d) ELSE StaysAs(b, d)

LEMMA ReadWired ==
  ASSUME Types, InOrder, Coherent, Fitting, wire # <<>>, NEW d, Reads1(binding["room"], Head(wire), d)
  PROVE  Wired(log, fence, Tail(wire), d) /\ Served(log, Tail(wire), d, open, view["room"], task)
<1>. DEFINE b == binding["room"]  r == view["room"]  f == Head(wire)  rest == Tail(wire)  w == wire
            m == Len(rest)
<1>1. /\ w \in Seq(FramesAt(position)) /\ f \in FramesAt(position) /\ rest \in Seq(FramesAt(position))
      /\ Len(w) \in Nat \ {0} /\ m \in Nat /\ m = Len(w) - 1 /\ f = w[1]
      /\ \A i \in 1..m : rest[i] = w[i + 1]
  BY Shapes, HeadTailProperties, EmptySeq, LenProperties
<1>2. f.kind \in FrameKinds /\ f.epoch \in Nat BY <1>1 DEF FramesAt
<1>3. b \in BindingAt(position) /\ fence \in [Views -> Nat] /\ fence["room"] \in Nat
  BY Shapes, HereIs DEF SessionsAt, Here, BindingsAt, Views
<1>4. b.has \in BOOLEAN /\ b.ready \in BOOLEAN /\ b.whole \in BOOLEAN /\ b.epoch \in Nat BY <1>3 DEF BindingAt
<1>5. Wired(log, fence, w, b) /\ Served(log, w, b, open, r, task) BY DEF Fitting
<1>6. Reads1(b, f, d) OBVIOUS
<1>7. fence["room"] < b.epoch => Mine(w, b) = {} BY <1>3, <1>4, NoneMine DEF Coherent
<1>. HIDE DEF b, r, f, rest, w, m
<1>8. ASSUME ~d.live PROVE Wired(log, fence, rest, d) /\ Served(log, rest, d, open, r, task)
  <2>1. Wired(log, fence, rest, d) BY <1>8 DEF Wired
  <2>2. Served(log, rest, d, open, r, task) BY <1>5, <1>8 DEF Served
  <2>. QED BY <2>1, <2>2
<1>9. ASSUME d.live PROVE Wired(log, fence, rest, d) /\ Served(log, rest, d, open, r, task)
  <2>. DEFINE mine == f.view = "room" /\ f.epoch = b.epoch
  <2>1. b.live /\ (b.ready => b.has) /\ IF mine THEN TakenUp(b, f, d) ELSE StaysAs(b, d)
    BY <1>6, <1>9 DEF Reads1
  <2>2. mine <=> 1 \in Mine(w, b) BY <1>1 DEF Mine
  <2>3. mine => FrameFits(log, w, b, 1) BY <1>5, <2>1, <2>2 DEF Wired
  <2>4. ASSUME NEW n \in 0..m
        PROVE  /\ \A x : Has(log, rest, d, n, x) <=> Has(log, w, b, n + 1, x)
               /\ Owes(rest, d, n) => Owes(w, b, n + 1)
               /\ Readied(rest, d, n) <=> Readied(w, b, n + 1)
    <3>1. OneRead(w, rest, f, b, d) BY <1>1, <1>2, <1>4, <2>1, <2>3 DEF OneRead, m
    <3>2. n \in 0..Len(rest) BY <2>4 DEF m
    <3>3. ReadsOn(rest, d, w, b, n) BY <3>1, <3>2, HeadRead
    <3>. QED BY <3>3 DEF ReadsOn
  <2>5. d.live = b.live /\ d.epoch = b.epoch BY <2>1 DEF TakenUp, Takes, StaysAs
  <2>. HIDE DEF mine
  <2>6. m \in 0..m /\ m + 1 = Len(w) BY <1>1
  <2>7. /\ \A x : Has(log, rest, d, m, x) <=> Has(log, w, b, Len(w), x)
        /\ Owes(rest, d, m) => Owes(w, b, Len(w))
        /\ Readied(rest, d, m) <=> Readied(w, b, Len(w))
    BY <2>4, <2>6
  <2>8. fence["room"] < d.epoch => ~d.has /\ ~d.ready /\ d.pending = {}
    <3>1. fence["room"] < b.epoch => ~b.has /\ ~b.ready /\ b.pending = {} BY <1>5, <2>1 DEF Wired
    <3>2. fence["room"] < b.epoch => ~mine BY <1>7, <2>2
    <3>. QED BY <2>1, <2>5, <3>1, <3>2 DEF StaysAs
  <2>9. ASSUME NEW j \in Mine(rest, d) PROVE FrameFits(log, rest, d, j)
    <3>1. j \in 1..m /\ rest[j] = w[j + 1] /\ rest[j].view = "room" /\ rest[j].epoch = d.epoch
      BY <1>1, <2>9 DEF Mine, m
    <3>2. j \in 0..m /\ j - 1 \in 0..m /\ (j - 1) + 1 = j /\ j + 1 \in 1..Len(w) /\ (j + 1) - 1 = j
      BY <1>1, <3>1
    <3>3. j + 1 \in Mine(w, b) BY <2>5, <3>1, <3>2 DEF Mine
    <3>4. FrameFits(log, w, b, j + 1) BY <1>5, <2>1, <3>3 DEF Wired
    <3>5. /\ \A x : Has(log, rest, d, j - 1, x) <=> Has(log, w, b, j, x)
          /\ Owes(rest, d, j - 1) => Owes(w, b, j)
          /\ Readied(rest, d, j - 1) <=> Readied(w, b, j)
          /\ \A x : Has(log, rest, d, j, x) <=> Has(log, w, b, j + 1, x)
      BY <2>4, <3>2
    <3>. DEFINE i == j + 1  h == j - 1
    <3>6. i - 1 = j BY <3>2
    <3>7. FrameFits(log, w, b, i) /\ rest[j] = w[i] BY <3>1, <3>4
    <3>8. /\ \A x : Has(log, rest, d, h, x) <=> Has(log, w, b, j, x)
          /\ Owes(rest, d, h) => Owes(w, b, j)
          /\ Readied(rest, d, h) <=> Readied(w, b, j)
          /\ \A x : Has(log, rest, d, j, x) <=> Has(log, w, b, i, x)
      BY <3>5
    <3>9. j - 1 = h OBVIOUS
    <3>. HIDE DEF i, h
    <3>. QED BY <3>6, <3>7, <3>8, <3>9 DEF FrameFits
  <2>10. Wired(log, fence, rest, d)
    <3>1. \A x : Has(log, rest, d, m, x) => x \in Shown(log, "room", Len(log))
      BY <1>5, <2>1, <2>7 DEF Wired
    <3>. QED BY <2>8, <2>9, <3>1 DEF Wired, m
  <2>11. Served(log, rest, d, open, r, task)
    <3>1. ASSUME Fills(log, w, b, task) PROVE Fills(log, rest, d, task)
      <4>. DEFINE k == Len(w)
      <4>. HIDE DEF k
      <4>1. \A x : Has(log, rest, d, m, x) <=> Has(log, w, b, k, x) BY <2>7 DEF k
      <4>. QED BY <3>1, <4>1 DEF Fills, k, m
    <3>. DEFINE k == Len(w)
    <3>2. /\ \A x : Has(log, rest, d, m, x) <=> Has(log, w, b, k, x)
          /\ Owes(rest, d, m) => Owes(w, b, k)
          /\ Readied(rest, d, m) <=> Readied(w, b, k)
      BY <2>7
    <3>. HIDE DEF k
    <3>3. open /\ r.live /\ (r.ready \/ (task.pc = "ready" /\ task.view = "room" /\ task.epoch = r.epoch)) => r.based
      BY <1>5 DEF Served
    <3>4. ASSUME open /\ r.live /\ r.epoch = d.epoch
          PROVE  /\ \A x \in r.payload : Has(log, rest, d, m, x)
                 /\ ~r.based => ~Readied(rest, d, m)
                 /\ Writing(task, r) => Fills(log, rest, d, task)
                 /\ Owes(rest, d, m) => Writing(task, r) /\ task.frames = <<"page">>
      <4>1. /\ \A x \in r.payload : Has(log, w, b, k, x)
            /\ ~r.based => ~Readied(w, b, k)
            /\ Writing(task, r) => Fills(log, w, b, task)
            /\ Owes(w, b, k) => Writing(task, r) /\ task.frames = <<"page">>
        BY <1>5, <2>1, <2>5, <3>4 DEF Served, k
      <4>. QED BY <3>1, <3>2, <4>1
    <3>. QED BY <3>3, <3>4 DEF Served, m
  <2>. QED BY <2>10, <2>11
<1>. QED BY <1>8, <1>9 DEF rest, r

(* What the next frame of the room brings to a binding that takes it up. *)
LEMMA TakenUpFits ==
  ASSUME Types, Fitting, wire # <<>>, NEW f, f = Head(wire), f.view = "room", NEW b, b = binding["room"],
         b.live, b.ready => b.has, f.epoch = b.epoch, NEW c, TakenUp(b, f, c)
  PROVE  /\ b.ready => b.pending \subseteq c.pending /\ f.kind # "part"
         /\ f.source # NoSource => Shown(log, "room", f.source) \subseteq c.pending
         /\ f.kind = "coverage" /\ b.has => b.whole
<1>. DEFINE rest == Tail(wire)  w == wire
<1>1. /\ f \in FramesAt(position) /\ Len(w) \in Nat \ {0} /\ Len(rest) \in Nat /\ Len(rest) = Len(w) - 1 /\ f = w[1]
      /\ \A i \in 1..Len(rest) : rest[i] = w[i + 1]
  BY Shapes, HeadTailProperties, EmptySeq, LenProperties
<1>2. f.kind \in FrameKinds BY <1>1 DEF FramesAt
<1>3. b \in BindingAt(position) BY HereIs DEF SessionsAt, Here, BindingsAt, Views
<1>4. Wired(log, fence, w, b) BY DEF Fitting
<1>. HIDE DEF rest, w
<1>5. 1 \in Mine(w, b) BY <1>1 DEF Mine
<1>6. FrameFits(log, w, b, 1) /\ 1 - 1 = 0 BY <1>4, <1>5 DEF Wired
<1>7. OneRead(w, rest, f, b, c) BY <1>1, <1>2, <1>3, <1>6 DEF OneRead, BindingAt
<1>8. ReadsOn(rest, c, w, b, 0) BY <1>1, <1>7, HeadRead
<1>9. /\ \A k \in Mine(rest, c) : ~(k <= 0) BY <1>1 DEF Mine
<1>10. \A k \in Mine(w, b) : ~(k <= 0) BY <1>1 DEF Mine
<1>11. \A x : Has(log, rest, c, 0, x) <=> x \in c.pending BY <1>9 DEF Has, Cut
<1>12. \A x : Has(log, w, b, 0, x) <=> x \in b.pending BY <1>10 DEF Has, Cut
<1>13. 0 + 1 = 1 OBVIOUS
<1>14. \A x : x \in c.pending <=> Has(log, w, b, 1, x) BY <1>8, <1>11, <1>13 DEF ReadsOn
<1>15. f.source # NoSource => Shown(log, "room", f.source) \subseteq c.pending BY <1>1, <1>6, <1>14 DEF FrameFits
<1>16. f.kind = "coverage" /\ b.has => b.whole BY <1>1, <1>6, <1>10 DEF FrameFits, Owes
<1>17. b.ready => f.kind # "part" BY <1>1, <1>6 DEF FrameFits, Readied
<1>18. ASSUME b.ready PROVE b.pending \subseteq c.pending
  <2>1. \A x : x \in Continued(b, f) <=> x \in f.content \/ (x \in b.pending /\ log[x] = "history")
    BY HistoryIs DEF Continued, Kept
  <2>2. CASE f.kind = "snapshot" BY <1>1, <1>6, <1>12, <2>2 DEF FrameFits, TakenUp, Takes
  <2>3. CASE f.kind = "update" BY <1>1, <1>6, <1>12, <2>1, <2>3 DEF FrameFits, TakenUp, Takes
  <2>4. CASE f.kind = "page" BY <2>4 DEF TakenUp, Takes
  <2>5. CASE f.kind \in {"ready", "coverage", "resync"} BY <2>5 DEF TakenUp, Takes
  <2>. QED BY <1>2, <1>17, <1>18, <2>2, <2>3, <2>4, <2>5 DEF FrameKinds
<1>. QED BY <1>15, <1>16, <1>17, <1>18

LEMMA TakenGood ==
  ASSUME Types, Fitting, Base(Here), Held(log, Here), wire # <<>>, NEW f, f = Head(wire), f.view = "room",
         NEW b, b = binding["room"], b.live, f.epoch = b.epoch, ~Refused(b, f), f.source = NoSource \/ Sound(b, f.source),
         NEW c, TakenUp(b, f, c), NEW u, Taken(Here, b, f, c, u)
  PROVE  Good(log, Here, u) /\ Reads1(b, f, u.binding["room"])
<1>. DEFINE s == Here
<1>1. CASE Unwatched(u)
  <2>1. ~u.binding["room"].live BY <1>1 DEF Unwatched, Unbound
  <2>. QED BY <1>1, <2>1, UnwatchedGood DEF Reads1
<1>2. CASE ~Unwatched(u)
  <2>1. /\ u.binding["room"] = c /\ u.wanted = s.wanted /\ u.page.deleted = s.page.deleted
        /\ u.page.room = (IF Shows(b, f) THEN c.pending ELSE s.page.room)
        /\ u.page.cached = (IF Shows(b, f) THEN TRUE ELSE s.page.cached)
        /\ u.poll["room"].on = (IF f.kind = "ready" THEN FALSE ELSE IF f.kind = "resync" THEN TRUE
                                ELSE s.poll["room"].on)
        /\ u.poll["room"].pc = (IF f.kind = "ready" THEN "idle" ELSE s.poll["room"].pc)
    BY <1>2 DEF Taken
  <2>2. /\ f.kind \in FrameKinds /\ f.source \in -1..position /\ b \in BindingAt(position) /\ position \in Nat
        /\ s.binding["room"] = b
    <3>1. f \in FramesAt(position) BY Shapes, HeadTailProperties
    <3>2. b \in BindingAt(position) BY HereIs DEF SessionsAt, Here, BindingsAt, Views
    <3>. QED BY <3>1, <3>2, Shapes DEF FramesAt, Here
  <2>3. /\ b.has \in BOOLEAN /\ b.ready \in BOOLEAN /\ b.whole \in BOOLEAN /\ b.failed \in BOOLEAN
        /\ b.live \in BOOLEAN /\ b.source \in -1..position
    BY <2>2 DEF BindingAt
  <2>. HIDE DEF s
  <2>4. /\ s.page.deleted => ~s.wanted
        /\ s.poll["room"].pc # "idle" => s.poll["room"].on
        /\ s.wanted
        /\ b.ready => b.has
        /\ ~b.ready => b.source = NoSource
    BY <2>2 DEF Base, s
  <2>5. Reads1(b, f, c) BY <2>4 DEF Reads1
  <2>6. /\ c.live = b.live /\ c.epoch = b.epoch
        /\ c.has = (b.has \/ f.kind \in {"snapshot", "page", "part"})
        /\ c.ready = (b.ready \/ f.kind = "ready") /\ c.failed = (b.failed \/ f.kind = "resync")
        /\ c.source = Stated(b, f)
        /\ c.whole = IF f.kind \in {"snapshot", "page"} THEN TRUE
                     ELSE IF f.kind \in {"part", "update"} THEN FALSE ELSE b.whole
        /\ f.kind \in {"ready", "coverage", "resync"} => c.pending = b.pending
    <3>1. f.kind \in {"ready", "coverage", "resync"} => c.pending = b.pending BY DEF TakenUp, Takes
    <3>. QED BY <3>1 DEF TakenUp, Takes
  <2>7. /\ b.ready => b.pending \subseteq c.pending /\ f.kind # "part"
        /\ f.source # NoSource => Shown(log, "room", f.source) \subseteq c.pending
        /\ f.kind = "coverage" /\ b.has => b.whole
    BY <2>4, TakenUpFits
  <2>8. f.kind = "ready" => b.has /\ b.whole BY DEF Refused
  <2>9. f.kind \in {"update", "coverage"} => b.ready BY DEF Refused
  <2>10. Base(u)
    <3>1. c.ready => c.has BY <2>3, <2>4, <2>6, <2>8
    <3>2. ~c.ready => c.source = NoSource BY <2>3, <2>4, <2>6, <2>9 DEF Stated
    <3>3. u.poll["room"].pc # "idle" => u.poll["room"].on
      <4>1. CASE f.kind = "ready" BY <2>1, <4>1
      <4>2. CASE f.kind = "resync" BY <2>1, <4>2
      <4>3. CASE f.kind \notin {"ready", "resync"} BY <2>1, <2>4, <4>3
      <4>. QED BY <4>1, <4>2, <4>3
    <3>. QED BY <2>1, <2>4, <3>1, <3>2, <3>3 DEF Base
  <2>11. ASSUME b.ready, ~b.failed
         PROVE  /\ s.page.cached = TRUE
                /\ s.page.room \subseteq b.pending
                /\ b.whole => s.page.room = b.pending
                /\ Shown(log, "room", b.source) \subseteq s.page.room
                /\ ~s.poll["room"].on
    BY <2>2, <2>11 DEF Held, Sure, s
  <2>12. Shown(log, "room", NoSource) = {} BY DEF Shown, NoSource
  <2>13. Held(log, u)
    <3>. SUFFICES ASSUME Sure(u)
                  PROVE  /\ u.page.cached = TRUE
                         /\ u.page.room \subseteq c.pending
                         /\ c.whole => u.page.room = c.pending
                         /\ Shown(log, "room", c.source) \subseteq u.page.room
                         /\ ~u.poll["room"].on
      BY <2>1 DEF Held
    <3>1. c.ready /\ ~c.failed BY <2>1 DEF Sure
    <3>2. f.kind # "resync" /\ ~b.failed BY <2>3, <2>6, <3>1
    <3>3. f.kind # "ready" => b.ready BY <2>3, <2>6, <3>1
    <3>4. Shown(log, "room", b.source) \subseteq b.pending
      <4>1. CASE b.ready BY <2>11, <3>2, <4>1
      <4>2. CASE ~b.ready BY <2>4, <2>12, <4>2
      <4>. QED BY <4>1, <4>2
    <3>5. CASE Shows(b, f)
      <4>1. u.page.cached = TRUE /\ u.page.room = c.pending BY <2>1, <3>5
      <4>2. b.pending \subseteq c.pending BY <2>6, <2>7, <3>3
      <4>3. Shown(log, "room", c.source) \subseteq c.pending BY <2>6, <2>7, <3>4, <4>2 DEF Stated
      <4>4. ~u.poll["room"].on
        <5>1. CASE f.kind = "ready" BY <2>1, <5>1
        <5>2. CASE f.kind # "ready" BY <2>1, <2>11, <3>2, <3>3, <5>2
        <5>. QED BY <5>1, <5>2
      <4>. QED BY <4>1, <4>3, <4>4
    <3>6. CASE ~Shows(b, f)
      <4>1. f.kind # "ready" /\ b.ready /\ f.kind \in {"update", "coverage"}
        BY <2>2, <2>7, <3>2, <3>3, <3>6 DEF Shows, FrameKinds
      <4>2. u.page.cached = TRUE /\ u.page.room = s.page.room /\ ~u.poll["room"].on
        BY <2>1, <2>11, <3>2, <3>6, <4>1
      <4>3. u.page.room \subseteq c.pending BY <2>7, <2>11, <3>2, <4>1, <4>2
      <4>4. CASE f.kind = "update"
        <5>1. c.source = b.source /\ ~c.whole BY <2>6, <4>4 DEF Stated
        <5>. QED BY <2>11, <3>2, <4>1, <4>2, <4>3, <5>1
      <4>5. CASE f.kind = "coverage"
        <5>1. c.pending = b.pending /\ b.whole BY <2>4, <2>6, <2>7, <4>1, <4>5
        <5>2. u.page.room = c.pending BY <2>11, <3>2, <4>1, <4>2, <5>1
        <5>3. Shown(log, "room", c.source) \subseteq c.pending BY <2>6, <2>7, <3>4, <5>1 DEF Stated
        <5>. QED BY <4>2, <5>2, <5>3
      <4>. QED BY <4>1, <4>4, <4>5
    <3>. QED BY <3>5, <3>6
  <2>14. Gains(s, u)
    <3>. SUFFICES ASSUME Sure(s), Sure(u)
                  PROVE  s.page.room \subseteq u.page.room /\ b.source <= c.source
      BY <2>1, <2>2 DEF Gains
    <3>1. b.ready /\ ~b.failed BY <2>2 DEF Sure
    <3>2. s.page.room \subseteq u.page.room BY <2>1, <2>7, <2>11, <3>1
    <3>3. b.source <= b.source BY <2>2, <2>3
    <3>4. f.source # NoSource => b.source <= f.source BY <2>2, <2>3 DEF Sound
    <3>. QED BY <2>6, <3>2, <3>3, <3>4 DEF Stated
  <2>. QED BY <2>1, <2>5, <2>10, <2>13, <2>14 DEF Good, s
<1>. QED BY <1>1, <1>2

(* The session's end of the invariant, and what it means for a step. *)
Showing == Fitting /\ Base(Here) /\ Held(log, Here)
ShowsOn == Showing' /\ Gains(Here, Here')

LEMMA Becoming ==
  ASSUME NEW u \in SessionsAt(position), Becomes(u)
  PROVE  Here' = u /\ binding' = u.binding
BY DEF Becomes, Here, SessionsAt

LEMMA GoodShows ==
  ASSUME Fitting', log' = log, NEW u, Here' = u, Good(log, Here, u) PROVE ShowsOn
<1>1. Good(log', Here, Here') OBVIOUS
<1>. QED BY <1>1 DEF ShowsOn, Showing, Good

(* A session that starts over. *)
Afresh(u) == Base(u) /\ ~u.binding["room"].ready /\ (u.binding["room"].live => Begun(u.binding["room"]))
LEMMA AfreshGood == ASSUME NEW lg, NEW s, NEW u, Afresh(u) PROVE Good(lg, s, u)
<1>1. Base(u) /\ ~Sure(u) BY DEF Afresh, Sure
<1>. QED BY <1>1, UnsureGood

LEMMA ClosedShows ==
  ASSUME Types, NEW o, Closed(o), UNCHANGED store, NEW u \in SessionsAt(position), Becomes(u), Afresh(u)
  PROVE  ShowsOn
<1>1. Here' = u /\ binding'["room"] = u.binding["room"] /\ log' = log BY Becoming DEF store
<1>2. Fitting' BY <1>1, ClosedFits DEF Afresh
<1>. QED BY <1>1, <1>2, AfreshGood, GoodShows

(* The room is bound anew. *)
LEMMA RoomBound ==
  ASSUME NEW n \in Nat, NEW s \in SessionsAt(n), ~s.binding["room"].live, NEW u, u = Bind(s, "room")
  PROVE  /\ u \in SessionsAt(n) /\ u.wanted = s.wanted /\ u.page = s.page /\ u.poll = s.poll
         /\ LET b == u.binding["room"] IN
            /\ b.live /\ Begun(b) /\ b.epoch \in Nat /\ b.epoch > s.asked["room"]
            /\ b.source = NoSource
<1>. DEFINE e == s.asked["room"] + 1  b == [Unbound EXCEPT !.live = TRUE, !.epoch = e]
<1>1. "room" \in Views /\ s.asked["room"] \in Nat /\ s.binding \in BindingsAt(n) BY DEF SessionsAt, Views
<1>2. u \in SessionsAt(n) BY <1>1, BindTypes
<1>3. u.binding = [s.binding EXCEPT !["room"] = b] /\ u.wanted = s.wanted /\ u.page = s.page /\ u.poll = s.poll
  BY DEF Bind, SessionsAt
<1>4. b.live /\ ~b.has /\ ~b.ready /\ b.pending = {} /\ b.epoch = e /\ b.source = NoSource BY DEF Unbound
<1>5. e \in Nat /\ e > s.asked["room"] BY <1>1
<1>. HIDE DEF b, e
<1>6. u.binding["room"] = b BY <1>1, <1>3 DEF BindingsAt
<1>. QED BY <1>2, <1>3, <1>4, <1>5, <1>6 DEF Begun

(* The session without its stream: what the page shows stays, and is read by polling. *)
Offline(s, u) ==
  /\ u.binding["room"] = Unbound /\ u.wanted = s.wanted /\ u.page = s.page
  /\ u.poll["room"].pc # "idle" => u.poll["room"].on
LEMMA OfflineAfresh == ASSUME NEW s, NEW u, Base(s), Offline(s, u) PROVE Afresh(u)
BY DEF Base, Offline, Afresh, Unbound

LEMMA SilentOffline ==
  ASSUME NEW n, NEW s \in SessionsAt(n), Base(s)
  PROVE  Offline(s, Silent(s)) /\ Silent(s).poll = s.poll
<1>1. /\ Silent(s).binding = [v \in Views |-> Unbound] /\ Silent(s).wanted = s.wanted /\ Silent(s).page = s.page
      /\ Silent(s).poll = s.poll
  BY DEF Silent, SessionsAt
<1>. QED BY <1>1 DEF Offline, Base, Views

LEMMA RecoverOffline ==
  ASSUME NEW n \in Nat, NEW s, NEW t \in SessionsAt(n), Offline(s, t), NEW v \in Views, NEW u, u = Recover(t, v)
  PROVE  Offline(s, u) /\ u \in SessionsAt(n)
<1>1. u \in SessionsAt(n) BY RecoverTypes
<1>2. CASE v = "room"
  <2>1. u.binding = t.binding /\ u.wanted = t.wanted /\ u.page = t.page /\ u.poll["room"].on = TRUE
    BY <1>2, RoomReaders
  <2>. QED BY <1>1, <2>1 DEF Offline
<1>3. CASE v = "rooms"
  <2>1. u.binding = t.binding /\ u.wanted = t.wanted /\ u.page = t.page
    BY DEF Recover, SessionsAt
  <2>2. u.poll["room"] = t.poll["room"]
    <3>1. u.poll = t.poll \/ u.poll = [t.poll EXCEPT !["rooms"].on = TRUE] BY <1>3 DEF Recover, SessionsAt
    <3>. QED BY <3>1 DEF SessionsAt, PollsAt, Views
  <2>. QED BY <1>1, <2>1, <2>2 DEF Offline
<1>. QED BY <1>2, <1>3 DEF Views

LEMMA LoseShows == ASSUME Types, Showing, Lose, UNCHANGED store PROVE ShowsOn
<1>. DEFINE q == Silent(Here)  s == Recover(q, "rooms")  t == Recover(s, "room")
<1>1. q \in SessionsAt(position) /\ Here \in SessionsAt(position) /\ "room" \in Views /\ "rooms" \in Views
      /\ position \in Nat
  BY Shapes, HereIs, SilentTypes DEF Views
<1>2. Offline(Here, q) BY <1>1, SilentOffline DEF Showing
<1>3. Becomes(IF wanted THEN t ELSE s) /\ Closed(FALSE) BY DEF Lose
<1>. HIDE DEF q
<1>4. Offline(Here, s) /\ s \in SessionsAt(position) BY <1>1, <1>2, RecoverOffline
<1>. HIDE DEF s
<1>5. Offline(Here, t) /\ t \in SessionsAt(position) BY <1>1, <1>4, RecoverOffline
<1>. HIDE DEF t
<1>6. Afresh(s) /\ Afresh(t) BY <1>4, <1>5, OfflineAfresh DEF Showing
<1>. QED BY <1>3, <1>4, <1>5, <1>6, ClosedShows

LEMMA HideShows == ASSUME Types, Showing, Hide PROVE ShowsOn
<1>. DEFINE q == Silent(Here)  t == [q EXCEPT !.poll = [v \in Views |-> NoPoll]]
<1>1. q \in SessionsAt(position) /\ Here \in SessionsAt(position) /\ "room" \in Views /\ position \in Nat
  BY Shapes, HereIs, SilentTypes DEF Views
<1>2. Offline(Here, q) BY <1>1, SilentOffline DEF Showing
<1>3. Becomes(t) /\ Closed(FALSE) /\ UNCHANGED store BY DEF Hide
<1>. HIDE DEF q
<1>4. /\ t \in SessionsAt(position) /\ t.binding = q.binding /\ t.wanted = q.wanted /\ t.page = q.page
      /\ t.poll = [v \in Views |-> NoPoll]
  BY <1>1, SilentTypes DEF SessionsAt
<1>. HIDE DEF t
<1>5. Offline(Here, t) BY <1>1, <1>2, <1>4 DEF Offline, NoPoll
<1>. QED BY <1>3, <1>4, <1>5, OfflineAfresh, ClosedShows DEF Showing

LEMMA ConnectShows == ASSUME Types, Showing, Connect PROVE ShowsOn
<1>. DEFINE fresh == [Here EXCEPT !.poll = [v \in Views |-> NoPoll], !.binding = [v \in Views |-> Unbound],
                                  !.asked = [v \in Views |-> 0], !.posts = {}]
            rooms == Bind(fresh, "rooms")  both == Bind(rooms, "room")
<1>1. position \in Nat /\ "room" \in Views /\ "rooms" \in Views /\ Here \in SessionsAt(position)
  BY Shapes, HereIs DEF Views
<1>2. /\ fresh \in SessionsAt(position) /\ fresh.binding = [v \in Views |-> Unbound]
      /\ fresh.poll = [v \in Views |-> NoPoll] /\ fresh.wanted = wanted /\ fresh.page = page
  BY <1>1, SilentTypes DEF SessionsAt, Here
<1>3. Becomes(IF wanted THEN both ELSE rooms) /\ Closed(TRUE) /\ UNCHANGED store BY DEF Connect
<1>. HIDE DEF fresh
<1>4. Offline(Here, fresh) BY <1>1, <1>2 DEF Offline, NoPoll, Here
<1>5. rooms \in SessionsAt(position) /\ rooms.wanted = wanted /\ rooms.page = page /\ rooms.poll = fresh.poll
      /\ rooms.binding["room"] = Unbound
  <2>1. ~fresh.binding["rooms"].live BY <1>1, <1>2 DEF Unbound
  <2>2. rooms \in SessionsAt(position) BY <1>1, <1>2, BindTypes
  <2>. DEFINE e == fresh.asked["rooms"] + 1  b == [Unbound EXCEPT !.live = TRUE, !.epoch = e]
  <2>3. /\ rooms.binding = [fresh.binding EXCEPT !["rooms"] = b]
        /\ rooms.wanted = fresh.wanted /\ rooms.page = fresh.page /\ rooms.poll = fresh.poll
    BY <1>2, <2>1 DEF Bind, SessionsAt
  <2>. HIDE DEF b, rooms
  <2>. QED BY <1>1, <1>2, <2>2, <2>3
<1>. HIDE DEF rooms
<1>6. Offline(Here, rooms) BY <1>1, <1>2, <1>5 DEF Offline, NoPoll, Here
<1>7. Afresh(rooms) BY <1>6, OfflineAfresh DEF Showing
<1>8. ASSUME wanted PROVE both \in SessionsAt(position) /\ Afresh(both)
  <2>1. ~rooms.binding["room"].live BY <1>5 DEF Unbound
  <2>2. /\ both \in SessionsAt(position) /\ both.wanted = rooms.wanted /\ both.page = rooms.page
        /\ both.poll = rooms.poll
        /\ LET b == both.binding["room"] IN b.live /\ Begun(b) /\ b.source = NoSource
    BY <1>1, <1>5, <2>1, RoomBound
  <2>. HIDE DEF both
  <2>3. Base(both) BY <1>5, <1>7, <1>8, <2>2 DEF Afresh, Base, Begun
  <2>. QED BY <2>2, <2>3 DEF Afresh, Begun
<1>. QED BY <1>3, <1>5, <1>7, <1>8, ClosedShows

LEMMA FittingThen ==
  ASSUME UNCHANGED <<log, fence, open, view, task>>, NEW d, binding'["room"] = d,
         Wired(log, fence, wire', d) /\ Served(log, wire', d, open, view["room"], task)
  PROVE  Fitting'
BY DEF Fitting

LEMMA MovesShow ==
  ASSUME Types, InOrder, Coherent, Showing, UNCHANGED <<store, stream>>, NEW u \in SessionsAt(position), Becomes(u),
         Passes(binding["room"], u.binding["room"]), Good(log, Here, u)
  PROVE  ShowsOn
<1>1. Here' = u /\ binding'["room"] = u.binding["room"] BY Becoming
<1>2. UNCHANGED <<log, fence, open, view, task>> /\ wire' = wire BY DEF store, stream
<1>. DEFINE d == u.binding["room"]
<1>. HIDE DEF d
<1>3. Wired(log, fence, wire, d) /\ Served(log, wire, d, open, view["room"], task) BY PassesWired DEF Showing, d
<1>4. Fitting' BY <1>1, <1>2, <1>3, FittingThen DEF d
<1>. QED BY <1>1, <1>2, <1>4, GoodShows

LEMMA AsideShows ==
  ASSUME Types, InOrder, Coherent, Showing, UNCHANGED <<store, stream>>, NEW u, Step(position, Here, u), Becomes(u)
  PROVE  ShowsOn
<1>1. Here \in SessionsAt(position) /\ position \in Nat /\ u \in SessionsAt(position) BY HereIs, Shapes DEF Step
<1>2. Good(log, Here, u) BY <1>1, AsideGood DEF Step, Showing
<1>3. Passes(binding["room"], u.binding["room"])
  <2>1. u.binding["room"] = Unbound \/ u.binding["room"] = binding["room"] BY DEF Step, Aside, Unwatched, Here
  <2>. QED BY <2>1 DEF Passes, StaysAs, Unbound
<1>. QED BY <1>1, <1>2, <1>3, MovesShow

LEMMA ReadShows ==
  ASSUME Types, InOrder, Coherent, Showing, wire # <<>>, wire' = Tail(wire),
         UNCHANGED <<store, open, view, fence, tail, task>>, NEW u, Here' = u,
         Reads1(binding["room"], Head(wire), u.binding["room"]), Good(log, Here, u)
  PROVE  ShowsOn
<1>1. binding'["room"] = u.binding["room"] /\ log' = log BY DEF Here, store
<1>. DEFINE d == u.binding["room"]
<1>2. Wired(log, fence, Tail(wire), d) /\ Served(log, Tail(wire), d, open, view["room"], task)
  BY ReadWired DEF Showing
<1>. HIDE DEF d
<1>3. Fitting' BY <1>1, <1>2, FittingThen DEF d
<1>. QED BY <1>1, <1>3, GoodShows

LEMMA ReceiveShows == ASSUME Types, InOrder, Coherent, Showing, Receive PROVE ShowsOn
<1>. DEFINE f == Head(wire)  b == binding[f.view]  r == binding["room"]
<1>1. UNCHANGED store /\ wire # <<>> /\ f \in FramesAt(position) /\ position \in Nat
      /\ Here \in SessionsAt(position) /\ Here.binding = binding /\ "room" \in Views
  BY Shapes, HereIs, HeadTailProperties DEF Receive, Here, Views
<1>2. /\ f.view \in Views /\ b \in BindingAt(position) /\ r \in BindingAt(position) /\ f.epoch \in Nat
      /\ r.live \in BOOLEAN /\ b.epoch \in Nat
  BY <1>1 DEF FramesAt, SessionsAt, BindingsAt, BindingAt
<1>3. r.ready => r.has BY DEF Showing, Base, Here
<1>4. CASE (~b.live \/ f.epoch < b.epoch) /\ wire' = Tail(wire)
           /\ UNCHANGED <<open, view, fence, tail, task, session>>
  <2>1. Here' = Here BY <1>4 DEF session, Here
  <2>2. Step(position, Here, Here) BY <1>1 DEF Step, Aside, SamePage
  <2>3. Good(log, Here, Here) BY <1>1, <2>2, AsideGood DEF Step, Showing
  <2>4. Reads1(r, f, r)
    <3>1. r.live => ~(f.view = "room" /\ f.epoch = r.epoch) BY <1>2, <1>4
    <3>2. StaysAs(r, r) BY DEF StaysAs
    <3>. QED BY <1>3, <3>1, <3>2 DEF Reads1
  <2>5. Here.binding["room"] = r BY <1>1
  <2>. QED BY <1>1, <1>4, <2>1, <2>3, <2>4, <2>5, ReadShows
<1>5. CASE Lose BY <1>1, <1>5, LoseShows
<1>6. CASE /\ b.live /\ ~(f.epoch < b.epoch) /\ ~Refused(b, f) /\ (f.source = NoSource \/ Sound(b, f.source))
           /\ Becomes(Apply(f)) /\ wire' = Tail(wire)
           /\ UNCHANGED <<open, view, fence, tail, task, mode, turns>>
  <2>. DEFINE u == Apply(f)
  <2>1. u \in SessionsAt(position) BY <1>1, ApplyTypes
  <2>2. Here' = u
    <3>. HIDE DEF u
    <3>1. Becomes(u) BY <1>6 DEF u
    <3>. QED BY <2>1, <3>1, Becoming
  <2>3. Good(log, Here, u) /\ Reads1(r, f, u.binding["room"])
    <3>1. CASE f.view = "rooms"
      <4>1. Step(position, Here, u) BY <1>1, <3>1, ApplyRooms
      <4>. HIDE DEF u, f
      <4>2. Good(log, Here, u) BY <1>1, <4>1, AsideGood DEF Step, Showing
      <4>3. u.binding["room"] = Unbound \/ u.binding["room"] = r BY <4>1 DEF Step, Aside, Unwatched, Here
      <4>. HIDE DEF r, b
      <4>4. CASE u.binding["room"] = Unbound
        <5>1. Reads1(r, f, Unbound) BY DEF Reads1, Unbound
        <5>. QED BY <4>2, <4>4, <5>1
      <4>5. CASE u.binding["room"] = r
        <5>1. StaysAs(r, r) /\ f.view # "room" BY <3>1 DEF StaysAs
        <5>2. Reads1(r, f, r) BY <1>3, <5>1 DEF Reads1
        <5>. QED BY <4>2, <4>5, <5>2
      <4>. QED BY <4>3, <4>4, <4>5
    <3>2. CASE f.view = "room"
      <4>1. b = r /\ r.live BY <1>6, <3>2
      <4>2. ~page.deleted BY <4>1 DEF Showing, Base, Here
      <4>3. f.epoch = r.epoch
        <5>1. r.epoch = asked["room"] BY <1>1, <4>1 DEF Coherent, AskedOf, Here
        <5>2. fence["room"] <= asked["room"] BY <1>1 DEF Coherent, Fenced, Here
        <5>3. f.epoch <= fence["room"]
          <6>1. f = wire[1] /\ 1 \in 1..Len(wire) BY <1>1, Shapes, HeadTailProperties, EmptySeq, LenProperties
          <6>. QED BY <3>2, <6>1 DEF Coherent, Frames, FrameOK
        <5>4. fence["room"] \in Nat /\ asked["room"] \in Nat BY <1>1, Shapes DEF SessionsAt, Here
        <5>. QED BY <1>2, <1>6, <4>1, <5>1, <5>2, <5>3, <5>4
      <4>4. PICK c \in BindingAt(position) : TakenUp(r, f, c) /\ Taken(Here, r, f, c, u)
        BY <1>1, <3>2, <4>2, ApplyRoom
      <4>5. ~Refused(r, f) /\ (f.source = NoSource \/ Sound(r, f.source)) BY <1>6, <4>1
      <4>. HIDE DEF u
      <4>. QED BY <1>1, <3>2, <4>1, <4>3, <4>4, <4>5, TakenGood DEF Showing
    <3>. QED BY <1>2, <3>1, <3>2 DEF Views
  <2>. HIDE DEF u
  <2>. QED BY <1>1, <1>6, <2>2, <2>3, ReadShows
<1>. QED BY <1>4, <1>5, <1>6 DEF Receive

LEMMA StillShows ==
  ASSUME Types, Showing, Fitting', UNCHANGED <<binding, wanted, poll, page>>, log' = log \/ \E k \in Kinds : log' = Append(log, k)
  PROVE  ShowsOn
<1>. DEFINE b == binding["room"]
<1>1. /\ Here'.binding = binding /\ Here'.wanted = wanted /\ Here'.poll = poll /\ Here'.page = page
      /\ Here.binding = binding /\ Here.wanted = wanted /\ Here.poll = poll /\ Here.page = page
  BY DEF Here
<1>2. Base(Here') /\ (Sure(Here') <=> Sure(Here)) BY <1>1 DEF Showing, Base, Sure
<1>3. log \in Seq(Kinds) /\ position \in Nat /\ Here \in SessionsAt(position) BY Shapes, HereIs DEF Types, StoreTypes
<1>4. b.source \in -1..position BY <1>1, <1>3 DEF SessionsAt, BindingsAt, BindingAt, Views
<1>. HIDE DEF b
<1>5. Shown(log', "room", b.source) = Shown(log, "room", b.source)
  <2>1. CASE log' = log BY <2>1
  <2>2. ASSUME NEW k \in Kinds, log' = Append(log, k) PROVE Shown(log', "room", b.source) = Shown(log, "room", b.source)
    <3>1. CASE b.source = -1 BY <3>1 DEF Shown
    <3>2. CASE b.source \in 0..position BY <1>3, <2>2, <3>2, Grown DEF position
    <3>. QED BY <1>3, <1>4, <3>1, <3>2
  <2>. QED BY <2>1, <2>2
<1>6. Held(log', Here')
  <2>1. Sure(Here) => /\ page.cached = TRUE /\ page.room \subseteq b.pending /\ (b.whole => page.room = b.pending)
                      /\ Shown(log, "room", b.source) \subseteq page.room /\ ~poll["room"].on
    BY <1>1 DEF Showing, Held, b
  <2>. QED BY <1>1, <1>2, <1>5, <2>1 DEF Held, b
<1>7. Gains(Here, Here')
  <2>1. b.source <= b.source BY <1>3, <1>4
  <2>. QED BY <1>1, <2>1 DEF Gains, b
<1>. QED BY <1>2, <1>6, <1>7 DEF ShowsOn, Showing

LEMMA ServeShows == ASSUME Types, InOrder, Coherent, Showing, NEW p \in posts, Serve(p) PROVE ShowsOn
<1>1. Fitting' BY ServeFits DEF Showing
<1>2. UNCHANGED <<binding, wanted, poll, page, log>> BY DEF Serve, Register, Remove
<1>. QED BY <1>1, <1>2, StillShows

LEMMA RefreshShows ==
  ASSUME Types, InOrder, Sent, Coherent, Showing, Refresh \/ Coverage, UNCHANGED session PROVE ShowsOn
<1>1. Fitting' BY QuietFits, JudgeFits, WriteFits, FlushedFits, CoverageFits DEF Refresh, Showing
<1>2. UNCHANGED <<binding, wanted, poll, page>> /\ log' = log
  BY DEF session, store, Refresh, Begin, ReadRoom, ReadListedRoom, ReadOtherRooms, ListingFails, Judge, Write, Flushed,
         ReadyFlushed, Coverage
<1>. QED BY <1>1, <1>2, StillShows

LEMMA PublishShows ==
  ASSUME Types, Showing, NEW k \in Kinds, NEW w, Publish(k, w), UNCHANGED session PROVE ShowsOn
<1>1. Fitting' BY PublishFits DEF Showing
<1>2. UNCHANGED <<binding, wanted, poll, page>> /\ log' = Append(log, k) BY DEF session, Publish
<1>. QED BY <1>1, <1>2, StillShows

LEMMA RetryShows == ASSUME Types, InOrder, Coherent, Showing, NEW v \in Views, Retry(v) PROVE ShowsOn
<1>. DEFINE s == [Here EXCEPT !.binding[v] = Unbound]  u == Bind(s, v)
<1>1. position \in Nat /\ Here \in SessionsAt(position) /\ Unbound \in BindingAt(position) /\ "room" \in Views
  BY Shapes, HereIs DEF Unbound, NoSource, BindingAt, Views
<1>2. s \in SessionsAt(position) BY <1>1, HeldTypes
<1>3. Becomes(u) /\ UNCHANGED <<store, stream>> BY DEF Retry
<1>4. CASE v = "rooms"
  <2>1. Step(position, Here, s) BY <1>1, <1>2, <1>4, RoomsAside DEF Step
  <2>2. {} \in SUBSET (1..position) /\ 0 \in -1..position BY <1>1
  <2>. HIDE DEF s
  <2>3. Step(position, s, u) BY <1>1, <1>2, <1>4, <2>2, RoomsStep
  <2>. HIDE DEF u
  <2>4. Step(position, Here, u) BY <2>1, <2>3, StepOn
  <2>. QED BY <1>3, <2>4, AsideShows
<1>5. CASE v = "room"
  <2>1. /\ s.binding["room"] = Unbound /\ s.wanted = wanted /\ s.page = page /\ s.poll = poll /\ s.asked = asked
    BY <1>1, <1>5 DEF SessionsAt, BindingsAt, Here
  <2>2. ~s.binding["room"].live BY <2>1 DEF Unbound
  <2>. HIDE DEF s
  <2>. DEFINE b == u.binding["room"]
  <2>3. /\ u \in SessionsAt(position) /\ u.wanted = wanted /\ u.page = page /\ u.poll = poll
        /\ b.live /\ Begun(b) /\ b.epoch \in Nat /\ b.epoch > asked["room"]
        /\ b.source = NoSource
    BY <1>1, <1>2, <1>5, <2>1, <2>2, RoomBound
  <2>. HIDE DEF u
  <2>4. wanted BY <1>5 DEF Retry
  <2>5. Base(u) BY <2>3, <2>4 DEF Showing, Base, Here, Begun
  <2>6. Good(log, Here, u)
    <3>1. ~Sure(u) BY <2>3 DEF Sure, Begun
    <3>. QED BY <2>5, <3>1, UnsureGood
  <2>7. b.epoch > fence["room"]
    <3>1. fence["room"] <= asked["room"] /\ asked["room"] \in Nat /\ fence["room"] \in Nat
      BY <1>1, Shapes DEF Coherent, Fenced, SessionsAt, Here
    <3>. QED BY <2>3, <3>1
  <2>8. Passes(binding["room"], u.binding["room"]) BY <2>3, <2>7 DEF Passes
  <2>. QED BY <1>3, <2>3, <2>6, <2>8, MovesShow
<1>. QED BY <1>4, <1>5 DEF Views

(* What a recovery reader leaves of the session. *)
LEMMA PollShows == ASSUME Types, InOrder, Coherent, Showing, Poll PROVE ShowsOn
<1>1. UNCHANGED <<store, stream>> BY DEF Poll, PollTail, PollHead, PollAnswers
<1>2. /\ position \in Nat /\ Here \in SessionsAt(position) /\ "room" \in Views /\ "rooms" \in Views
      /\ poll \in PollsAt(position) /\ Here.binding = binding /\ Here.poll = poll
      /\ Here.wanted = wanted /\ Here.page = page
  BY Shapes, HereIs DEF Views, SessionsAt, Here
<1>3. poll["room"] \in PollAt(position) BY <1>2 DEF PollsAt
<1>10. poll \in PollsAt(position) BY <1>2
<1>11. "room" \in Views BY DEF Views
<1>4. /\ page.deleted => ~wanted
      /\ poll["room"].pc # "idle" => poll["room"].on
      /\ binding["room"].live => wanted
      /\ binding["room"].ready => binding["room"].has
      /\ ~binding["room"].ready => binding["room"].source = NoSource
  BY <1>2 DEF Showing, Base
<1>5. poll["room"].on => ~Sure(Here) BY <1>2 DEF Showing, Held
<1>6. ASSUME NEW q \in PollsAt(position), poll' = q, UNCHANGED <<binding, asked, posts, wanted, page>>,
             q["room"] = poll["room"] \/ (poll["room"].on /\ q["room"].on)
      PROVE  ShowsOn
  <2>1. CASE q["room"] = poll["room"]
    <3>. DEFINE u == [Here EXCEPT !.poll = q]
    <3>1. u \in SessionsAt(position) /\ u.binding = binding /\ u.wanted = wanted /\ u.page = page /\ u.poll = q
          /\ u.asked = asked /\ u.posts = posts
      BY <1>2 DEF SessionsAt, Here
    <3>. HIDE DEF u
    <3>2. Becomes(u) BY <1>6, <3>1 DEF Becomes
    <3>3. Step(position, Here, u) BY <1>2, <2>1, <3>1 DEF Step, Aside, SamePage
    <3>. QED BY <1>1, <3>2, <3>3, AsideShows
  <2>2. CASE poll["room"].on /\ q["room"].on
    <3>. DEFINE u == [Here EXCEPT !.poll = q]
    <3>1. u \in SessionsAt(position) /\ u.binding = binding /\ u.wanted = wanted /\ u.page = page /\ u.poll = q
          /\ u.asked = asked /\ u.posts = posts
      BY <1>2 DEF SessionsAt, Here
    <3>. HIDE DEF u
    <3>2. Becomes(u) BY <1>6, <3>1 DEF Becomes
    <3>3. Base(u) BY <1>4, <2>2, <3>1 DEF Base
    <3>4. ~Sure(u) BY <1>2, <1>5, <2>2, <3>1 DEF Sure
    <3>5. Passes(binding["room"], u.binding["room"]) BY <3>1 DEF Passes, StaysAs
    <3>. QED BY <1>1, <3>1, <3>2, <3>3, <3>4, <3>5, UnsureGood, MovesShow
  <2>. QED BY <1>6, <2>1, <2>2
<1>7. ASSUME NEW v \in Views, PollHead(v) PROVE ShowsOn
  <2>. DEFINE got == IF v = "room" THEN Only(1..position, {"metadata"}) ELSE Content("rooms", position)
              pc == IF v = "room" THEN "tail" ELSE "answer"
              q == [poll EXCEPT ![v].pc = pc, ![v].got = got, ![v].stale = FALSE]
  <2>1. poll' = q /\ UNCHANGED <<binding, asked, posts, wanted, page>> BY <1>7 DEF PollHead
  <2>2. got \in SUBSET (1..position) /\ pc \in {"tail", "answer"} BY <1>2 DEF Only, Content
  <2>. HIDE DEF got, pc
  <2>3. q \in PollsAt(position) BY <1>10, <2>2 DEF PollsAt, PollAt
  <2>4. q["room"] = poll["room"] \/ (poll["room"].on /\ q["room"].on)
    <3>1. CASE v = "room"
      <4>1. poll["room"].on BY <1>7, <3>1 DEF PollHead
      <4>. QED BY <1>2, <1>3, <3>1, <4>1 DEF PollsAt, PollAt
    <3>2. CASE v # "room" BY <1>2, <3>2 DEF PollsAt
    <3>. QED BY <3>1, <3>2
  <2>. HIDE DEF q
  <2>. QED BY <1>6, <2>1, <2>3, <2>4
<1>8. ASSUME PollTail PROVE ShowsOn
  <2>. DEFINE got == poll["room"].got \cup History(1..position)
              drop == [poll EXCEPT !["room"].pc = "idle", !["room"].got = {}]
              read == [poll EXCEPT !["room"].pc = "answer", !["room"].got = got]
              q == IF Gone(1..position) \/ poll["room"].stale THEN drop ELSE read
  <2>1. poll' = q /\ UNCHANGED <<binding, asked, posts, wanted, page>> BY <1>2, <1>8 DEF PollTail, PollsAt, PollAt
  <2>2. got \in SUBSET (1..position) BY <1>3 DEF PollAt, History, Only
  <2>. HIDE DEF got
  <2>3. drop \in PollsAt(position) /\ read \in PollsAt(position) BY <1>10, <1>11, <2>2 DEF PollsAt, PollAt
  <2>4. poll["room"].on BY <1>4, <1>8 DEF PollTail
  <2>5. drop["room"].on = poll["room"].on /\ read["room"].on = poll["room"].on BY <1>2, <1>3 DEF PollsAt, PollAt
  <2>. HIDE DEF drop, read
  <2>. QED BY <1>6, <2>1, <2>3, <2>4, <2>5
<1>9. ASSUME NEW v \in Views, PollAnswers(v) PROVE ShowsOn
  <2>. DEFINE q == [poll EXCEPT ![v].pc = "idle", ![v].got = {}]
              done == [Here EXCEPT !.poll[v].pc = "idle", !.poll[v].got = {}]
              got == poll[v].got
              u == IF v = "room" /\ (poll[v].stale \/ ~Listed(page)) THEN done ELSE Deliver(done, v, got)
  <2>1. got \in SUBSET (1..position) BY <1>2 DEF PollsAt, PollAt
  <2>2. q \in PollsAt(position) BY <1>10 DEF PollsAt, PollAt
  <2>3. done = [Here EXCEPT !.poll = q] BY <1>2 DEF PollsAt, PollAt
  <2>4. Becomes(u) BY <1>9 DEF PollAnswers
  <2>. HIDE DEF done, got
  <2>5. q["room"].on = poll["room"].on /\ (v = "rooms" => q["room"] = poll["room"])
        /\ (v = "room" => q["room"].pc = "idle")
    BY <1>2, <1>3 DEF PollsAt, PollAt
  <2>. HIDE DEF q
  <2>6. done \in SessionsAt(position) /\ done.binding = binding /\ done.wanted = wanted /\ done.page = page
        /\ done.poll = q
    BY <1>2, <2>2, <2>3 DEF SessionsAt, Here
  <2>7. CASE v = "rooms"
    <3>1. u = Deliver(done, "rooms", got) BY <2>7
    <3>. HIDE DEF u
    <3>2. Step(position, Here, done) BY <1>2, <2>5, <2>6, <2>7 DEF Step, Aside, SamePage
    <3>3. 0 \in -1..position BY <1>2
    <3>4. Step(position, done, u) BY <1>2, <2>1, <2>6, <3>1, <3>3, RoomsStep
    <3>5. Step(position, Here, u) BY <3>2, <3>4, StepOn
    <3>. QED BY <1>1, <2>4, <3>5, AsideShows
  <2>8. CASE v = "room"
    <3>1. poll["room"].on /\ ~Sure(Here)
      <4>1. poll["room"].pc = "answer" BY <1>9, <2>8 DEF PollAnswers
      <4>. QED BY <1>4, <1>5, <4>1
    <3>2. u = done \/ (u = DeliverRoom(done, got) /\ ~page.deleted) BY <2>8 DEF Deliver, Listed
    <3>3. u = done \/ Drawn(done, got, u) BY <2>1, <2>6, <3>2, DeliverRoomIs
    <3>4. u \in SessionsAt(position) BY <1>2, <2>1, <2>6, DeliverTypes
    <3>. HIDE DEF u
    <3>5. CASE Unwatched(u)
      <4>1. Passes(binding["room"], u.binding["room"]) BY <3>5 DEF Passes, Unwatched, Unbound
      <4>. QED BY <1>1, <2>4, <3>4, <3>5, <4>1, UnwatchedGood, MovesShow
    <3>6. CASE ~Unwatched(u)
      <4>1. /\ u.binding = binding /\ u.wanted = wanted /\ u.page.deleted = page.deleted
            /\ u.poll["room"].pc = "idle"
        BY <2>5, <2>6, <2>8, <3>3, <3>6 DEF Drawn
      <4>2. Base(u) BY <1>4, <4>1 DEF Base
      <4>3. ~Sure(u) BY <1>2, <3>1, <4>1 DEF Sure
      <4>4. Passes(binding["room"], u.binding["room"]) BY <4>1 DEF Passes, StaysAs
      <4>. QED BY <1>1, <2>4, <3>4, <4>2, <4>3, <4>4, UnsureGood, MovesShow
    <3>. QED BY <3>5, <3>6
  <2>. QED BY <2>7, <2>8 DEF Views
<1>. QED BY <1>7, <1>8, <1>9 DEF Poll

LEMMA OperatorShows ==
  ASSUME Types, InOrder, Coherent, Showing, WatchRoom \/ LeaveRoom \/ Hide \/ Show PROVE ShowsOn
<1>1. position \in Nat /\ Here \in SessionsAt(position) /\ "room" \in Views BY Shapes, HereIs DEF Views
<1>2. CASE WatchRoom
  <2>. DEFINE s == [Here EXCEPT !.wanted = TRUE]
              read == IF \E v \in Views : poll[v].on THEN Recover(s, "room") ELSE s
              both == Bind(read, "room")
  <2>1. UNCHANGED <<store, stream>> /\ Becomes(IF mode = "up" THEN both ELSE read) BY <1>2 DEF WatchRoom
  <2>2. ~wanted /\ ~page.deleted BY <1>2 DEF WatchRoom, Listed
  <2>3. /\ poll["room"].pc # "idle" => poll["room"].on
        /\ ~binding["room"].live
        /\ binding["room"].ready => binding["room"].has
        /\ ~binding["room"].ready => binding["room"].source = NoSource
    BY <2>2 DEF Showing, Base, Here
  <2>4. s \in SessionsAt(position) /\ s.binding = binding /\ s.page = page /\ s.poll = poll /\ s.wanted = TRUE
        /\ s.asked = asked
    BY <1>1 DEF SessionsAt, Here
  <2>. HIDE DEF s
  <2>5. /\ read \in SessionsAt(position) /\ read.binding = binding /\ read.page = page /\ read.wanted = TRUE
        /\ read.poll["room"].pc # "idle" => read.poll["room"].on
        /\ read.asked = asked
    <3>1. CASE read = s BY <2>3, <2>4, <3>1
    <3>2. CASE read = Recover(s, "room")
      <4>1. Recover(s, "room") \in SessionsAt(position) BY <1>1, <2>4, RecoverTypes
      <4>2. Recover(s, "room").asked = s.asked BY <2>4 DEF Recover, SessionsAt
      <4>. QED BY <2>4, <3>2, <4>1, <4>2, RoomReaders
    <3>. QED BY <3>1, <3>2
  <2>. HIDE DEF read
  <2>6. Base(read) /\ ~Sure(read) BY <2>2, <2>3, <2>5 DEF Base, Sure
  <2>7. Passes(binding["room"], read.binding["room"]) BY <2>3, <2>5 DEF Passes
  <2>. DEFINE b == both.binding["room"]
  <2>8. /\ both \in SessionsAt(position) /\ both.wanted = TRUE /\ both.page = page /\ both.poll = read.poll
        /\ b.live /\ Begun(b) /\ b.epoch \in Nat /\ b.epoch > asked["room"]
        /\ b.source = NoSource
    BY <1>1, <2>3, <2>5, RoomBound
  <2>. HIDE DEF both
  <2>9. Base(both) /\ ~Sure(both) BY <2>2, <2>5, <2>8 DEF Base, Sure, Begun
  <2>10. b.epoch > fence["room"]
    <3>1. fence["room"] <= asked["room"] /\ asked["room"] \in Nat /\ fence["room"] \in Nat
      BY <1>1, Shapes DEF Coherent, Fenced, SessionsAt, Here
    <3>. QED BY <2>8, <3>1
  <2>11. Passes(binding["room"], both.binding["room"]) BY <2>8, <2>10 DEF Passes
  <2>12. Good(log, Here, both) /\ Good(log, Here, read) BY <2>6, <2>9, UnsureGood
  <2>. QED BY <2>1, <2>5, <2>7, <2>8, <2>11, <2>12, MovesShow
<1>3. CASE LeaveRoom
  <2>. DEFINE u == Unwatch(Here)
  <2>1. UNCHANGED <<store, stream>> /\ Becomes(u) BY <1>3 DEF LeaveRoom
  <2>2. u \in SessionsAt(position) /\ Unwatched(u) BY <1>1, UnwatchTypes, UnwatchIs
  <2>. HIDE DEF u
  <2>3. Passes(binding["room"], u.binding["room"]) BY <2>2 DEF Passes, Unwatched, Unbound
  <2>. QED BY <2>1, <2>2, <2>3, UnwatchedGood, MovesShow
<1>4. CASE Hide BY <1>4, HideShows
<1>5. CASE Show
  <2>1. UNCHANGED <<log, fence, wire, open, view, task, binding, wanted, poll, page>>
    BY <1>5 DEF Show, store, stream
  <2>2. Fitting' BY <2>1 DEF Showing, Fitting
  <2>. QED BY <2>1, <2>2, StillShows
<1>. QED BY <1>2, <1>3, <1>4, <1>5

LEMMA ShowingStep == ASSUME Types, InOrder, Sent, Coherent, Showing, [Next]_vars PROVE ShowsOn
<1>1. CASE UNCHANGED vars
  <2>1. UNCHANGED <<log, fence, wire, open, view, task, binding, wanted, poll, page>>
    BY <1>1 DEF vars, session, stream, store
  <2>2. Fitting' BY <2>1 DEF Showing, Fitting
  <2>. QED BY <2>1, <2>2, StillShows
<1>2. CASE (\E k \in Kinds \ {"health"} : Commit(k)) /\ UNCHANGED session
  BY <1>2, PublishShows DEF Commit
<1>3. CASE (\E w \in {"ok", "pending", "failed"} : SetResourceHealth(w)) /\ UNCHANGED session
  BY <1>3, PublishShows DEF SetResourceHealth, Kinds
<1>4. CASE (Refresh \/ Coverage) /\ UNCHANGED session BY <1>4, RefreshShows
<1>5. CASE Connect BY <1>5, ConnectShows
<1>6. CASE Drop \/ Ended BY <1>6, LoseShows DEF Drop, Ended
<1>7. CASE Receive BY <1>7, ReceiveShows
<1>8. CASE \E v \in Views : Retry(v) BY <1>8, RetryShows
<1>9. CASE \E p \in posts : Serve(p) BY <1>9, ServeShows
<1>10. CASE Poll BY <1>10, PollShows
<1>11. CASE WatchRoom \/ LeaveRoom \/ Hide \/ Show BY <1>11, OperatorShows
<1>. QED BY <1>1, <1>2, <1>3, <1>4, <1>5, <1>6, <1>7, <1>8, <1>9, <1>10, <1>11 DEF Next

LEMMA ShowingInit == Init => Showing
<1>. SUFFICES ASSUME Init PROVE Showing OBVIOUS
<1>. DEFINE b == binding["room"]
<1>1. /\ b = Unbound /\ wanted = TRUE /\ page.deleted = FALSE /\ poll["room"] = NoPoll /\ open = FALSE
      /\ ~b.live /\ ~b.ready /\ b.source = NoSource
      /\ Here.binding["room"] = b /\ Here.wanted = wanted /\ Here.page = page /\ Here.poll = poll
  BY DEF Init, Views, Unbound, Here
<1>2. Base(Here) /\ ~Sure(Here) BY <1>1 DEF Base, Sure, NoPoll
<1>3. Wired(log, fence, wire, b) /\ Served(log, wire, b, open, view["room"], task) BY <1>1 DEF Wired, Served
<1>. QED BY <1>2, <1>3 DEF Showing, Held, Fitting

LEMMA ShowingIsShown == Showing => CertifiedIsShown
<1>. SUFFICES ASSUME Showing, Certain("room") PROVE page.cached /\ Content("room", binding["room"].source) \subseteq page.room
  BY DEF CertifiedIsShown
<1>1. Sure(Here) BY DEF Sure, Certain, Here
<1>2. page.cached = TRUE /\ Shown(log, "room", binding["room"].source) \subseteq page.room
  BY <1>1 DEF Showing, Held, Here
<1>. QED BY <1>2, ContentIs

LEMMA GainsGrow == Gains(Here, Here') => CertifiedOnlyGrows
BY DEF Gains, Sure, Here, CertifiedOnlyGrows, Certain

(* Whatever recovery reads, new baselines, commits and frames cross on their way, what the  *)
(* page shows of a room the stream vouches for holds all that the daemon stated it complete *)
(* up to, and neither a record nor that position goes back while it does (deliver and       *)
(* receive of poller.ts, certifyResource and refresh of resource-views.ts).                 *)
THEOREM CertifiedStaysAlways == Spec => CertifiedStays
<1>. DEFINE Inv == Types /\ InOrder /\ Sent /\ Coherent /\ Showing
<1>1. Init => Inv BY TypesInit, InOrderInit, SentInit, CoherentInit, ShowingInit
<1>2. Inv /\ [Next]_vars => Inv' /\ [CertifiedIsShown' /\ CertifiedOnlyGrows]_vars
  <2>. SUFFICES ASSUME Inv, [Next]_vars PROVE Inv' /\ CertifiedIsShown' /\ CertifiedOnlyGrows OBVIOUS
  <2>1. (Types /\ InOrder /\ Sent /\ Coherent)' BY TypesStep, InOrderStep, SentStep, CoherentStep
  <2>2. Showing' /\ Gains(Here, Here') BY ShowingStep DEF ShowsOn
  <2>3. CertifiedIsShown' BY <2>2, ShowingIsShown, PTL
  <2>. QED BY <2>1, <2>2, <2>3, GainsGrow
<1>. HIDE DEF Inv
<1>. QED BY <1>1, <1>2, PTL DEF Spec, CertifiedStays
=============================================================================

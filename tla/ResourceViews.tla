--------------------------- MODULE ResourceViews ---------------------------
(***************************************************************************)
(* The live resource stream of the daemon: CoworkResourceViews of          *)
(* src/resource-views.ts, fed by the commits the store publishes           *)
(* (src/storage.ts).  One connection carries two views: "rooms", the list  *)
(* of rooms, and "room", one room with its participants and history.       *)
(* A view projects its resource, writes it out, and from then on states    *)
(* the store position up to which what it sent is complete.                *)
(*                                                                         *)
(* What a view shows is represented by the commits it reflects: the set of *)
(* positions of `log` a projection has read.  Sequence and revision        *)
(* numbers are left out: they are given out in the order of the one writer *)
(* and only detect frames a byte stream cannot lose.                       *)
(***************************************************************************)
EXTENDS Integers, Sequences

CONSTANTS
    MaxCommits,  \* bound on the commits of a behaviour
    Published,   \* the kinds of commit that happen (below), to keep a run small
    MaxOutput,   \* frames the writer holds before it gives up (RESOURCE_PENDING_BYTES)
    Attempts     \* projections of one refresh before it gives up (3 in the code)

ASSUME BoundsAreNumbers ==
    /\ MaxCommits \in Nat
    /\ MaxOutput \in Nat
    /\ Attempts \in Nat \ {0}

Views == {"rooms", "room"}

\* Commits the store publishes: the room's metadata, a record of its archive,
\* the metadata of some other room, the deletion of the room, its health.
Kinds == {"metadata", "history", "other", "delete", "health"}

\* The commits that change what a view projects.
Relevant(v) == IF v = "room" THEN {"metadata", "history", "delete"}
                             ELSE {"metadata", "other", "delete"}

\* The commits that make a view project again.
Wakes(v) == IF v = "room" THEN Relevant(v) \cup {"health"} ELSE Relevant(v)

NoSource == -1

Idle == [pc |-> "idle", view |-> "rooms", epoch |-> 0, attempt |-> 0, got |-> {},
         from |-> 0, moved |-> FALSE, source |-> NoSource, frames |-> <<>>]

Off == [epoch |-> 0, live |-> FALSE, failed |-> FALSE, dirty |-> FALSE, running |-> FALSE,
        based |-> FALSE, ready |-> FALSE, payload |-> {}, covered |-> 0]

VARIABLES
    log,    \* the commits published so far; the store's position is its length
    watch,  \* what the room's watcher reports: "ok", "pending" intake or "failed"
    open,   \* the connection's output accepts frames
    view,   \* per view, its registration on the connection
    fence,  \* per view, the highest epoch registered or removed
    tail,   \* refreshes queued on the connection, oldest first
    task,   \* the refresh that is running
    wire    \* frames written and not yet read by the browser

store  == <<log, watch>>
stream == <<open, view, fence, tail, task, wire>>

position == Len(log)

-----------------------------------------------------------------------------
(* What a projection reads.                                                 *)

Only(commits, kinds) == {i \in commits : log[i] \in kinds}

\* What view v shows once every commit up to position p is reflected.
Content(v, p) == {i \in 1..p : log[i] \in Relevant(v)}

History(commits) == Only(commits, {"history"})

Gone(commits) == Only(commits, {"delete"}) # {}

Pending(v) == v = "room" /\ watch = "pending"

Healthy(v) == ~(v = "room" /\ watch = "failed")

Current(job) ==
    open /\ view[job.view].live /\ view[job.view].epoch = job.epoch

-----------------------------------------------------------------------------
(* The writer.                                                              *)

Frame(v, kind, content, after, source) ==
    [view |-> v, epoch |-> view[v].epoch, kind |-> kind, content |-> content,
     after |-> after, source |-> source]

\* Frames are admitted in order; one that does not fit closes the output.
Send(frames) ==
    /\ wire' = IF open THEN wire \o frames ELSE wire
    /\ open' = (open /\ Len(wire \o frames) <= MaxOutput)

-----------------------------------------------------------------------------
(* Commits, and what the connection's listener does with each of them.      *)

\* Mark a view for projection, and queue a refresh unless one is under way.
Schedule(r) == IF r.live /\ ~r.failed THEN [r EXCEPT !.dirty = TRUE, !.running = TRUE] ELSE r

\* Mutated: a commit that is of no matter to the view advances its coverage
\* whether or not another one is still to be written.
HeardEarly(v, k, w, p) ==
    LET r == view[v] IN
    IF ~(open /\ r.live) THEN r
    ELSE IF v = "room" /\ w = "failed"
         THEN IF r.failed THEN r ELSE [r EXCEPT !.failed = TRUE, !.live = FALSE]
    ELSE IF v = "room" /\ w = "pending" THEN r
    ELSE IF k \in Wakes(v) THEN Schedule(r)
    ELSE IF r.based THEN [r EXCEPT !.covered = p]
    ELSE r

\* The listener's effect on view v of a commit of kind k at position p, the
\* watcher reporting w.
Heard(v, k, w, p) ==
    LET r == view[v] IN
    IF ~(open /\ r.live) THEN r
    ELSE IF v = "room" /\ w = "failed"
         THEN IF r.failed THEN r ELSE [r EXCEPT !.failed = TRUE, !.live = FALSE]
    ELSE IF v = "room" /\ w = "pending" THEN r
    ELSE IF k \in Wakes(v) THEN Schedule(r)
    ELSE IF r.based /\ ~r.running /\ ~r.dirty THEN [r EXCEPT !.covered = p]
    ELSE r

\* The refresh a change of view v from its present record to r queues.
Queued(v, r) ==
    IF r.running /\ ~view[v].running THEN <<[view |-> v, epoch |-> r.epoch]>> ELSE <<>>

\* Mutated: only a commit after the read is noticed.
MovesLate(k, w) == task.pc = "judge" /\ k \in Wakes(task.view)

\* The commit makes void what the running refresh is reading: it wakes the view,
\* or comes while the room's intake is pending.
Moves(k, w) ==
    /\ task.pc \in {"read", "others", "judge"}
    /\ k \in Wakes(task.view) \/ (task.view = "room" /\ w = "pending")

Publish(k, w) ==
    LET heard == [v \in Views |-> Heard(v, k, w, position + 1)] IN
    /\ log' = Append(log, k)
    /\ watch' = w
    /\ view' = heard
    /\ tail' = tail \o Queued("rooms", heard["rooms"]) \o Queued("room", heard["room"])
    /\ Send(IF heard["room"].failed /\ ~view["room"].failed
            THEN <<Frame("room", "resync", {}, {}, NoSource)>> ELSE <<>>)
    /\ task' = [task EXCEPT !.moved = @ \/ Moves(k, w)]
    /\ UNCHANGED fence

\* A room save, an archive append, another room's save, the room's deletion.
Commit(k) ==
    /\ position < MaxCommits /\ k \in Published
    /\ k = "other" \/ ~Gone(1..position)
    /\ k = "delete" => watch = "ok"
    /\ Publish(k, watch)

\* The room's watcher reports a change of its health or of pending intake.
SetResourceHealth(w) ==
    /\ position < MaxCommits /\ "health" \in Published
    /\ w # watch
    /\ ~Gone(1..position)
    /\ Publish("health", w)

-----------------------------------------------------------------------------
(* Registration.                                                            *)

Fresh(e) == [Off EXCEPT !.epoch = e, !.live = TRUE]

\* Bind view v at epoch e, retiring the binding it replaces.
Register(v, e) ==
    LET r == Schedule(Fresh(e)) IN
    /\ open
    /\ e > fence[v]
    /\ fence' = [fence EXCEPT ![v] = e]
    /\ view' = [view EXCEPT ![v] = r]
    /\ tail' = Append(tail, [view |-> v, epoch |-> e])
    /\ UNCHANGED <<log, watch, open, task, wire>>

\* Release view v; the fence stays for a registration that is still on its way.
Remove(v, e) ==
    /\ open
    /\ fence' = [fence EXCEPT ![v] = IF e > @ THEN e ELSE @]
    /\ view' = [view EXCEPT ![v] = IF @.epoch <= e THEN Off ELSE @]
    /\ UNCHANGED <<log, watch, open, tail, task, wire>>

-----------------------------------------------------------------------------
(* One refresh at a time: project, compare, write, certify.                 *)

\* Mutated: a mark set while the refresh ran is dropped with it.
AgainNever(r) == r.dirty /\ r.failed
Again(r) == r.dirty /\ ~r.failed

\* A refresh of `job` ends, the views being left as in vs and the others queued
\* being `rest`: a view marked again meanwhile is queued again.
Leave(job, vs, rest) ==
    /\ task' = Idle
    /\ view' = IF Current(job) /\ ~Again(vs[job.view])
               THEN [vs EXCEPT ![job.view].running = FALSE] ELSE vs
    /\ tail' = IF Current(job) /\ Again(vs[job.view])
               THEN Append(rest, [view |-> job.view, epoch |-> job.epoch]) ELSE rest

End(vs) == Leave(task, vs, tail)

Skip(vs, job) == Leave(job, vs, Tail(tail))

\* Mutated: one projection more than the bound.
MayRetryOnce == task.attempt <= Attempts
MayRetry == task.attempt < Attempts

\* A refresh gives its view up: the browser is told to recover it another way.
Fail ==
    /\ Send(<<Frame(task.view, "resync", {}, {}, NoSource)>>)
    /\ End([view EXCEPT ![task.view].failed = TRUE])

\* Start a projection: commits heard from here on make it void.
Attempt(n, job, vs) ==
    /\ task' = [Idle EXCEPT !.pc = "read", !.view = job.view, !.epoch = job.epoch,
                            !.attempt = n, !.from = position]
    /\ view' = vs

\* The oldest queued refresh starts: nothing to do if its binding was retired
\* or is no longer marked, and nothing to say while intake is pending.
Begin ==
    LET job == Head(tail)
        v == job.view
        clean == [view EXCEPT ![v].dirty = FALSE] IN
    /\ task.pc = "idle" /\ tail # <<>>
    /\ IF ~Current(job) \/ ~view[v].dirty THEN Skip(view, job) /\ UNCHANGED <<open, wire>>
       ELSE IF Pending(v) THEN Skip(clean, job) /\ UNCHANGED <<open, wire>>
       ELSE IF ~Healthy(v)
       THEN /\ Send(<<Frame(v, "resync", {}, {}, NoSource)>>)
            /\ Skip([clean EXCEPT ![v].failed = TRUE], job)
       ELSE /\ Attempt(1, job, clean)
            /\ tail' = Tail(tail)
            /\ UNCHANGED <<open, wire>>
    /\ UNCHANGED <<store, fence>>

\* A room is read under its mutex, at one position.
ReadRoom ==
    /\ task.pc = "read" /\ task.view = "room"
    /\ task' = [task EXCEPT !.pc = "judge", !.from = 0, !.got = Content("room", position)]
    /\ UNCHANGED <<store, open, view, fence, tail, wire>>

\* The list loads one room after the other, each under its own mutex.
ReadListedRoom ==
    /\ task.pc = "read" /\ task.view = "rooms"
    /\ task' = [task EXCEPT !.pc = "others", !.got = Only(1..position, {"metadata", "delete"})]
    /\ UNCHANGED <<store, open, view, fence, tail, wire>>

ReadOtherRooms ==
    /\ task.pc = "others"
    /\ task' = [task EXCEPT !.pc = "judge", !.from = 0, !.got = @ \cup Only(1..position, {"other"})]
    /\ UNCHANGED <<store, open, view, fence, tail, wire>>

\* Loading a room deleted after the directory was listed throws.
ListingFails ==
    /\ task.pc = "read" /\ task.view = "rooms"
    /\ Gone(1..position) /\ ~Gone(1..task.from)
    /\ IF Current(task) THEN Fail ELSE End(view) /\ UNCHANGED <<open, wire>>
    /\ UNCHANGED <<store, fence>>

\* What the view was last sent becomes `got`, complete up to `source`, or up to
\* now if no commit marked the view since.
Certified(r, got, source) ==
    [r EXCEPT !.payload = got, !.based = TRUE,
              !.covered = IF r.dirty THEN source ELSE position]

\* The whole content is flushed: a first projection is followed by "ready".
Settle(got, source) ==
    LET v == task.view
        r == Certified(view[v], got, source) IN
    IF view[v].based
    THEN End([view EXCEPT ![v] = r]) /\ UNCHANGED <<open, wire>>
    ELSE /\ view' = [view EXCEPT ![v] = r]
         /\ task' = [task EXCEPT !.pc = "ready", !.got = {}, !.source = NoSource]
         /\ Send(<<Frame(v, "ready", {}, {}, r.covered)>>)
         /\ UNCHANGED tail

\* The frames a changed projection is written as: a room the browser holds is
\* sent as its new records, a large one in units, anything else whole.
Writings(got) ==
    IF task.view = "room" /\ ~Gone(got)
    THEN IF view["room"].based THEN {<<"update", "page">>}
         ELSE {<<"snapshot">>} \cup {f \in {<<"part", "page">>} : History(got) # {}}
    ELSE {<<"snapshot">>}

Judge ==
    LET v == task.view
        r == view[v]
        clean == [view EXCEPT ![v].dirty = FALSE] IN
    /\ task.pc = "judge"
    /\ IF ~Current(task) THEN End(view) /\ UNCHANGED <<open, wire>>
       ELSE IF task.moved /\ MayRetry THEN Attempt(task.attempt + 1, task, view) /\ UNCHANGED <<tail, open, wire>>
       ELSE IF Pending(v)
       THEN End(IF task.moved THEN view ELSE clean) /\ UNCHANGED <<open, wire>>
       ELSE IF task.moved THEN Fail
       ELSE IF r.based /\ task.got = r.payload
       THEN /\ End([clean EXCEPT ![v].covered = position])
            /\ UNCHANGED <<open, wire>>
       ELSE /\ \E frames \in Writings(task.got) :
                   task' = [task EXCEPT !.pc = "write", !.attempt = 0, !.frames = frames,
                                        !.source = position]
            /\ view' = clean
            /\ UNCHANGED <<open, tail, wire>>
    /\ UNCHANGED <<store, fence>>

\* The commits a frame of the given kind carries.
Carried(kind) ==
    CASE kind = "snapshot" -> task.got
      [] kind = "page"     -> History(task.got) \ History(view["room"].payload)
      [] OTHER             -> task.got \ History(task.got)

\* The operator's authorization is read again, then the next frame is written;
\* only the last frame of a projection states its source, and only when no
\* intake is pending.
Write ==
    LET v == task.view
        last == Len(task.frames) = 1
        source == IF last /\ ~Pending(v) THEN task.source ELSE NoSource
        kind == Head(task.frames) IN
    /\ task.pc = "write"
    /\ IF ~Current(task) THEN End(view) /\ UNCHANGED <<open, wire>>
       ELSE /\ Send(<<Frame(v, kind, Carried(kind), History(view[v].payload), source)>>)
            /\ task' = [task EXCEPT !.pc = "flush", !.frames = Tail(@)]
            /\ UNCHANGED <<view, tail>>
    /\ UNCHANGED <<store, fence>>

Flushed ==
    LET v == task.view IN
    /\ task.pc = "flush"
    /\ IF task.frames # <<>>
       THEN task' = [task EXCEPT !.pc = "write"] /\ UNCHANGED <<open, view, tail, wire>>
       ELSE IF ~Current(task) \/ Pending(v) THEN End(view) /\ UNCHANGED <<open, wire>>
       ELSE Settle(task.got, task.source)
    /\ UNCHANGED <<store, fence>>

ReadyFlushed ==
    /\ task.pc = "ready"
    /\ End(IF Current(task) THEN [view EXCEPT ![task.view].ready = TRUE] ELSE view)
    /\ UNCHANGED <<store, open, fence, wire>>

\* Every fifteen seconds: the views whose content is complete up to the
\* present position say so, together.
Eligible(v) ==
    LET r == view[v] IN
    /\ r.live /\ r.ready /\ ~r.failed /\ ~r.running /\ ~r.dirty
    /\ ~Pending(v) /\ Healthy(v)
    /\ r.covered = position

Coverage ==
    LET covers(v) == IF Eligible(v) THEN <<Frame(v, "coverage", {}, {}, view[v].covered)>>
                                    ELSE <<>> IN
    /\ open
    /\ \E v \in Views : Eligible(v)
    /\ Send(covers("rooms") \o covers("room"))
    /\ UNCHANGED <<store, view, fence, tail, task>>

Refresh ==
    \/ Begin \/ ReadRoom \/ ReadListedRoom \/ ReadOtherRooms \/ ListingFails
    \/ Judge \/ Write \/ Flushed \/ ReadyFlushed

-----------------------------------------------------------------------------
(* Properties of the daemon's end.                                          *)

Jobs == [view : Views, epoch : Nat]

ViewOK ==
    view \in [Views -> [epoch : Nat, live : BOOLEAN, failed : BOOLEAN, dirty : BOOLEAN,
                       running : BOOLEAN, based : BOOLEAN, ready : BOOLEAN,
                       payload : SUBSET (1..position), covered : 0..position]]

TaskOK ==
    task \in [pc : {"idle", "read", "others", "judge", "write", "flush", "ready"},
             view : Views, epoch : Nat, attempt : 0..Attempts, got : SUBSET (1..position),
             from : 0..position, moved : BOOLEAN, source : -1..position,
             frames : Seq({"snapshot", "part", "update", "page"})]

\* The state of the daemon's end is well formed; what a view or a refresh holds
\* lies within what the store has committed.
ViewsTypeOK ==
    /\ log \in Seq(Kinds)
    /\ watch \in {"ok", "pending", "failed"}
    /\ open \in BOOLEAN
    /\ ViewOK /\ TaskOK
    /\ fence \in [Views -> Nat]
    /\ tail \in Seq(Jobs)

\* A view states that it is complete up to a position only if what it was last
\* sent is exactly what the store held there: a commit that came while it was
\* read, authorized or written is not covered by the statement.
CoveredIsSent ==
    \A v \in Views :
        open /\ view[v].live /\ view[v].based /\ ~view[v].failed =>
            view[v].payload = Content(v, view[v].covered)

=============================================================================

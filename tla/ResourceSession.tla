-------------------------- MODULE ResourceSession --------------------------
(***************************************************************************)
(* The web console's end of the resource stream: createResourceSession of  *)
(* web/src/state/poller.ts and the delivery of web/src/App.tsx, composed   *)
(* with the daemon's end (ResourceViews).  The session keeps one stream    *)
(* open, registers the views the page needs, assembles what it receives,   *)
(* and reads by polling what the stream cannot give for the moment.        *)
(***************************************************************************)
EXTENDS ResourceViews

CONSTANTS
    MaxEvents  \* bound on what happens to the two ends: commits, and turns, which are
               \* streams lost to the network or a deadline, and the times the operator
               \* leaves the room or hides the page

ASSUME EventsAreNumbers == MaxEvents \in Nat

VARIABLES
    mode,     \* the stream: "up", "down" until it is tried again, or page "hidden"
    binding,  \* per view, the session's side of its registration
    asked,    \* per view, the last epoch asked for on this stream
    posts,    \* registrations and removals on their way to the daemon
    poll,     \* per view, its recovery reader
    wanted,   \* the room is selected
    page,     \* what the page shows: rows of the list, the room, its tombstone
    turns

session == <<mode, binding, asked, posts, poll, wanted, page, turns>>
vars == <<store, stream, session>>

Unbound == [live |-> FALSE, epoch |-> 0, ready |-> FALSE, failed |-> FALSE, has |-> FALSE,
            whole |-> FALSE, pending |-> {}, source |-> NoSource]

NoPoll == [on |-> FALSE, pc |-> "idle", got |-> {}, stale |-> FALSE]

\* The room is a row of the list the page shows.
Listed(pg) == ~pg.deleted /\ ~Gone(pg.rows)

-----------------------------------------------------------------------------
(* Changes of the session, gathered in one record: what a handler does is a *)
(* chain of them.                                                           *)

Here == [binding |-> binding, asked |-> asked, posts |-> posts, poll |-> poll,
         wanted |-> wanted, page |-> page]

Becomes(s) ==
    /\ binding' = s.binding /\ asked' = s.asked /\ posts' = s.posts
    /\ poll' = s.poll /\ wanted' = s.wanted /\ page' = s.page

\* Start the recovery reader of a view, unless it has one.
Recover(s, v) == IF s.poll[v].on THEN s ELSE [s EXCEPT !.poll[v].on = TRUE]

StopRecovery(s, v) == [s EXCEPT !.poll[v] = NoPoll]

\* Ask the daemon for a view, unless it is bound.
Bind(s, v) ==
    IF s.binding[v].live THEN s
    ELSE LET e == s.asked[v] + 1 IN
         [s EXCEPT !.asked[v] = e,
                   !.binding[v] = [Unbound EXCEPT !.live = TRUE, !.epoch = e],
                   !.posts = @ \cup {[kind |-> "register", view |-> v, epoch |-> e]}]

\* The room is no longer watched: its reader stops, its binding is released.
Unwatch(s) ==
    LET b == s.binding["room"] IN
    [s EXCEPT !.wanted = FALSE, !.poll["room"] = NoPoll, !.binding["room"] = Unbound,
              !.posts = IF b.live
                        THEN @ \cup {[kind |-> "remove", view |-> "room", epoch |-> b.epoch]}
                        ELSE @]

\* A reader that began before the cached room was replaced drops what it reads.
Outdated(s) == [s EXCEPT !.poll["room"].stale = s.poll["room"].on]

\* The page takes the list: a room that is not in it is forgotten and released.
DeliverRooms(s, content) ==
    IF Gone(content)
    THEN Unwatch([s EXCEPT !.page.rows = content, !.page.room = {}, !.page.cached = FALSE])
    ELSE [s EXCEPT !.page.rows = content]

\* The page takes the room: a deleted one leaves a tombstone; a detail replaces
\* the row of a listed room and never adds one.
DeliverRoom(s, content) ==
    IF Gone(content)
    THEN Unwatch([s EXCEPT !.page.deleted = TRUE, !.page.room = {}, !.page.cached = FALSE])
    ELSE IF s.page.deleted THEN s
    ELSE Outdated([s EXCEPT
           !.page.room = content, !.page.cached = TRUE,
           !.page.rows = IF Listed(s.page)
                         THEN (@ \ Only(@, {"metadata"})) \cup Only(content, {"metadata"})
                         ELSE @])

Deliver(s, v, content) == IF v = "room" THEN DeliverRoom(s, content) ELSE DeliverRooms(s, content)

-----------------------------------------------------------------------------
(* The stream.                                                              *)

\* The daemon's end of a connection that is gone.
Closed(isOpen) ==
    /\ open' = isOpen
    /\ view' = [v \in Views |-> Off] /\ fence' = [v \in Views |-> 0]
    /\ tail' = <<>> /\ task' = Idle /\ wire' = <<>>

\* Open a stream: the readers of the last one stop before the views are asked for.
Connect ==
    LET fresh == [Here EXCEPT !.poll = [v \in Views |-> NoPoll],
                              !.binding = [v \in Views |-> Unbound],
                              !.asked = [v \in Views |-> 0], !.posts = {}]
        rooms == Bind(fresh, "rooms") IN
    /\ mode = "down"
    /\ mode' = "up"
    /\ Becomes(IF wanted THEN Bind(rooms, "room") ELSE rooms)
    /\ Closed(TRUE)
    /\ UNCHANGED <<store, turns>>

Silent(s) == [s EXCEPT !.binding = [v \in Views |-> Unbound], !.posts = {}]

\* The stream is lost: everything the page shows is read by polling until the
\* next one is opened.
Lose ==
    LET s == Recover(Silent(Here), "rooms") IN
    /\ mode' = "down"
    /\ Becomes(IF wanted THEN Recover(s, "room") ELSE s)
    /\ Closed(FALSE)

Happens == position + turns < MaxEvents

Turn == Happens /\ turns' = turns + 1

\* The network fails, or a deadline passes.
Drop ==
    /\ Turn /\ mode = "up" /\ open
    /\ Lose
    /\ UNCHANGED store

\* The daemon ended the stream.
Ended ==
    /\ mode = "up" /\ ~open
    /\ Lose
    /\ UNCHANGED <<store, turns>>

\* Evidence of a source is accepted unless it goes back.
Sound(b, source) == source >= b.source

Certify(s, v, source) ==
    IF source = NoSource THEN s ELSE [s EXCEPT !.binding[v].source = source]

\* A room missing from a list received is released before anything else.
Released(s, v, content) ==
    IF v = "rooms" /\ Gone(content) /\ s.wanted THEN Unwatch(s) ELSE s

\* The frames a session refuses: the stream is given up.
Refused(b, f) ==
    CASE f.kind = "update"   -> ~b.ready \/ ~b.whole \/ f.after # History(b.pending)
      [] f.kind = "page"     -> ~b.has \/ b.whole
      [] f.kind = "ready"    -> ~b.has \/ ~b.whole
      [] f.kind = "coverage" -> ~b.ready
      [] OTHER               -> FALSE

\* Mutated: an increment starts from an empty history.
ContinuedEmpty(b, f) == f.content
\* An increment keeps the records the session holds.
Continued(b, f) == f.content \cup History(b.pending)

\* What the session does with an accepted frame.
Apply(f) ==
    LET v == f.view
        b == binding[v]
        content == IF f.kind = "snapshot" THEN f.content ELSE b.pending \cup f.content IN
    CASE f.kind \in {"snapshot", "page"} ->
            LET held == Released([Here EXCEPT !.binding[v].has = TRUE, !.binding[v].whole = TRUE,
                                              !.binding[v].pending = content], v, content) IN
            IF b.ready THEN Deliver(Certify(held, v, f.source), v, content) ELSE held
      [] f.kind = "part" ->
            [Here EXCEPT !.binding[v].has = TRUE, !.binding[v].whole = FALSE,
                         !.binding[v].pending = f.content]
      [] f.kind = "update" ->
            [Here EXCEPT !.binding[v].whole = FALSE,
                         !.binding[v].pending = Continued(b, f)]
      [] f.kind = "ready" ->
            Deliver(StopRecovery(Certify([Here EXCEPT !.binding[v].ready = TRUE], v, f.source), v),
                    v, b.pending)
      [] f.kind = "coverage" -> Certify(Here, v, f.source)
      [] f.kind = "resync" -> Recover([Here EXCEPT !.binding[v].failed = TRUE], v)

\* The next frame of the stream.
Receive ==
    LET f == Head(wire)
        b == binding[f.view] IN
    /\ mode = "up" /\ wire # <<>>
    /\ IF ~b.live \/ f.epoch < b.epoch
       THEN /\ wire' = Tail(wire)
            /\ UNCHANGED <<open, view, fence, tail, task, session>>
       ELSE IF Refused(b, f) \/ (f.source # NoSource /\ ~Sound(b, f.source))
       THEN Lose /\ UNCHANGED <<turns>>
       ELSE /\ Becomes(Apply(f))
            /\ wire' = Tail(wire)
            /\ UNCHANGED <<open, view, fence, tail, task, mode, turns>>
    /\ UNCHANGED store

\* Bound on asking for a room whose watcher reports a failure all the while.
Probes == 2

\* A failed view is asked for again after a while.
Retry(v) ==
    /\ mode = "up"
    /\ binding[v].live /\ binding[v].failed
    /\ v = "room" => wanted
    /\ Healthy(v) \/ asked[v] < Probes
    /\ Becomes(Bind([Here EXCEPT !.binding[v] = Unbound], v))
    /\ UNCHANGED <<store, stream, mode, turns>>

\* The daemon serves a registration; a removal follows its registration.
Serve(p) ==
    /\ posts' = posts \ {p}
    /\ IF p.kind = "register" THEN Register(p.view, p.epoch)
       ELSE /\ ~\E q \in posts : q.kind = "register" /\ q.view = p.view /\ q.epoch <= p.epoch
            /\ Remove(p.view, p.epoch)
    /\ UNCHANGED <<mode, binding, asked, poll, wanted, page, turns>>

-----------------------------------------------------------------------------
(* The recovery readers.                                                    *)

\* Another read begins: room.list, or room.show and room.participants of a room
\* that is still listed; these fail on a deleted room.
PollHead(v) ==
    /\ poll[v].on /\ poll[v].pc = "idle"
    /\ v = "room" => Listed(page) /\ ~Gone(1..position)
    /\ poll' = [poll EXCEPT ![v].pc = IF v = "room" THEN "tail" ELSE "answer",
                            ![v].got = IF v = "room" THEN Only(1..position, {"metadata"})
                                                     ELSE Content("rooms", position),
                            ![v].stale = FALSE]
    /\ UNCHANGED <<store, stream, mode, binding, asked, posts, wanted, page, turns>>

\* room.history, from the tail of what the page has accepted to its end.
PollTail ==
    /\ poll["room"].pc = "tail"
    /\ poll' = IF Gone(1..position) \/ poll["room"].stale
               THEN [poll EXCEPT !["room"].pc = "idle", !["room"].got = {}]
               ELSE [poll EXCEPT !["room"].pc = "answer", !["room"].got = @ \cup History(1..position)]
    /\ UNCHANGED <<store, stream, mode, binding, asked, posts, wanted, page, turns>>

\* The answer is shown, unless a newer room was accepted while it was read.
PollAnswers(v) ==
    LET done == [Here EXCEPT !.poll[v].pc = "idle", !.poll[v].got = {}] IN
    /\ poll[v].pc = "answer"
    /\ Becomes(IF v = "room" /\ (poll[v].stale \/ ~Listed(page)) THEN done
               ELSE Deliver(done, v, poll[v].got))
    /\ UNCHANGED <<store, stream, mode, turns>>

-----------------------------------------------------------------------------
(* The operator.                                                            *)

\* Select the room: while anything is read by polling, so is the room at first.
WatchRoom ==
    LET s == [Here EXCEPT !.wanted = TRUE]
        read == IF \E v \in Views : poll[v].on THEN Recover(s, "room") ELSE s IN
    /\ mode # "hidden"
    /\ ~wanted /\ Listed(page)
    /\ Becomes(IF mode = "up" THEN Bind(read, "room") ELSE read)
    /\ UNCHANGED <<store, stream, mode, turns>>

LeaveRoom ==
    /\ Turn /\ wanted
    /\ Becomes(Unwatch(Here))
    /\ UNCHANGED <<store, stream, mode>>

\* A hidden page reads nothing.
Hide ==
    /\ Turn /\ mode # "hidden"
    /\ mode' = "hidden"
    /\ Becomes([Silent(Here) EXCEPT !.poll = [v \in Views |-> NoPoll]])
    /\ Closed(FALSE)
    /\ UNCHANGED store

Show ==
    /\ mode = "hidden"
    /\ mode' = "down"
    /\ UNCHANGED <<store, stream, binding, asked, posts, poll, wanted, page, turns>>

-----------------------------------------------------------------------------

Init ==
    /\ log = <<>> /\ watch = "ok"
    /\ open = FALSE
    /\ view = [v \in Views |-> Off] /\ fence = [v \in Views |-> 0]
    /\ tail = <<>> /\ task = Idle /\ wire = <<>>
    /\ mode = "down"
    /\ binding = [v \in Views |-> Unbound] /\ asked = [v \in Views |-> 0] /\ posts = {}
    /\ poll = [v \in Views |-> NoPoll] /\ wanted = TRUE
    /\ page = [rows |-> {}, room |-> {}, cached |-> FALSE, deleted |-> FALSE]
    /\ turns = 0

Poll ==
    \/ PollTail
    \/ \E v \in Views : PollHead(v) \/ PollAnswers(v)

Next ==
    \/ Happens /\ (\E k \in Kinds \ {"health"} : Commit(k)) /\ UNCHANGED session
    \/ Happens /\ (\E w \in {"ok", "pending", "failed"} : SetResourceHealth(w)) /\ UNCHANGED session
    \/ (Refresh \/ Coverage) /\ UNCHANGED session
    \/ Connect \/ Drop \/ Ended \/ Receive
    \/ \E v \in Views : Retry(v)
    \/ \E p \in posts : Serve(p)
    \/ Poll
    \/ WatchRoom \/ LeaveRoom \/ Hide \/ Show

Spec == Init /\ [][Next]_vars

LiveSpec ==
    /\ Spec
    /\ WF_vars(Refresh /\ UNCHANGED session)
    /\ WF_vars(Connect \/ Ended \/ Receive)
    /\ WF_vars(\E p \in posts : Serve(p))
    /\ WF_vars(\E v \in Views : Retry(v))

-----------------------------------------------------------------------------

\* The state of both ends is well formed.
TypeOK ==
    /\ ViewsTypeOK
    /\ \A i \in DOMAIN wire : wire[i].view \in Views /\ wire[i].content \subseteq 1..position
    /\ mode \in {"up", "down", "hidden"}
    /\ \A v \in Views : binding[v].pending \subseteq 1..position /\ asked[v] \in Nat
    /\ \A p \in posts : p.kind \in {"register", "remove"} /\ p.view \in Views
    /\ \A v \in Views : poll[v].pc \in {"idle", "tail", "answer"}
    /\ page.rows \subseteq 1..position /\ page.room \subseteq 1..position

\* What the session takes from the stream as one whole resource is what the
\* store held at one position: never a list of which one row is older than
\* another, nor a room whose records do not go with its metadata.
StreamIsASnapshot ==
    \A v \in Views : binding[v].live /\ binding[v].whole =>
        \E p \in 0..position : binding[v].pending = Content(v, p)

\* The stream vouches for view v: its baseline is complete and it has not failed.
Certain(v) == binding[v].live /\ binding[v].ready /\ ~binding[v].failed

\* A room the stream vouches for up to a position shows every commit up to
\* there, whatever a recovery reader brought meanwhile.
CertifiedIsShown ==
    Certain("room") /\ wanted =>
        page.cached /\ Content("room", binding["room"].source) \subseteq page.room

\* While the stream vouches for the room, no record leaves the page and the
\* position vouched for never goes back.
CertifiedOnlyGrows ==
    Certain("room") /\ Certain("room")' /\ wanted /\ wanted' /\ asked' = asked
        => /\ page.room \subseteq page'.room
           /\ binding["room"].source <= binding'["room"].source

\* What the page shows of a room the stream vouches for is complete, and nothing
\* of it is lost while it does: neither a late recovery read nor a new baseline
\* takes it back.
CertifiedStays == [][CertifiedIsShown' /\ CertifiedOnlyGrows]_vars

\* A stream that stays up, with the room's intake settled, brings the page to
\* what the store holds, list and room, and keeps it there.
Settles ==
    <>[](mode = "up" /\ watch = "ok") =>
        <>[](/\ page.rows = Content("rooms", position)
             /\ wanted => page.room = Content("room", position))

\* "Its pending state excludes certification without declaring an explicit
\* failure" (src/resource-views.ts:225): the increment of a room that became
\* pending while it was written is continued, not refused.
PendingIsNoFailure ==
    wire # <<>> /\ Head(wire).kind = "update" =>
        LET b == binding[Head(wire).view] IN
        b.live /\ ~b.failed /\ Head(wire).epoch = b.epoch => ~Refused(b, Head(wire))

=============================================================================

# A TLA+ development of ours-cowork

ours-cowork hosts *rooms*: an SDK identity per room receives messages and
files from its members, archives them durably, and relays each one to the other
members. This directory holds the specification of that program, the TLC runs
that check it on small instances and the proofs that hold for every instance.
All paths below are relative to the repository.

## The system

| Part | Source | State | Operations |
|---|---|---|---|
| SDK history (external) | `@ours.network/sdk` | inbox rows, read marks, contacts, invites | deliver, read the oldest row, fetch or read a file, send |
| SDK watcher | `src/ours-runtime.ts` | one follower per identity: cursor, announced set, backoff | track, announce, retry, quiesce, untrack |
| Room packet and registry | `src/packets.ts`, `src/room-owners.ts`, `src/owner-cleanup.ts` | one client per hosted room, its owner record, cached contacts | create, restore, rebind, unhost, destroy, list, acknowledge, send |
| Intake and relay | `src/intake.ts` | per room: notification worker, pump (`dirty` flags) | notify, pump, resumePending, drainAndRelay |
| Storage | `src/storage.ts` | per room: `room.json`, `archive.sqlite3` (records, recipients, work tables), blobs, room mutex | create, save, append, query, work queries, delete |
| Room service | `src/service.ts`, `src/threads.ts`, `src/thread-history.ts`, `src/reply-threading.ts`, `src/consumer-commands.ts` | none of its own beyond a commands queue | create, recover, invite, reconcile, remove, post, start thread, close, delete, history |
| Daemon | `src/daemon-runtime.ts` | boot phase, queued notifications, fan-out retries, `daemon.lock`, `daemon.pid` | boot, notify, retry fan-out, shut down |
| Supervisor | `src/daemon.ts`, `src/daemon-process.ts`, `src/supervisor-lock.ts` | child process, stage, timers, lock generations | start, stop, deliver terminal owner events, release |
| Surfaces | `src/transports.ts`, `src/resource-views.ts`, `src/cli.ts`, `src/web.ts`, `web/` | connections, bounded output queues | RPC, REST, resource frames, console |

### How the parts interact

The SDK announces a row to the watcher; the watcher calls the daemon's
notification handler, which queues the room until boot is complete and then runs
`service.notifyRoom`: reconcile membership under the room mutex, then `intake.notify`.
The notification worker coalesces calls into one pump per room; the
pump drains commands, lists a batch of unread rows, archives each one with its
recipients, journals intents, acknowledges the SDK row, and after the last batch
relays every unresolved intent. REST callers post through the service, which
archives under the same mutex and asks the intake to resume. Commands arrive as
SDK messages and call back into the service in the middle of an acknowledgement.
Boot restores the packets of every room, resumes lifecycle requests, reconciles,
finishes closing rooms and fans out what is pending. Only storage and the SDK
history survive a crash.

### What is hard here

Two durable stores without a common transaction; a read mark that belongs to the
oldest unread row, not to the one just archived; pauses that take effect
between two awaits; sends whose outcome is unknown; passes that are coalesced; a
room whose membership changes while a snapshot of its inbox is processed; crashes
between any two writes; several processes contending for one state directory.
`PROJECT.json` lists each hazard at its line and the properties that cover it.

## Modules

| Module | What it is |
|---|---|
| `RoomRelay` | one room: SDK inbox, intake, archive, relay, posts, and the membership, lifecycle and crash steps they meet |
| `RoomDelivery` | the abstract promise: each source decided once; each recipient owed until concluded; no copy to anyone not owed |
| `SupervisorLock` | the generations of the supervisor lock, its contenders, and the start command that reads them |
| `Daemon` | one worker: boot phases, queued and flushed notifications, fan-out retries, shutdown and cleanup |
| `RoomMembership` | one room: seats, invites and their recovery, epoch and briefings, reconciled with the SDK's contacts and secrets |
| `RoomLifecycle` | one room from creation to deletion: its directory, its identity and lease, the owner ledger, closing, accepted requests and what boot resumes |
| `ResourceViews` | the daemon's end of the live resource stream: registrations, commits, refreshes, coverage |
| `ResourceSession` | the web console's end of it, composed with `ResourceViews`: sessions, recovery by polling, what the page shows |
| `Processes` | the launches of one state directory: supervisor and worker, their channel, `daemon.lock`, `daemon.pid`, terminal owner events and leases |
| `Threads` | wires, replies, scoped threads and participant history over the archive of one room |
| `MCRoomRelay`, `MCSupervisorLock`, `MCDaemon`, `MCRoomMembership`, `MCRoomLifecycle`, `MCThreads` | the constants of the instances |
| `RoomRelayProofs` | types, the exact archive, what a room reads while paused, what leaves it, and that it implements `RoomDelivery` |
| `SupervisorLockProofs` | mutual exclusion and its companions, for any number of contenders |
| `RoomMembershipProofs` | types, what each step makes of the room and of the operation, and that removed peers stay out; then the books of a room: no save is refused, nobody is stranded, every change is counted and briefed; for any peers, invites and clock |
| `DaemonProofs` | types, an orderly cleanup, honest fan-out health, an owner for every unread row, for any rooms |
| `RoomLifecycleProofs` | types, exact ownership, no way back from closing and an accounted close, for any contacts, owners and faults |
| `ResourceProofs` | types, coverage and whole projections of the resource stream, and what a certified page keeps, for any bounds |
| `ProcessesProofs` | types, one server at a time and no owner forgotten, for any launches, kills and failures |
| `ThreadsProofs` | types, private threads, kept parents and a stable history, for any participants, keys and setbacks |

### RoomRelay and the code

The state is split as the program splits it. `inbox` is the SDK's history;
`room` is `room.json` (state, pending lifecycle request, seats in order);
`archive` and `work` are the records table and the recipients still without an intent
(`relayRecipientsNeedingIntent`). `pump` is the local state of the one
running `drainAndRelay` and its callees, with a `pc` at each await where another
callback can run; `poster` is the post that holds the mutex; `hosted` says the
registry has the packet; `wake` stands for the dirty flags and the watcher.
`dropped`, `promoted`, `told`, `bounces` and `wire` record history.

One action is what the code does between two awaits that matter: an append with
its recipient and work rows is one SQLite transaction and so one action; the loop
over a batch of recipients is one action per intent, because each is a
transaction of its own. The room mutex is not a variable: the pump holds it when `pc`
is one of `LockedSteps`, a post while it appends, and the other operations are
single actions enabled while it is `Free`. `PersistArchived`, `PersistIgnored`,
`PersistRejection` and `PersistContent` are the four outcomes of one item.

A batch is a *set* of the right size: the code's order of recipients does
not matter to any property, so the model covers every order. `AckPull` reads
whichever row is the oldest unread, as `getMessages({limit: 1})` does, and calls
back into the persist steps when it is not the expected one.

Abstractions: an identity is a model value; text, names, dates, aliases and
bytes are left out; a reply is `plain`, `linked` or `dead` by what
`resolveIntakeScope` would decide; a thrown send and a failed append are one
bounded number of errors at any step; a file's payload and its notice are two sends.
Reconciliation is `Admit`, `Remove` and `Activate`, which `RoomMembership` takes apart.

### RoomDelivery

A source is accepted with an audience or refused, once. Every member of the audience
is owed the content until concluded, and a copy goes only to somebody owed. The mapping
in `RoomRelay` (`Delivery == INSTANCE ...`) reads these off the archive:
*refused* is a rejection record, *owed* is a recipient of archived content without a
result, *concluded* is a result. A crash, a replay, a batch and a retry all map to
stuttering.

### SupervisorLock and the code

`files` is the directory: each generation's record with its owner, its
tombstone mark and whether the publisher's temporary name still links it. `pc`, `top`,
`rec`, `gen` and `doomed` are a contender's locals in `acquireSupervisorLock` and in the
`release` it returns; `waiter` and `seen` are those of the start command, which asks
`currentSupervisorGeneration` and then `supervisorGenerationFinished`. Each action is one
call on the file system (`Probe` is `lstat` with `dropPublishedAliases`, `Read` is
`readHolder`), so a contender acts on listings and records that others have
made stale, and `Die` may come between any two. The acquisition is synchronous in one
process; the interleaving is that of processes.

A contender's identity is its incarnation (PID, boot and start time). `Dead` is
what `inspectProcess` can prove; `Uncertain` lets a dead holder look alive, as where
there is no procfs evidence and the PID was reused. `Residues` is what the last run of
the machine left: nothing, a tombstone, a dead holder, or one that died before
unlinking its temporary name. A listing is one step, as one `readdir` of a small directory
is on Linux; the confirming listing of line 73 rests on that. `readHolder`'s check and read
are one step. `MaxGen` is the largest number `GENERATION_NAME` matches, and the file
mode, ownership and size checks are left out.

### Daemon and the code

`pc` is the place of `bootUnlocked` or `cleanupUnlocked`: one step is what runs between two
awaits that another callback can use. `todo`, `busy` and `healthy` are the loop of
`recoverPhase`: the rooms left, the room at work and the rooms boot goes on with. Which
rooms a phase takes is decided by the state boot listed; the model reads the current
state, which differs only after a lifecycle request, and that takes the room out of `healthy`.
`Ready` and `Stopping` are read off `pc`, since each is assigned with a change of place.

`announce` is what a room's follower still has to announce, `queued` is
`queuedNotifications`, and `notes` is `notificationWork` with who called the handler: the
watcher retries a failure, the flush only logs it. `retry` joins
`fanoutRetries` and `fanoutWork`: *deferred* during boot, an armed *timer*, an
attempt that is *loading* the room, *draining* it, or *unhosting* it in quarantine. `sick`
are the rooms whose `fanout:` health source is false. `closes` are the operators' requests that
`transports.stop` must drain.

A room's own work is a pass: it serves the room's backlog or it fails. `backlog`, `failed`
and `dropped` are history, kept to say who owes a room what. What an earlier worker left
(room states, pending requests, unread rows everywhere) is the set of
initial states, so a crash and a restart are covered by starting again.

Three things a reader may stumble on. The checkpoint of `recoverPhase` is inside its `try`, so a
cancelled boot quarantines the rooms it reaches one by one and stops only
at the next checkpoint outside. A request whose resumption fails leaves its room hosted and out of
the later phases. `drainPending` waits for a pump that already runs, so an attempt that returns
has served what was there when it began.

Left to other modules: the files `daemon.lock` and `daemon.pid` and the boot they refuse (`Processes`), and the
rebind of a quarantined room, deletion and a request that a pump runs for a command (`RoomLifecycle`).
`unhostAll` and the shutdown of the host are one step.

### RoomMembership and the code

`room` is the part of `room.json` that membership is about. `via`, `secrets` and `redeemed` are
the SDK's own state: which invite each contact came by, which secrets can still be redeemed,
and the inviters of external invites the room has redeemed. `known` and `listed` are what
the packet (`src/packets.ts`) last read of them. `briefs` are the
briefing messages in the archive. `op` is the operation that holds the room mutex: its `pc` is
the SDK call or the append it has come to, `next` the room it will save, `todo` and `brief` the
loops it is in. `outlived` is history: who was removed while which invite existed.

One action is what an operation does up to its next SDK call or append; the storage
calls in between answer synchronously. So `Reconcile` reads the contacts, saves the departures and
computes the rest; `RevokeSecret` is the loop over unrecorded secrets; `Brief` is one call of
`ensureBriefingKind`; `Save` is the last line of `reconcileUnlocked`. `Recovering` operations hold their receipts
until they return, so nobody can redeem a replacement before (`HandedOut`). `RefreshCaches` belongs to the call
before it: `mintInvite`, `addContact` and `revokeInvite` refresh before they return.
The follower reads contacts and invites in two steps without the mutex, which is how the two
caches come to be of different ages.

`follower` and `news` are the watcher of this identity: a commit in the SDK is coalesced into
`news`, a pass takes it and a failed pass puts it back. `Throws` is any call that
throws, its effect or its answer lost; `Crash` keeps only `room`, `briefs` and the
SDK, and the start-up's restore and reconciliation are the next pass.

Abstractions: a seat is a peer and a number in order of creation; times are a clock that an
operation may or may not find advanced, which is what comparing wall-clock strings of
milliseconds needs; a replacement's `recovery_confirmed` is its having left `receipt_pending`;
an answer of the SDK is the state when the call was made. `redeemed` and `Establish` are the
two halves of an external invite. Left out: aliases, grants, membership notices, the
deprecated path without invite provenance, and everything once the room is closing. A packet whose
restore fails at boot is `Daemon`'s quarantine.

### RoomLifecycle and the code

Three stores share no transaction, and the module keeps them apart. `disk`, `room` and `journal` are
the room's directory, `room.json` and the closing records of the archive. `sdk`
is what the SDK has of the room's *name*: an identity or none, whether it is one that this room created
(`mine`), its contacts and who holds its lease; `retired` are the owners it refuses for
good. `record` is the ledger (`src/room-owners.ts`). `registered` is the supervisor's memory of the
owners its worker attached, which it retires when the worker ends (`src/owner-cleanup.ts`); a crash
that takes the supervisor too retires none. `packet` is the registry's entry and what it has cached.

`job` is the operation that holds the room mutex; `job.at` is the SDK call or the
write it has come to, and one action is what happens up to the next one. A read that depends on nothing but
the files is taken with the write before it. `Abandon` is an operation that throws: the mutex is released, a
lifecycle request goes on to mark itself failed, and a room that was at work in `recoverPhase` is unhosted.
`resuming` is `resumeLifecycleRequest`, which reads the request outside the mutex, runs the operation and marks
the failure in separate steps.

Each SDK call has its success and its failures: a refusal that follows from the state, an
error without effect, and an effect whose answer is lost. The file operations of one store call are
synchronous, so they are one action, and `Stages` is what a crash in the middle of one leaves.
`Crash` comes between any two steps and keeps the disk, the ledger and the SDK.

Owners are unique in the code. Here they come from a small set, and one that nothing names any more is
taken again as a fresh one. Names are one name: what the program does with the name of a deleted
room is a new room's matter. A rebind's three attempts are one step; the fan-out of a room that is open, seats and
invites are the other modules'; `rebindIdentity` of a hosted room is the refresh that binds again.
Left out: failing file operations other than a crash, several rooms, the locks on room names.

### ResourceViews, ResourceSession and the code

One connection carries two views, the list of rooms and one room. `view`, `fence`, `tail` and `task` are the
connection's fields in `CoworkResourceViews`: a view's registration, the highest epoch it has seen, the chain of promises
and the refresh that runs. `wire` is what the bounded writer holds, and `open` goes with it. A step of the refresh is what
runs between two awaits: the projection, the second reading of the authorization, each flush. `Heard` is the
listener of a commit, which can fall between any two of them.

What a view shows is the *set of commits it reflects*, positions of `log`. That is all a snapshot, an increment or a
coverage frame is compared by: a room is read at one position, while the list loads one room after the other, so that its
set may have a hole. Who may receive a frame, chunking, sequence numbers and byte limits do not enter; a large room
is a first part and one page of history.

`binding`, `asked` and `poll` are the maps of `createResourceSession` in `web/src/state/poller.ts`, `page` what
`web/src/App.tsx` shows of the list and the room. Registrations are HTTP requests of their own (`posts`), so they may overtake one
another; a removal waits for its registration, as the code's promise chain makes it. `PollHead`, `PollTail` and `PollAnswers` are
the requests of a recovery reader, with everything else in between. What one handler does is a chain of updates of a
record, which is how `Unwatch` inside `DeliverRooms` inside `Apply` is one step, as in the source.

Left out: authorization that is withdrawn, a failure of the whole source, 409 and 503 answers and capacity errors,
an increment of several pages, and the bound read after a capture.

### Processes and the code

A launch is one run of `cowork serve`. `sup` and `wrk` are the supervisor (`src/daemon.ts`) and its worker
(`src/daemon-process.ts` with the boot and cleanup of `src/daemon-runtime.ts`): the place each has come to and the few
fields other parties depend on. `down` and `up` are the two directions of the IPC channel; a message is a kind or an
owner ID. `lock`, `pid`, `records` and `ledger` are files, `lease` is the shared daemon's table. Files and leases
survive every process, and the channel outlives its sender until it is read.

Launches overlap where the program lets them: the supervisor lock (module `SupervisorLock`) admits one supervisor at a time, but
a worker whose supervisor was lost keeps running until it reads the end of its channel, and the next launch does
not wait for it. `acquireDaemonLock` is synchronous but for other processes: its judgement of the recorded
owner (`TakeLock`) and the unlink (`UnlinkStale`) are two steps, and `stolen` is the history of an unlink that hit a live lock.

`ReplayOne` is one step of `replaySerial` in whichever process runs it. `Drain` is the part of `cleanupUnlocked` up
to the listing of pending events: transports, drain, PID file, publication. `Ask` is `registerOwner`, whose three outcomes
(acknowledged, refused, timed out) are `WorkerReceives` and `WorkerTimesOut`. The watchdog may fire at any time once it is
armed; a slow worker is one it has killed.

Abstractions: one room, with one owner at a time; a worker mints at most one fresh owner, which is named after its launch; PIDs are
launches, so they are not reused for `daemon.lock` and `daemon.pid`; the attempts inside `acquireDaemonLock` are as many as
needed; the acknowledgement of `init` is implied by the order of the channel. Stages, logs and the launch without a selected daemon are left out.

### Threads and the code

`items` are the message and file rows of the archive, `results` the `relay_result` rows; intents are the recipients
of an item without a result, which `RoomRelay` shows to be exact. A *wire* is the transport's ID of a message in one
participant's namespace: the model numbers each participant's wires from 1, so that a wire taken in the wrong
namespace usually names something else, as a bug would have it. `wires` is history: what each wire really stands
for, to whom it was given and what it linked to. The program knows only the wires saved in rows.

`Resolve`, `MapParent` and `SelectReply` are `src/reply-threading.ts`; `Association` is `classifyThreadAssociation`, which
trusts saved rows only and refuses everything under a broken ancestor; `Intake` is `resolveIntakeScope` with the append of its
caller; `Relay` is the pass over one item's recipients (`relayPendingUnlocked`), with every way a send can end: lost before it,
refused, thrown after it was accepted, or saved with some of its wires; `Reads` is
`projectParticipantHistory`. A participant is known by seat: identity and the number of its seat.

A message goes out and is taken in in one step, since its wire is fixed when it is sent; a pass over an item is one
step, since no recipient's result bears on another's. Left out: posts of the operator, pages and byte limits, the
validation of corrupt archives, and the notice of a refusal (`RoomRelay` has it).

## Runs

| Run | Instance | What it shows |
|---|---|---|
| `relay_crash` | 2 items of 2 members, 3 seats, snapshot 2, intent batch 1, 1 crash, 1 error | the archive invariants at every interleaving, and that the room implements `RoomDelivery` |
| `relay_churn` | message, command, linked file; a member leaves and rejoins; the room activates and closes; 1 crash, 1 error | refusals, removed members, and pauses |
| `relay_live` | 1 item, 1 post, 2 seats, 1 crash, 1 error, with fairness | unread rows are drained, recipients conclude |
| `supervisor_lock` | 3 contenders, 3 attempts, 3 generations, after every residue, with fairness | one holder; what was learned of a generation stays true (finished for good, numbers never restart); no residue shuts everybody out |
| `daemon` | 2 rooms in every residue, 2 failures, 1 new row, with fairness | nobody with unread rows is forgotten, health is honest, cleanup leaves nothing running and tells the owners last; shutdown ends, a deferred fan-out is resolved, an announcement is served |
| `membership` | 2 peers, 2 invites, 2 seats each, 2 clock values; 3 requests, 1 change in the SDK and 1 error, or 2, 2 and 1; with fairness | saves are legal, the epoch counts, removed peers stay out, nobody is stranded or seated without a briefing, commits are settled |
| `room_lifecycle` | 2 contacts, 2 owner IDs, 1 failing call, 1 crash, 1 change by others, with fairness | the lease is recorded and nobody else's identity removed, closing is accounted for and forward-only, no dead end |
| `room_startup` | 1 crash; expected to be violated | a crash while a room is created keeps the next worker from starting |
| `resource` | 2 events (a commit of any of five kinds, a lost stream, a hidden page, a room left), 2 frames of output, 2 projections, with fairness | coverage promises no more than was written, what arrives is one position's snapshot, what is certified stays shown, a stream that stays up settles |
| `resource_cursor` | records and pending intake; expected to be violated | an increment is sent again from an old cursor, and the session gives up the stream |
| `processes` | 2 launches after an earlier one, 2 kills, 1 failure, with fairness | one worker hosts the room, no owner is forgotten, every launch that should stop does |
| `threads` | 3 participants, 3 items, 1 setback (a seat removed or a relay that fails) | threads stay private, replies keep their parents, histories only grow at their end |

Bounds: two items are enough for a promotion (an older row appears behind the
listed one) and for a batch that is cut; an intent batch of one against two
recipients makes the work table carry over; one crash at every step is what tells a
write from the next; a second crash meets the same durable states. `MaxSeats` 3 lets the
same identity hold a removed and an active seat. `CHECK_DEADLOCK FALSE`
is set because a room may be closed, or idle with its budgets spent; so may a lock
whose contenders are all done or dead.

For the lock, three generations let one be superseded twice and a swept number be recreated by a stale contender while
another is about to read. The run starts from each residue. A contender that dies may go on looking
alive (`Uncertain`), which keeps the lock by design ("Anything uncertain keeps the lock"); hence liveness asks only for
somebody who gets in *or* dies on the way.

For the daemon, two rooms let one be at work while the other is quarantined, deferred, announced or
closed. Two failures let a fan-out and its retry fail, or an announcement and its repetition; the row that
arrives comes on top of those the residue left, so one can arrive while the notification for another runs.

For the lifecycle, two contacts let a close be thrown back with one removed and one not. One change is a set of
contacts that come or go at once, another program that takes the lease, or one that takes the name. One fault
and one crash combine, at every step each. Two owner IDs suffice because at most two are named at a time: the
retired one that is presented and the one minted for it. The safety properties were also checked with
two crashes and two changes, in 20 million states, which is too long for a run that is repeated.

For membership, two invites let one be the replacement of the other and two seats let a
peer come back; two clock values are the two outcomes of a comparison of times. `Budgets` bounds what
operators ask, what changes in the SDK and what fails; the run takes two splits of
the same size, one long in requests (create, revoke or recover, confirm) and one long in changes
(join, leave, come back), since their sum is out of reach. A room has one role there: roles
only select briefings and seats for a requirement.

For the resource stream, two events are a commit that meets a refresh of another, or a commit and a lost stream; every
interleaving of the two ends comes on top. Two frames of output are what one room needs, so the third fills it. Two
projections instead of three reach the last attempt with one commit.

For the processes, the earlier launch stands for everything an earlier run can leave; of the two that follow, one can be orphaned
while the other starts. Two kills lose both processes of a launch, or one of each. One failure can fall on any file, send or
call to the shared daemon. The launches are not forced: a lone one is covered.

For threads, three items are a root, a reply and a reply to it, or two roots and an ordinary reply; three participants
let one be outside a thread of two. One setback is a removal, after which the identity may take a later seat, or one
item that reaches some recipients in one of seven bad ways. The run is reduced by the symmetry of the participants, which
is sound since it checks no liveness.

Fairness is what the event loop and the watcher justify. A pump
that has been started keeps running (`WF` on `Intake` and `Relay`: Node runs every
settled promise, and the SDK's calls answer or throw); a requested pump starts; an
unhosted pump fails; a post finishes. Nothing forces an error, a crash, a removal or
a close. A pass that fails was run for the watcher, whose follower retries the same
announcement after its backoff (`src/ours-runtime.ts`), so `Stop` keeps
the wake-up; a post's own resume is not retried, and `RecipientsConclude`
promises a post's relay only while nothing has failed.

For the resource stream, `WF` is on the chain of refreshes, on reading the stream or opening the next one, on each
request's arrival and on each view's retry timer. `Settles` is promised only of a stream that stays up with intake settled.

For the processes, `WF` is on everything a supervisor's event loop does and on everything a worker's does: messages are read,
timers fire, and a call to the shared daemon ends one way or the other. `BootFails`, `WorkerTimesOut`, signals, kills and
launches are not forced.

A contender's fairness is `WF` on `Acquire`: the function is synchronous, so a process
that does not die runs it to its end. Nothing forces a release, a death or a new look of
the start command.

In membership the SDK's reads and calls answer: `WF` on the follower and on the operation
that holds the mutex. `ChangesAreSettled` starts from a commit that is still to
be announced, since that is all the code acts on.

In the lifecycle the worker's next step, its requests and its boot are taken (`WF`, and `SF` for the
requests because the mutex is a queue), and other programs let a lease or a name go in the end. `ClosingConcludes` and
`RoomComesBack` also need somebody who tries again: `FairSpec` adds `SF` on closing again a room that is closing, on rebind and on restart,
for the code itself retries a close only at boot. They say that there is no dead end, not that a close that was
thrown back is repeated without being asked.

In the daemon every promise that was started settles and every armed timer fires: `WF` on
boot's steps, on cleanup's steps, and for each room on its retry, its announcement, its
requests and each of its notifications. Which way a step settles is not forced,
and nobody must shut down, close, send or fail.

## Proofs

### RoomRelay

Assumption: `RelayConstants`, which only types the constants (numbers of
items, posts, identities and the bounds are arbitrary).

- `TypeCorrect`: `Spec => []TypeOK`. The work is in the least elements: the
  next item of a snapshot, the oldest unread row, the first pending intent
  exist because the sets are non-empty sets of naturals (well-founded induction is
  used once, in `LeastIn`).
- `ArchiveStaysExact` (`ArchiveIsExact`), from four invariants proved one by one:
  `ItemsAreSettledOnce`, `WorkTableIsExact`, `IntentsAreUnique` and `ResultsAreUnique`.

None is inductive alone. `Control` says what the pump's local state
promises about the archive: while fanning out, the remaining batch is owed
and has work rows; a picked intent is unresolved; a post's remaining recipients
are those without an intent. `ArchiveInv` adds the archive's own facts:
an intent belongs to an archived source and names one of its recipients, a result
matches the intent it names, an intent has at most one result. `ArchiveStep` classifies
every step of `Next` by its effect on the archive (nothing, content,
intent, result, rejection), so each invariant is proved once per kind of append instead
of once per action; `EveryStepIsAnArchiveStep` is that classification.

- `ReadRowsAreAccounted` (`ReadIsSettledOrPromoted`), `PausedRoomsConsumeNothing` (`PausedConsumesNothing`),
  `WhatLeavesIsDue` (`OnlyWhatIsDueLeaves`) and `RoomImplementsDelivery` (`ImplementsDelivery`).

These rest on `Duty`, which is what the pump owes while it is between two awaits. `Attending`: from its last look at
the room to the SDK call that reads a row, the room is not paused, because the pump holds the mutex or nothing awaits in
between. `Settling`: what is about to be acknowledged is settled, or is the item whose content is being persisted. `Sending`: the
intent being sent belongs to an archived source, and its recipient is still seated, since whoever removes a seat needs
the mutex. `Refusing` and `Bouncing`: a refusal or a bounce is marked before it is told, and told at most once.
`RoomKept` says that the room stays as it is while the pump holds the mutex, and that no seat or bounce mark is ever forgotten.
The refinement is proved step by step: the initial archive owes nobody; a content append is the abstract decision of its
source and of who is owed; a rejection decides it for nobody; a result concludes one recipient; a send is a copy to one who
is owed; and every other step stutters.

### SupervisorLock

Assumption: `LockConstants`; contenders, attempts and generations are arbitrary. The
invariant is `Inv`: `TypeOK`, `Chain` and `Waiting`. `Chain` says what each
contender knows of the newest generation `Top`: what it listed is not newer; the record it
read at `Top` still has that owner and is at least as released; when it is about to
publish over `Top`, `Top`'s holder is finished; a generation it published is not newer, and
if it is `Top` the record is its own and unreleased; a holder's generation *is* `Top`.
`Waiting` says the same of the start command. `MutualExclusion` follows because the newest
record has one owner; `HistoryStaysReliable` (`HistoryIsReliable`) joins `FinishedForGood`, since `Finished` is stable,
and `NumbersOnlyGrow`, since each removal is of an older generation. Most steps are *steady* (they change nothing others
know of `Top`), and `KeepsKnowing` handles all the other contenders of such a step at once;
only `Publish` on top and `Rename` are not. `TopIsNewest` (the maximum of a non-empty
set of generations exists) uses well-founded induction.

### Daemon

Assumption: `DaemonConstants`; the rooms, the residues and the budgets are arbitrary.

- `TypeCorrect`: types, and that a room is at work only in a recovery phase.
- `CleanupStaysOrderly` (`CleanupIsOrderly`): nothing outlives the cleanup and the attestation follows
  the drain, from one invariant. `Quiet` needs that cleanup cleared the timers when it
  began and that nothing re-arms one while stopping, for `Settle` waits only for attempts that run.
  `Drained` needs that a stop which left a request unanswered collected an error, and that no
  request starts once the worker is not ready.
- `HealthIsHonest` (`FanoutHealthIsHonest`). A retry may clear the health source of a room whose
  drain served nothing because the room was not hosted, so the property is not inductive:
  `HealthInv` adds that an open room with a retry is hosted, which rests on what the recovery
  phases leave (`Recovering`: a healthy open room is hosted from the end of `restore` on) and on
  when a retry may be deferred or armed (`Deferred`).
- `UnreadIsOwned` (`UnreadHasAnOwner`): whoever is counted on for an unread row exists. `OwnerInv` adds to it
  `Announced` (until the worker is ready, every hosted room is still to be announced or queued, and the flush makes a
  notification of each) and `Owing` (a room whose start-up fan-out failed keeps its retry for as long as it is served).
  It rests on `HealthInv`.

### RoomMembership

Assumption: `MembershipConstants`, which types the constants and says that a room has finitely many
contacts.

- `TypeCorrect`: `Types` adds to `TypeOK` the operation's own fields and that every invite
  an operation handles is of a secret that was generated, which is why a new one is new.
- `RemovedStaysOutHolds` (`RemovedStaysOut`), from `IInv`. `Sound` says of a room that whoever is in
  `outlived` is still blocked by a seat that it keeps, that no invite is younger than the clock, that pending
  seats came by no invite of the room, and that a peer's seats are used in order, so that a new seat
  never takes the place of one that blocks (`NextSlotIsNext`, by counting). `OpSound` says the same of what
  the pass under way will save, though that was computed before other contacts came and went, and that whoever is
  active in it and not in the room may be (`Fresh`). `RemovedSound` and `AdmittedSound` are the two halves of a pass:
  a removal leaves its evidence, an admission asks for it.
- `NoSaveIsRefusedHolds` (`NoSaveIsRefused`) and `NobodyIsStranded` (`NobodyStranded`), from `RInv`: `IInv` and the
  `Ledger`. Its `Books` weigh the room against the contacts and secrets of the SDK: the epoch is the number of seats that
  are active and twice that of those removed (`Counted`), a contact still to be admitted has a seat to take
  (`Housed`), nobody has two open seats (`OneSeat`), the lineage of the invites is what `RoomSchema` demands (`LegalInvites`), and an invite that is to be replaced
  has no secret and no contact it leaves without care (`Lost`, `Cared`). `OpLedger` says the same of what a pass
  will save, computed before the awaits that other callbacks use: what the operation is about to replace has no replacement
  yet, and whom it is about to seat has no seat.
- `ChangesAreRecordedHolds` (`ChangesAreRecorded`), an action property: what is counted follows from `Counted` before and after;
  that whoever is newly seated is briefed needs `OpBriefs` (`BInv`): whomever a pass will seat in an active room has the
  current texts in the archive or in a briefing the pass has still to append.

### RoomLifecycle

Assumption: `LifecycleConstants`; contacts, owner IDs and the numbers of faults, crashes and changes are arbitrary.

- `TypeCorrect`, `NeverReopened` (`ClosingIsForward`) and `OwnershipStaysExact` (`OwnershipIsExact`): whoever holds the
  lease for the room is the recorded owner, and no identity is removed but the one the room was given.

The invariant is `Sure`: `Typed`, `Agreed` and `Proper`. `Agreed` follows the owner through an operation: what the packet,
the operation and the boot have in hand is the ledger's owner wherever the lease may be taken with it. `Proper` follows the
identity: the packet's is the room's or none, one that is being created is this room's own, and a room that is closing
has been given one. `Typed` adds that the intent an operation points to is in the journal.

- `CloseAlwaysAccounted` (`CloseIsAccounted`) needs the history of the job besides its state, `Accounted`. `Written` reads the
  journal: results point to earlier intents, one each (`OneResult`); the intent in hand has none yet (`Awaited`); the notices and
  removals that results claim were made, with one to spare between the SDK's answer and the append of the result (`Counted`);
  and every removal has its intent while the archive exists (`Witnessed`). `Routed` and `Concluded` read the room: a
  job that purges, and a room that is closed, has no packet, and a closed room has no unresolved intent. The counts
  are cardinalities of sets of journal entries, so this is where the theorems on finite sets are used.

### Resource stream

Assumptions: `BoundsAreNumbers` and `EventsAreNumbers`; the numbers of commits, epochs, attempts and events are arbitrary.

- `TypeCorrect`: `Types` is `TypeOK` with the shapes of frames, refreshes and polls, and with the fact that whatever is held,
  read, written or shown was published.
- `CoveredIsSentAlways` (`CoveredIsSent`). `InOrder` says how a registration and its refresh hang together: a
  view's refresh is queued once, only while its view is marked running, and an entry of an older epoch finds its view gone.
  `Sent` follows the payload: what a view was sent is the projection at its position (`States`), and all there is unless
  the view is marked or at work (`Complete`); what a refresh has read still holds unless it was moved (`Reads`); and what it
  writes was so at its source and drops no record (`Writes`).
- `StreamIsASnapshotAlways` (`StreamIsASnapshot`), from `Coherent`, which crosses the wire: a frame that is whole carries a
  projection at some position, and a page completes the part or the update written last before it, which the session
  has taken up already or finds first on the wire (`Follows`). `Fenced` says that nothing on the wire is newer than what the
  session asked for.
- `CertifiedStaysAlways` (`CertifiedStays`, an action property) needs in addition `Showing`, which follows a record from the
  daemon's projection to the page. `Wired` replays the frames on the wire that the room's binding will take up (`Mine`): `Has`
  is what the binding holds after the first `n` of them, `Owes` a page still to come, and `FrameFits` says that no frame takes
  back what is held and that one states a position only when everything up to it is held. `Served` ties this to
  the daemon: what it counts as sent is what the binding will hold once the wire is read, except for what the running refresh
  has still to write (`Fills`). `Base` and `Held` are the page's side: while the stream vouches (`Sure`), the page
  shows only what the binding holds and all of it when that is whole, all that its stated source covers, and no recovery
  reader runs.
  `HeadRead` carries `Wired` over the reading of one frame, `Passes` over a change of the binding, and `Gains` says that
  one step takes nothing from a page; the theorem combines them action by action.

### Processes

Assumption: `ProcessConstants`; launches, kills and failures are arbitrary.

- `TypeCorrect`; `ServesAloneAlways` (`ServesAlone`); `OwnersStayAccounted` (`OwnersAreAccounted`).

`IInv` has five parts besides the types. `Pairing`: supervisors follow one another, and a worker starts after its own. `Asking` is
the protocol of an admission: while the worker waits there is one request on its way up or one answer on its way down, and
where the answer grants it the supervisor already has the owner; nothing of the kind is under way before or after.
`Leasing`: as long as no live lock was unlinked, whoever hosts holds `daemon.lock`, and the ledger names its owner; hence a
lease nobody released is the recorded one, which is not inductive without the other two. `Naming` is the claim about
`daemon.pid`, and `Ending` says that a delivery drops an event only when its owner is retired. `Local` shows that a step
of one launch leaves the processes and the channel of another alone, so each part is proved for the launch that steps;
`OnlyTheHolder` does the same for lock, ledger and leases.

### Threads

Assumption: `ThreadConstants`; participants, keys, items and setbacks are arbitrary.

- `TypeCorrect`; `ThreadsStayPrivateAlways` (`ThreadsStayPrivate`); `RepliesKeepTheirParentAlways` (`RepliesKeepTheirParent`);
  `HistoryStaysStable` (`HistoryIsStable`, an action property and an invariant).

The invariant is `Shapes`, `Sound` and `Bounded`. `Faithful`, the heart of `Sound`, says that the saved rows speak the truth
about the wires: the source of a row is the wire its author sent it under (`SourceOK`), and a wire saved with a result is that
recipient's copy of the item (`ResultOK`). So what the room resolves from rows alone is what the wire stands for (`Named`,
`Resolved`): a lost row makes a wire unknown, never misread, and a later row cannot make it ambiguous. `RowOK` says that
a row's scope and parent are what its author meant, `WireOK` that every wire was given to a seat its item was for, with the link of
that seat's copy of the parent. `Bounded` counts the seats that were removed, for the types only.

`Association` and `Belongs` are recursive functions of the archive, and there is no induction over data here. Both are shown to be the
scope that was saved with the item (`Classified`, `Belonging`) in two halves. The function that returns the saved scope
solves the defining equation, so the `CHOOSE` behind the definition has something to choose (`ClassIsScope`); and any
solution agrees with it, since the least item where it did not (`First`) would have its ancestor right. From
there `EveryChange` reduces the steps to what they add: an item at the end, wires at the end, results to intents
that had none (`Grows`), each preserved once and not per action.

### Model-checked only

Liveness under fairness (`NothingStalls`, `SomebodyGetsIn`, `WorkCompletes`, `ChangesAreSettled`, `NoDeadEnd`, `Settles`,
`StopConcludes`), which is out of this prover's reach. Every invariant and every safety action property of the passing runs
is stated by a theorem.

## Observations

- *Read before archived.* `acknowledgeMessage` and `drainRuntimeCommands` mark a
  promoted row as read and then archive it; README.md:20 and
  docs/10-limitations.md:10 state the opposite order;
  `ReadIsSettledOrPromoted` is the part of that claim that holds.
- *Batches.* `completeMessageIntents` journals one batch of 64 recipients before the
  acknowledgement, so the whole fan-out need not be journalled; the work table makes the
  rest recoverable, and `WorkIsMissingIntents` is the reason.
- *Startup.* docs/05-room-workflow.md:101 says that startup isolates rooms that cannot be restored. A worker
  killed inside `CoworkStore.create` leaves a directory with blobs or an archive and no `room.json`. `list` takes it
  for a deletion, `delete` refuses it (`storage.ts:508-511`), and since `list` runs outside `recoverPhase` no later worker
  starts. This is the run `room_startup`.
- *Closing without a packet.* A room that is not hosted is closed without a call to the SDK: `destroy` has nothing to
  remove and reports no residue. Its identity, its contacts and, if the release failed, its lease stay, although
  docs/05-room-workflow.md:99 says that close "removes the live standard SDK room identity".
- *Accepted requests after a crash.* `service.ts:1499` says that an accepted request is executed "on restart". When the worker dies
  between `removeIdentity` and the save of `closed`, the restore fails for want of the identity, the room is no
  longer `healthy`, and boot skips its request and its close at every start; an operator's close ends it.
- *A lost answer of `removeIdentity`* leaves a hosted packet without an identity: every further close fails in its
  refresh until the worker is restarted.
- *Wake-ups.* `runPump` deletes itself at `intake.ts:184`, one microtask after the inner return at `intake.ts:175-181` has
  looked at `dirty` for the last time. The comment at `intake.ts:116-121` says there is no such gap. Whether a callback can
  fall into it depends on how promises adopt one another, which no module models; the next notification would repair it.
- *Generations.* The comment at `supervisor-lock.ts:44` and docs/04-daemon-lifecycle.md:68 say a generation is "never unlinked or
  reused by a contender"; lines 71-79 do both: a stale contender recreates a swept number and
  withdraws it. `NumbersNeverRestart` is the part that holds and that exclusion needs.
- *Bounces.* `bounceRemovedSender` says a removed seat is bounced once, but looks only at the
  first removed seat of an identity: one that was readmitted and removed again is not bounced a
  second time.
- *Missed notifications.* docs/05-room-workflow.md:121 promises a periodic resync "covering missed
  notifications". No such timer exists: a notification that was queued during boot and fails when
  it is flushed is logged (`daemon-runtime.ts:602`), and the row waits for the next one or for a
  restart. `UnreadHasAnOwner` says that it is the only gap.
- *Cancelled boot.* The checkpoint in `recoverPhase` is caught by the `catch` beside it: a cancelled boot
  counts each remaining room as a failed one before it stops.
- *Health after quarantine.* A retry that fails outside transport quarantines its room and leaves
  the room's `fanout:` source false. Nothing clears it when the room is served again later.
- *Role briefings.* `deleteRoleBriefing` forgets the version, so the next text is version 1 again, and those who
  had the first version 1 are taken for served.
- *Edits that throw.* `setRoleBriefing` and `updateRoom` save first and send after: if an append throws, a
  retry with the same text finds nothing to do.
- *Notices that fail.* `service.ts:969` catches a failing notice as "non-authoritative", but the nested append is also
  recorded by `withRoomMutex` (`storage.ts:163-168`, 190), which rejects the removal.
- *Confirmation.* When the reconciliation inside `confirmRecoveredInvite` throws, a contact that already came by the
  replacement has no seat until the next commit or a retried confirmation; hence the `news` in `ChangesAreSettled`.
  A one-time replacement that is redeemed before it is confirmed can no longer be confirmed, for the SDK does not list it.
- *Pending seats.* Removing a pending seat just as its contact is established leaves a contact without a seat; removing
  a cancelled seat by its participant id disconnects the peer's later, active seat.
- *Briefings* are looked up by identity, not by seat: a peer that comes back is not briefed again on a version it had.
- *Increment sent twice.* A refresh writes an increment and then, if intake has become pending, returns before it
  records what it sent (`resource-views.ts:360`); the next one starts from the old cursor and the session ends
  the stream. This is the run `resource_cursor`.
- *Coverage after `ready`.* A commit that comes during the flush of `ready` finds the view neither idle nor covered
  (`resource-views.ts:229`, 371): if it is of no matter to the view, its coverage stays behind until the next commit, and the
  session's 45 seconds run out. `CoveredIsSent` still holds; `Settles` counts the new stream.
- *Late recovery read.* The row of a room in the list may go back to an older reading, since `replaceRoom` (`web/src/App.tsx`)
  writes what a recovery reader brings over a row that the list's own view certified. `CertifiedStays` is stated of the room.
- *Stale lock judged twice.* Two launches can both find the record in `daemon.lock` stale; the slower one then unlinks
  the lock the faster one has just taken (`daemon-runtime.ts:661`), though the comment at :609 means to rule that out:
  the lstat that compares the file and the unlink are separate calls. It takes an orphan and two launches at once. `ServesAlone` is stated up to that step.
- *Admission with events pending.* docs/04-daemon-lifecycle.md:47-50 keeps replacement owners out while an undelivered
  event is retained. The code decides this once, from the replay a launch runs at its start: an event that an orphaned
  worker writes after that replay ended empty blocks nobody, and waits for the next replay.
- *Unattributed secrets.* The secret of an invite whose answer was lost is revoked by the next pass of the follower; a
  `recoverInvites` in between does not see it, because its list of invites is cached.

## Plan

In this order; each entry says what is composed with what, and what is worth proving.

1. `RoomRelay` with `RoomDelivery`: done; its safety and the refinement are proved.
2. `SupervisorLock`: done and proved.
3. `Daemon`: done; its safety is proved. Left: `IntakePump`, the notification worker above the
   pump with its `dirty` flags and its processing context.
4. `RoomMembership`: done; its safety is proved.
5. `RoomLifecycle`: done; its safety is proved. Left: grants, notices and the failures the room mutex collects.
6. `ResourceViews` with `ResourceSession`: done; its safety (`CoveredIsSent`, `StreamIsASnapshot`, `CertifiedStays`) is
   proved. Left: several increment pages, withdrawn authorization, capacity errors.
7. `Processes`: done and proved. Left: several rooms per worker.
8. `Threads`: done and proved. Left: room-authored posts and pages of history.
9. `WatchFollow`: cursor, announcement and backoff of one follower of the SDK watcher.

The runs of a module share one instance where they can (safety and liveness together), and properties that say one thing
in parts are one property, so that the whole check stays short enough to be run on every change.

## Not modelled

Consumer commands (one bounded HTTP request each, whose state is the SDK's), the state maintenance command (one sequential sweep
under the daemon lock), tracing, the generated API description, identifiers, argument parsing, configuration files, sockets and
routes other than the resource stream, and the rendering of the console: I/O and presentation, or a sequence of steps that nothing
interleaves with. The watcher's cursor and backoff and the migrations of old archive schemas are left out for now.

# A TLA+ development of the Debrute Runtime

Debrute is a local creative workbench. Its Rust Runtime (`apps/runtime`) is one
process that owns every piece of shared state; the web Workbench, the Electron
Desktop, the command line and the Photoshop plugin are its clients. This
directory holds TLA+ models of the Runtime's concurrent core, the TLC
configurations that check them and TLAPS proofs about them. `PROJECT.json` ties
each definition to the lines it models, each run to its properties, each
property to a mutation of the code it detects, and lists the hazards the
properties are for.

Run from this directory: `tlc -config X.cfg M` checks a run and `tlapm M.tla`
checks the proofs of a module.

## 1. Inventory

Paths are relative to `apps/runtime/src` unless they say otherwise.

| Component | Code | State it keeps | Operations | Hard because |
|---|---|---|---|---|
| Model Operation registry | `model_operation.rs` | records by id, terminal order, worker threads, a cancellation flag and a `completion` mutex per operation | submit, execute (Single, Batch), cancel, wait, list, shutdown | a commit, a cancellation and a shutdown meet in three different locks; the flag is read outside all of them |
| Observer dispatch | `model_operation.rs` 1371-1426 | the next revision, a map of pending snapshots, `draining` | prepare, publish | publishers arrive in any order and the observer is called unlocked |
| Runtime Control | `control/server.rs` | lifecycle, work-permit count, `product_transition` RwLock, Control connections | startup, activation, update, removal, Quit, connections | three transitions compete; a permit and a lock can be taken in either order |
| Project session registry | `project/registry.rs`, `project/watcher.rs` | live session, uses and transition of each root; watcher threads | open, share, acquire, release, close | opening and cleaning up happen outside the lock; watchers are joined |
| Workbench connections | `workbench/connections.rs`, `workbench/services.rs` | connection records, owner of each root, bindings and generations, command gates, subscriptions | open, bind, replace, preempt, close, lease, stream, drain | ownership moves between connections while requests, streams and closes are in flight |
| Product store and commit | `product/commit.rs`, `product/store.rs` | `current` pointer, one pending commit with a durable phase | begin, install, select, continue, complete | crashes between durable steps |
| Product update service | `product/service.rs` | stage of one update | check, download, apply | retries around I/O |
| Product removal finalizer | `product/removal.rs` | a transaction directory, a detached process | prepare, cancel, launch, finalize | it deletes what the Runtime still uses, step by step |
| Terminal service | `terminal/service.rs` | an actor, reader, writer and wait thread per terminal, a bounded command queue | create, input, exit, drain, close, shutdown | exit, close, shutdown and a full queue meet in one actor |
| Terminal Hub | `workbench/terminal_hub.rs` | connections, observed terminals, input sequences | observe, input, resize, checkpoint | a checkpoint among the frames it replaces |
| Feedback artifacts | `project/feedback/artifacts.rs`, `project/registry.rs` | scheduler queue, a revision and a state per artifact, render threads | attach, update, resume, render, cancel | stale results, a full queue |
| Photoshop integration | `photoshop/` | sessions, commands, setting, the gateway's thread and its worker | connect, place, export, disconnect, enable | a disconnect, the setting and an answer settle one command |
| Activity | `activity.rs`, `workbench/services.rs`, `workbench/routes.rs` | records with a revision, a broadcast channel | upsert, dismiss, clear, snapshot, forward | records change under a lock, events are sent after it |
| Project domain service | `project/service.rs`, `files.rs`, `canvas.rs`, `previews/` | files and Canvas documents | typed commands at a revision | file-system I/O under the session's lock |
| Global settings, Working Copies | `global/`, `workbench/working_copy.rs` | small stores with a revision | mutate, snapshot | little: one lock each |
| Model requests | `model_request/`, `models/` | none shared | one provider request | network I/O |
| HTTP surface, CLI, transports | `workbench/routes.rs`, `cli/`, `control/writer.rs` | queues | parse, route, frame | slow clients |
| Web, Desktop, plugin, packages | `apps/web`, `apps/desktop`, `apps/photoshop-uxp-plugin`, `packages` | the projection each client shows | | frames of a past binding |

How they interact:

- A client opens a **Workbench connection**, and asks it to bind a Project. The
  attempt asks the **Project session registry** for a session and a use of it,
  subscribes to the session, and commits the binding. Requests then take a
  lease on the binding. A terminal, a Model Operation, a Photoshop command each
  hold a use of their own.
- Mutating requests hold a work permit of **Runtime Control**, which an update
  and a removal wait for. A removal, an update and Quit end the Runtime:
  `main` then closes admission, drains the connections and shuts the **Model
  Operations** down.
- A session publishes its revisions to its subscriptions. A Model Operation
  publishes snapshots through the **observer dispatch**, whose observer turns
  them into **Activity** records that the HTTP callers change too. Both end in
  the bounded queue of a Workbench connection.
- Attaching a session to the **Feedback** scheduler, and changing it, calls
  back into the registry through the Photoshop integration. The scheduler
  answers with diagnostics that carry the revision they were computed for.
- An update hands over to a **Product Installer** and to the next Runtime
  through files; a removal hands over to a **finalizer** process that waits for
  the Runtime to be gone. Both can be cut short by a crash between two writes.

What makes each component correct:

- *Model Operations*: a cancelled operation publishes nothing after the caller
  was told; terminal states are final; a Batch accounts for every item once;
  every operation settles; shutdown leaves no thread.
- *Observer dispatch*: the observer sees the commits in order, each once, and
  no snapshot waits for an unrelated later one.
- *Runtime Control*: the Product switch and the removal run with no admitted
  work; one transition wins; what has ended does not come back; callers are
  answered.
- *Project sessions*: one live session for each root; a use keeps it open; what
  a failed cleanup left behind is not reopened; every call returns.
- *Workbench connections*: owners and bindings agree; a request never runs
  under another Project; a client misses no event and learns what it lost.
- *Product commit*: at every crash point the machine has one usable Product,
  the next start goes forward, and a surface is reopened once.
- *Product removal*: it begins with no admitted work, and the configuration a
  user asked to keep is never lost, whatever fails.
- *Terminals*: what the child wrote is shown before the terminal is said to
  have exited; a terminal whose process tree lives holds its Project; none
  lingers; every call returns.
- *Feedback artifacts*: no render of an older document replaces a newer one;
  every accepted change ends as an artifact or a diagnostic.
- *Photoshop*: every placement and export is answered exactly once, and nothing
  is retained once the setting is off.
- *Activity*: a Workbench sees every change after its snapshot once and in
  order, a dismissed record stays away, and a connection that could not follow ends.

## 2. Plan

1. `ModelOperation`, `ObserverDispatch` with the abstract `SnapshotLog`,
   `RuntimeControl`, `ProjectRegistry`, `WorkbenchConnections`: **written**. They
   are the components whose errors would lose or misdirect a user's work, and
   the ones in which several threads meet.
2. `ProductCommit` with the abstract `ProductSwitch`: **written**. Durable phases
   and crashes.
3. `TerminalSession`, `FeedbackArtifacts`, `Photoshop`: **written**.
4. The compositions `ActivityStream` (over ObserverDispatch) and `ProductRemoval`
   (over RuntimeControl): **written**.
5. Proofs: **written** for every safety property of the runs but the one of
   `FeedbackArtifacts`, with the refinements ProductCommit of ProductSwitch and
   ObserverDispatch (alone and inside ActivityStream) of SnapshotLog. Section 6 says
   along which invariants.
6. Next proofs: NoSupersededWrite, once the scheduler's ready list is described in a
   way the provers can reason about (section 6).
7. Next models: a `TerminalHub` module over TerminalSession (observation, input
   sequences, checkpoints), a connection of WorkbenchConnections as an
   implementation of "one owner at a time".

Conventions. A module models a component's critical sections as actions; a
mutex becomes a variable only where it is held from one action to a later one.
An `MC` module names the model values and the symmetry. A definition called a
*mutant* stands right before the one it would replace, is used by nothing, and
is a plausible mistake in the code that the property named in `PROJECT.json`
detects.

## 3. The modules

### ModelOperation (`model_operation.rs`)

State: for each operation its `state`, `bindings`, `progress`, cancellation flag,
`completion` mutex, the artifacts published (`committed`), the program counters
of its thread and of the threads of a Batch; the registry's `retained` and
`terminalOrder`; the submitter, the callers of `cancel` and `wait`, and
`shutdown`. Every critical section of the registry mutex is one action;
`completion` and `lifecycle` are held across actions, so who holds them is state.

The correspondence is by name: `submit` is SubmitAccept, SubmitRegister,
SubmitStart (or their failures), `execute_single` is SingleTake, SingleRun,
SingleDecide, SingleCommit, SingleSucceed, `execute_batch` is the Lane actions,
Joined and BatchDecide, then FinishSucceeded / FinishFailed / FinishCancelled.
RetainTerminal is part of each action that settles an operation under the lock,
as `retain_terminal` is.

Abstracted: what a Model Request is, what an artifact contains, the request
validation. An executor call may succeed, fail or be cancelled at any time.

### ObserverDispatch and SnapshotLog (`model_operation.rs` 1371-1426)

Threads change operations, which gives each snapshot a revision under the
registry mutex, and then publish it outside. A snapshot waits in `pending`
until its revision is due; whoever finds nobody draining drains. `committed`
and `given` are history. `SnapshotLog` is the abstract promise: a log that is
appended to and an observer that reads it in order; `ImplementsLog` is the
refinement with `log <- committed, seen <- given`.

The observer is taken as installed: `main` installs it once before any
operation is accepted.

### RuntimeControl (`control/server.rs`, `product/service.rs`, `workbench/routing.rs`)

State: the lifecycle, the writer of `product_transition` (its readers are the
activations in progress), the holders and the count of work permits, the
program counters of the main thread, of workers, updates, removals and their
drain threads, Quit and activation, and the Control connections with what they
were told. A caller that takes the write lock only to decide holds it for one
action. The switch of `product/commit.rs` is one action, Commit, of the update
thread; ProductCommit has its detail. A broadcast may fail to reach a connection whose writer queue is full
(`control/writer.rs`), which closes that connection.

### ProjectRegistry (`project/registry.rs`, `project/watcher.rs`, `project/feedback/artifacts.rs`)

State: the three maps of the registry (`sessions_by_root`, `uses_by_root`,
`transitions_by_root`) under their code names, the outcome of each transition,
the caller of each operation, and for each session whether it is published,
closed, how far its cleanup is, and its watcher thread. The registry mutex is a
variable because `open_new_project` holds it while it attaches the session to
the Feedback artifacts; elsewhere a critical section is one action. A session is
known by the caller that opened it.

Abstracted: the content of a Project; debouncing in the watcher (40 ms), which
only merges signals; the notification of a change after unlocking, which
changes no state here.

### WorkbenchConnections (`workbench/connections.rs`, `workbench/services.rs`)

State: registered connections, those told to close, the owner of each root,
the binding and generation of each connection, who holds the binding
transaction and which gates it still waits for, leases of requests, the
attempts and their subscriptions, the stream threads, the closer thread and its
queue, the drain at shutdown, and what each client makes of the frames
(`WorkbenchProjectProjection.ts`). A connection's queue is read in order by one
reader, so a frame's effect on the client is computed when it is sent.

Merged steps, each because nothing in between can change the outcome: the read
of a request's context and the acquisition of its lease (which checks
everything again); the second read of the context of an open attempt and its
preparation; the drop of the response stream and the close its guard asks for.

Environment: which connections may lag or leave, whether the Runtime shuts
down, and which Projects change are constants, so that a run pays only for what
its properties are about. A send may fail at any time, since Global and
Activity frames share the queue. A request may end at any time. The last use of
a session may or may not close it.

Abstracted: browser sessions and credentials, and the retargeting and focusing
of Desktop windows, which appear as attempts whose preparation fails.

### ActivityStream (`activity.rs`, `workbench/services.rs`, `workbench/routes.rs`)

Extends ObserverDispatch: the drainer's Deliver, one call of the observer there,
is here two steps, Upsert (the critical section that changes the record) and
ObserverReturns (`publish_ordered`, which waits until the event's revision is
the next). State: `records` and `revision`; `due`, the event each thread or
request still has to publish; `sent`, what went to the broadcast channel;
the HTTP callers (Notice; SendStarts, SendEnds and SendDropped of
`photoshop_send`; Dismiss; ClearTerminal); one Workbench connection with its
cursor in the channel (Subscribe, Snapshot, Forward, EndsConnection). Forward
drops what the snapshot already had, as the code does, and the Workbench breaks
at a gap. An event of a channel that has been overwritten is a lag, which ends
the connection.

A record of an operation that has ended refuses later updates; the order of
the observer never reaches that refusal, so it is a guard. ImplementsLog of
ObserverDispatch is checked again here: splitting the call keeps the refinement.

### ProductCommit and ProductSwitch (`product/commit.rs`, `product/store.rs`)

State: what is on disk (`current`, the installed versions and Desktop, the
pending commit and its phase file Staged, DesktopInstalled, CurrentSelected or
RuntimeReady, staged assets, the tombstone of a retired commit, claimed
receipts), and the processes: the Runtime that owns Control and its main
thread, the Apply thread, the Product Installer, a launched target that waits,
and the store lock. Every durable write is an action, so a crash (which drops
processes and locks and keeps the disk) falls between any two. Apply and the
Installer run the same `continue_commit`, so those actions take the actor as a
parameter. ProductSwitch is the promise: one selected version, one goal, one
switch that is never taken back; ImplementsSwitch is the refinement, with
`selected <- current` and `goal` the target of the pending commit.

Abstracted: the record of a failure, temporary files that are renamed into
place, hashes and manifests (a version is intact or partial), download, and the
projections that `finalize_current` rewrites. Versions are their position in
the semver order.

### TerminalSession (`terminal/service.rs`)

State: the creating thread; the child, the rest of its process tree (none of it,
processes that hold the PTY open, or others that live) and the chunks it wrote; the reader, writer and wait thread; the bounded command queue;
the actor with the view it shows (`status`, `final_checkpoint`, `pending_exit`,
`reader_closed`, the tree and force errors); each caller of close, the drop of the
service, and the actor's retirement of itself. A step of the actor handles one
command, with everything the handler does. A wait with a timeout may end at any
moment. Output is counted, not stored. The command queue goes with the actor.

`Kills` is `force_kill` when it returns Ok. A Windows job ends as a whole. On macOS
(`native-process/src/lib.rs:3-8`, `462-490`) the group is signalled only while the
shell is the process it was, and beyond it those observed as descendants, so a
process may be missed, which `escaped` notes. The run is the macOS one: its kills may
also take everything, so its behaviours include those of Windows.

Abstracted: a shell whose identity macOS will not tell (an `exec` of a program of
another user), titles, sizes, observation and its checkpoints, the limit on
terminals, errors of the reader's `read` and of `wait`.

### Photoshop (`photoshop/integration.rs`, `gateway.rs`, `lifecycle.rs`)

State: the State of the integration (setting, availability of the gateway,
sessions with their active command, commands with their session), the
socket of each session, what the gateway's single thread is doing, the
placements of Workbench threads and the answer each of them waits for, the
thread that changes the setting and the admission mutex it holds, the worker
that binds, serves and stops the gateway, and what each publisher of the state
read and has yet to deliver. The publication is two steps because `publish`
delivers after its unlock.

Abstracted: what is transferred, Project uses and revisions, work permits, an
HTTP caller that gives up. The answers of commands retired together are sent in
the step that retires them. The first bind when the worker starts is its Retry.

### FeedbackArtifacts (`project/feedback/artifacts.rs`, `project/registry.rs`)

State: the Project as the session sees it (document, revision, tree listing,
watcher) and as it is on disk, the artifacts there, the bounded command queue,
the scheduler's state of each artifact with its ready list and slots, the render
threads, and a request that saved a video frame. A command is handled in one
step. An entry of the document is a number with one artifact; an artifact on
disk is known by the entry and the version of the source it shows. `accepted`,
`lost` and `revived` are history.

A refresh of the watcher may fail to list the tree or to read the document: what
could not be read stays as it was, a watch diagnostic appears, and the command is sent
with the old document. An error that leaves the outcome of a mutation uncertain sends
none; no listing returns one today (`error.rs:70`). A change whose event was lost
reaches the session as RescanRequired.

Abstracted: the geometry of marks and the rendering, mutations that enqueue
nothing, and Shutdown.

### ProductRemoval (`product/removal.rs`)

Extends RuntimeControl: `Runs(step)` is a step of that module while the process
is up, with what it does outside the process (prepare writes the plan, and the
copy of the configuration when it is to be kept; a cancellation or a failed
launch removes it; a launch starts the detached finalizer). The rest is the
finalizer: it waits for the Runtime to go (RuntimeGone, or WaitTimesOut after
its 120 s), then RemoveProjections, RemoveHome, Restore, RemoveRetained,
RemoveStaging and RemoveDesktop, of which each may fail or be cut by a crash. The
Runtime process exits when its main thread saw the ending, or crashes.

Abstracted: the validation of the plan, the copy of the Runtime's files the
finalizer runs from, the retries Windows needs, a cancellation whose cleanup
fails. The finalizer is given no fairness: nobody restarts it.

### How the modules fit together

ActivityStream and ProductRemoval are compositions, by extension of the module
whose steps they interleave with. The other components are modelled apart, and
meet at operations of which both sides are modelled: an attempt's session comes from ProjectRegistry (PrepareFails is
its refusal), the shutdown in WorkbenchConnections and in ModelOperation is the
one that an ending of RuntimeControl starts, a worker of RuntimeControl is any
request that holds a permit. Their locks are disjoint, except for the call back
from ProjectRegistry into Photoshop and again into ProjectRegistry, which is
inside one module.

## 4. The runs

| Run | Instance | States | Shows |
|---|---|---|---|
| `model_operation_batch` | 1 Batch of 2 items, 2 lanes, 1 canceller, 1 waiter, shutdown | 421,800 | BatchAccounting, WaiterHearsEverything, NoCommitAfterCancellation, BatchSettlesUnlessCancelledLast |
| `model_operation_single` | 2 Singles, 2 cancellers, shutdown, room for 1 terminal | 108,022 | SinglePublishesIffSucceeds, EveryOperationSettles, ShutdownReturns |
| `activity_stream` | 3 threads, 3 revisions, 2 kinds of snapshot, 2 HTTP callers, a channel of 2, 1 connection | 1,394,343 | NothingStranded, StreamIsContiguous, RemovedStaysAway, ImplementsLog, ActivityCatchesUp |
| `product_removal` | a worker, an update, a Control and an HTTP removal, Quit, an activation, a connection; 1 fault | 69,958 | CommitRunsAlone, EveryConnectionHears, RemovalLosesNothing, RequestsSettleUnlessBlocked |
| `project_registry` | 2 callers, 2 closers, 1 root, 1 signal per watcher, Photoshop connected | 86,910 | OneSessionPerRoot, UseKeepsSession, CloseLeavesNothing, CallsReturnUnlessWedged |
| `workbench_binding` | 3 attempts, 2 connections, 2 roots, 1 request, shutdown, symmetry | 1,236,131 | BindingsAgree, LeaseKeepsBinding |
| `workbench_streams` | 2 attempts, 2 connections, 1 root, 3 revisions, a queue of 1, one client that lags and leaves | 177,566 | NoGap, DisplacedIsTold, StreamKeepsUp, EveryBindReturns |
| `product_commit` | 3 versions, 2 faults, Windows | 581,401 | CrashIsSurvivable, ReopenedOnce, ImplementsSwitch, SelectedCommitFinishes |
| `terminal_session` | macOS, 1 closer, 1 chunk, 1 input, a queue of 2, 1 fault | 331,703 | ExitedShowsEverything, LiveTreeHoldsProject, WriterFailureIsPublished, NoTerminalLingers, CallsReturn |
| `photoshop` | 2 sessions, 1 placement, 1 export, 2 changes of the setting | 364,632 | NoPanic, OffRetainsNothing, CallersAreAnswered |
| `photoshop_stale` | 1 session, 1 placement, the published state followed | | violates ClosedIsWithdrawn |
| `feedback_artifacts` | an image and a video moment, 2 sessions, a queue of 2, 1 render at a time, 2 changes, 1 fault | 1,475,850 | NoSupersededWrite, EveryChangeSettles |

Why the bounds are enough to be interesting:

- Two lanes and two items are the least in which lanes race for the counter, one
  fails while the other runs, and a lane finds no item left. One terminal slot
  makes the second settlement of two operations retire the first.
- Three threads let a publisher arrive late while another drains and a third
  finds it leaving. A channel of two is overwritten by three events; two HTTP
  callers are the least of which one changes a record the other dismisses.
- In Runtime Control each transition meets each other kind once. Two removals of
  different kinds are the pair of competing removals; the proofs cover any number.
  One fault is a crash at any point, or any one step of the finalizer failing.
- Two callers of one root open, share, wait for a transition, release the last
  use and reopen. A second root adds nothing, since the maps are by root and the
  only thing the roots share is the lock and close, which two closers contend for.
- Three attempts are needed for a preemption by the second of a connection that
  the third is about to replace; with two connections each can be both the
  aggressor and the victim. A queue of one is full at the second event.
- Three versions allow an update after an update, and a Product Installer that
  carries a version between the two of a pending commit; two faults, a crash
  and a second one while it is being recovered from.
- A command queue of two is full when the reader and the wait thread have sent
  what they have to say and a close, a timeout and a shutdown still want to; one
  chunk of output is enough to be lost.
- Two sessions reuse nothing of each other, and the second connects while the
  command of the first is settled; two changes switch off and on again.
- Two sources compete for one render; a queue of two is full at the third
  command; two sessions let a result of the first arrive in the second.

`MaxRevision`, `MaxSignals`, `QueueCapacity`, `Capacity`, `InputCapacity`,
`MaxTerminal`, `ItemCount`, `MaxVersion`, `MaxOutput`, `MaxInput`, `MaxToggles`,
`MaxSessions`, `MaxConcurrent`, `MaxChanges` and `MaxFaults` are the bounds on
counters; the sets of callers bound the rest, since each makes one call (the
connections are opened once). `CHECK_DEADLOCK FALSE` is set in every run: the
callers make finitely many calls, and at rest nothing need happen. That nobody
rests while waiting is what the liveness properties say. Symmetry is used only in
`workbench_binding`, which checks no liveness and no property that tells the
permuted values apart.

`product_commit` runs on Windows. On macOS a commit can stay pending for good (see
section 5), so SelectedCommitFinishes is not a property of that platform; the
other three are the same.

### Fairness

Weak fairness is given to what a running thread does next, never to a caller
that might begin: no client has to submit, cancel, bind, leave or ask for an
update. The assumptions beyond that:

- Executors return: a provider request ends with its timeout at the latest
  (`ModelOperation`), and an admitted handler ends (`ProductRemoval`,
  `WorkbenchConnections`). A send to Photoshop need not be answered
  (`ActivityStream`, `Photoshop`): the code has no timeout for it.
- In `ProductRemoval` a thread of RuntimeControl whose wait for a condition variable
  or a lock is enabled again and again is served (strong fairness): a waiting
  writer of `std::sync::RwLock` holds new readers back. The Runtime process exits once its
  main thread may; nothing is asked of the finalizer.
- In `ProductCommit` a running process does its next step; sooner or later a
  Runtime is started where none runs (a session, a login), and one that can end
  again and again does end (strong fairness). Crashes are bounded by `MaxFaults`.
- In `TerminalSession` the reader and the wait thread, which send to the bounded
  command queue, are served when there is room again and again (strong fairness).
  Nothing is asked of the child: it need not write, read or exit.
- A watcher thread takes its next step; signals need not come. In
  `FeedbackArtifacts` the watcher lists what changed, renders end and commands
  that were sent are handled.
- The drain at shutdown has a deadline, so DrainEnds happens whether or not the
  requests ended.

## 5. What was found

`photoshop_stale` is the `violation` run, with a `findings` entry that quotes the
sentence it contradicts. `publish` (`photoshop/integration.rs:1221`) reads the state
under its mutex and delivers it after the unlock, and nothing orders two
deliveries. A placement's reservation can be read before a disconnection
and delivered after it: the last event every Workbench has then lists a
session whose socket is closed.

Places where the code wedges, waits for good or lets go too early. A property
excepts each by name, and so shows that it is the only way, given the bounds; the
one at `commit.rs:591` is outside what the run covers:

- `model_operation.rs:1150`. A Batch whose last item is done reads its
  cancellation flag outside the registry mutex and then calls
  `finish_succeeded_batch`, which does nothing unless the operation is still
  Running. A cancel in between leaves it Cancelling for ever
  (BatchSettlesUnlessCancelledLast, which therefore shows that there is no other way;
  EveryOperationSettles is about Single operations only).
- `control/server.rs:523`. A removal waits for the transition lock with a work
  permit in hand; the update thread holds the lock and waits for the permits
  (PermitWaitsForLock in RequestsSettleUnlessBlocked). Two removals can do the
  same to each other through the drain thread (line 560).
- `project/registry.rs:579`. `open_new_project` attaches Feedback artifacts with
  the registry mutex held; when the scheduler's queue is full, the failure path
  comes back through Photoshop's `broadcast_projects` to `list`, which locks the
  same mutex (Wedged in CallsReturnUnlessWedged).
- `product/commit.rs:591`. On macOS, after a crash between the write of `current`
  and that of CurrentSelected, the preflight of the Installer refuses what it
  finds (`store.rs:400-409`) and the commit stays pending. SelectedCommitFinishes is
  checked on Windows, where the Installer takes such a commit up again, and says
  nothing of this.
- `project/registry.rs:1385-1402`. An edit of `.debrute/feedback/feedback.json` from
  outside, while its directory is not listed, leaves the Project revision as it
  was; the scheduler takes the document for an old one and rejects it (`lost` in
  EveryChangeSettles; `docs/canvas-feedback.md:361-363`). So is a change whose
  command found the queue full.
- `project/registry.rs:1329-1380`. A watcher refresh that cannot read the document
  keeps the old one, and nothing tries again: the change waits for the next event or
  for a reopen, as does one whose tree cannot be listed for a second time with the same
  message, since that command is not newer (also `lost`, which a reopen clears). The run has
  one fault, and the second of these takes two.
- `native-process/src/lib.rs:462-490`. On macOS a `force_kill` that returns Ok may leave
  a process that left the group or was reparented, as lines 3-8 say; the Terminal then
  retires, or its close returns Ok, and the Project is let go while that process lives
  (`escaped` in LiveTreeHoldsProject). The shell itself is never left behind, and on
  Windows nothing is.
- `project/feedback/artifacts.rs:965-1000`. The resume of a saved frame queues an
  artifact again whose source was dropped while its render was active, even
  after its session was cancelled (`revived` in both Feedback properties).

Smaller observations, without a property of their own:

- *Workbench.* A stream thread checks that its binding is current up to 100 ms
  before it sends (`services.rs:938`): a frame of a retired binding can follow
  `project.bound`, on which the web client throws. Two concurrent OpenProject calls
  of one root on one connection can both succeed, the second with a binding id
  that was never bound (`services.rs:742`, `765`, `794`); the Workbench never starts
  the second.
- *Runtime Control.* A Control removal asked for while no permit can be had goes on
  without one (`server.rs:1344`), so nothing keeps Removing from being reached
  before its acceptance is flushed.
- *Activity.* A `photoshop_send` whose handler is dropped with its binding
  (`routing.rs:424-428`) leaves an active task that nothing ends and nobody can
  clear (SendDropped; `routes.rs:907-934`).
- *Removal.* The 120 s of the finalizer run from the acceptance, while the drain
  and the shutdown have no bound: a long drain ends the Runtime with nothing
  removed. The configuration to keep is copied before the admitted work has
  drained, so what is saved meanwhile is lost (`removal.rs:107-121`). The finalizer
  takes no store lock, so a Runtime started meanwhile runs from a Product that is
  half removed.
- *Commit.* A macOS target launched with appended arguments is rejected by the
  argument check of `run` (TargetGivesUp). The Windows Installer replaces the
  Desktop before it looks at a pending commit. An Apply that meets
  `complete_ready` at CurrentSelected makes the target Runtime fail and exit.
- *Terminals.* Closing a terminal whose writer and kill failed returns Ok, although
  the comment near `service.rs:582` says it errors. A close that races an exit
  answers `terminal_unavailable`. An observer dropped for a full queue is told
  nothing.
- *Photoshop.* A handler that refuses a request ends the plugin's session and any
  running placement. A placement that the plugin never answers is not timed out.
  A gateway that stops by itself is not started again.
- *Feedback.* `cancel_project` (`artifacts.rs:464`) fails on a full queue too, though
  its comment says only when stopped, and the failure then keeps the root from
  being reopened. A lost resume leaves an artifact waiting for its frame. The
  render_failed diagnostic of a removed moment stays.

## 6. Proofs

All theorems hold for every value of the constants that satisfies the named
assumptions of the module (the identifiers of different kinds of thread are
distinct, the bounds are positive numbers).

**`RuntimeControlProofs`.** `Typed` is TypeOK with two facts it needs to be
inductive: the count of admitted work is the number of permit holders (a finite
set), and a removal that has not begun holds none. With them `TypeCorrect` shows
that the count never underflows. `Owned` adds who is responsible for the
lifecycle: an update in progress is the one whose transaction UpdatePreparing
names (PreparationOwned), a thread between taking and releasing the transition
lock is its writer and has no reader beside it (LockOwned), nothing is admitted
between the end of a drain and what it was awaited for (WorkStaysDrained), and
there is one launched finalizer, whose removal the drain thread works for
(RemovalOwned). CommitRunsAlone is not inductive without them: the permits are
counted under one lock, and the switch runs after it was released. From
Typed and Owned follow CommitIsExclusive, RemovalIsExclusive (with
RemovingHasNoWork) and, as an action property, EndingStays. The step to Owned'
has one case for each action. These theorems are about Spec of RuntimeControl.

**`RuntimeControlProofs`, the composition.** `ClosingIsHeard`: EveryConnectionHears is
inductive once Typed is there, action by action, since the registration of a connection
and the decision to close exclude each other. The module extends ProductRemoval, and the
theorems `NothingIsLost` and `ComposedRuntime` are about RemovalSpec. Its invariant
`Finalized` keeps Typed, Owned and EveryConnectionHears while the process is up (Lives),
and adds: a finalizer exists exactly for the one removal that launched it (Launches), a
removal that launched one does not prepare again, so what it staged is not replaced
(PreparesOnce), no finalizer goes past its wait while the Runtime is up, and a Runtime
that was cut short had launched none (Waited), and at each step of the finalizer the kept
configuration is staged, in place, or both (Staged, Retained).

**`ActivityStreamProofs`.** First the dispatcher alone. `Order` joins TypeOK with: there
is one drainer at most, and one while `draining` is set (Claim); a revision that was taken
and not given is with one thread or pending, never both (Places); what is due has a
drainer (Watched); what was given is the log below the due revision, except for the
one snapshot the drainer may have in hand (Given). `CallsDoNotOverlap` and
`DueIsWatched` are its consequences. `RefinesLog` shows that initial states map to
initial states and that every step is an Append, an Observe or a stutter of
SnapshotLog: Deliver appends exactly the committed snapshot that is next.

Then the stream. StreamStepDispatches shows that each of its steps is a step of the
dispatcher or leaves it alone, so Order, `StreamLeavesNothing` and `StreamRefinesLog` hold
of the composition without a second proof. `Stream` adds Numbered (the channel carries 1, 2,
3, ..., and an open connection shows the later of its snapshot and the last event it
took), from which `ConnectionsSeeNoGap` follows, and Answered and Finished, without
which RemovedStaysAway is not inductive: a record says that its work is over only when
whoever could still change it has nothing left to deliver. `RemovalIsFinal` is the result.

**`ProjectRegistryProofs`.** `Shape` says what the three maps mean for the callers
and the sessions: an opener or a cleaner has its root's transition (OpenerHasRoot,
ReleaserHasRoot, TransitionOfRoot), a live session is of its root, which no
transition closes, and is published, open, watched and nobody's to close
(LiveSession), the uses of a root are those of the callers that hold one
(UsesOfSession), after the shutdown began no session is listed
(ClosedIsEmpty) and each session that close took out of the map is its own to close
(DrainedIsUntouched). SessionsListedAreOpen, UseIsSafe and FailureStays follow
from it. OneSessionPerRoot is not inductive: two sessions may never own one root
because a claim (OneClaim: loading, or a session that owns the root) is made by
OpenBegins only (ClaimIsMade), which finds the root absent from both maps, while,
until the registry is closed, whoever has a claim shows in one of them
(ClaimIsKept): as the live session, as the opener, or as the session another
caller is cleaning up. SessionOfRootIsUnique is the result.

`ShutdownIsComplete` proves CloseLeavesNothing, which speaks of one moment, the return of
close, and so needs a record of what happens before it. `Order` says which transitions are
under way and that one caller of close does the work (OneCloser, OpeningUnderWay,
CleaningUnderWay, AwaitedOpeners). `Accounts` says that from the closing of the registry on
each session is over, or the closing caller has it in its list, has it in hand, has recorded
its failure, or awaits the transition that will settle it. When close returns without an
error its list is empty and every awaited transition settled cleanly, so all are over.

**`ModelOperationProofs`.** `TypeCorrect` needs `Named` beside TypeOK: a call in
progress (submit, cancel or wait) names an operation that exists.
`CommitExcludesCancellation` uses `CommitGuard`: whoever is about to commit holds
the operation's completion mutex, and while it does, the flag it saw unset stays
unset, because a cancellation sets it only under that mutex. The proof goes
through the actions by the thread that makes them.

The other three results share `Control`, how the state of an operation and the program
counters of its threads go together (a retired operation is terminal, an active one is
retained, only the expected threads run). `SingleIsAllOrNothing` adds SingleLedger: between
its commit and the state that says so a Single holds its completion mutex and is Running, so
no cancellation or shutdown can settle it otherwise. `WaitersHearEverything` adds
WaitLedger: what a waiter was told and has yet to deliver is a prefix of the outcomes, and
all of them once it saw a terminal state. `BatchAlwaysAccounts` adds BatchLedger: no two
lanes carry one item and an item with an outcome is not carried any more (Fetched); unless
the Batch is cancelled, an item below the shared counter is carried or has its outcome, and
a Batch that succeeded has all of them (Complete); the progress counts the lanes and the
outcomes (Counted); what is published is what succeeded and what a lane has just published
(Published). It needs `LaneAssumption`, a finite and non-empty set of lanes: the code
refuses a concurrency of zero (`model_operation.rs` 806, 1682).

**`WorkbenchConnectionsProofs`.** The types come without the numeric bounds of the model.
`Bindings` says that the owner of a root is a registered connection bound to it and the
other way round (Owners, Owned), that a generation an attempt has read names one binding
(Expecting), and which attempt made a binding, which holds the transaction and where its
threads are (Asked, Made, Placed, Holding, Opened); `BindingsAlwaysAgree` follows. `Leases`
has what makes LeaseKeepsBinding inductive: whoever holds the transaction has, for each
connection it will change, either still to wait for its gate or taken it with nothing
running (Gated, in BindWaits, CloseWaits, StreamWaits and CloserWaits), and everything is
closed only after admission ended (Commanded). `LeasesKeepBindings` is the result.
`Streams` says that a subscription that is not detached holds all events since the revision
its client shows (Follows), from before the binding (Begun) until the client reads them
(Current), which is more than NoGap says; `ClientsMissNothing` follows. NobodyAssumption
tells Nobody from every holder of a mutex.

**`ProductCommitProofs`.** `Commit` relates the phase file, the holder of the store lock,
`current` and the versions on disk: whoever is between two writes of a critical section
holds the lock (Held), a phase says what `current` is (Cut) and which versions are complete
(Intact), only the target's Runtime finishes a commit, after the Ready cut (Reported), a
version that is about to be named by a commit is newer than current, so no removal touches
it (Prepared), an asset that is staged is not the one being retired (Assets), and a
transaction number is claimed before it is reopened (Counted, Reopens). CrashIsSurvivable
speaks of the disk alone; Intact is kept only because of Held, Cut and Reported.
`CrashSurvived` and `SurfaceReopenedOnce` follow. `RefinesSwitch` shows under the same
invariant that each step is a step of ProductSwitch or a stutter: the begin of a commit sets
the goal, the write of `current` is the switch, the retirement clears the goal, and no crash
or second installer takes anything back. Both platforms are covered.

**`TerminalSessionProofs`.** `Holding`: who gives up the Project use has seen the child's tree
killed, a macOS kill that returned Ok missed what is left, or a kill failed; its first part
follows the use from the creator to the actor, its last says that only macOS kills miss
anything (Killed, KilledOrFailed).
`Ordered`: the reader ends behind the last chunk, and says so behind it in the queue.
`Counted`: the chunks shown and those in the queue are the chunks read, by a count over the
places of the queue (AppendChunks, TailChunks). ExitedShowsEverything needs all three,
because the exit, the end of the reader and the chunks come from two threads in any order.
`LiveTreeIsHeld` (on Windows for the whole tree, on macOS but for what a kill missed) and
`ExitIsComplete` follow, and `WriterFailureCounts`, an action
property, from the one action that sets the final checkpoint. CloserAssumption says that
a closer is none of the other names that appear in the queue.

**`PhotoshopProofs`.** `Owned`: a command that is reserved, registered or being cleared is the
active one of its session while the session is there. `Held`: the admission mutex has one
holder, and a disabling that holds it finds no transfer. `Off`: what the setting turned off
is empty and the worker follows the setting, whose change returns after the worker
answered. Roles and Sockets say whose handler the gateway runs and that a session or a
command is used once. `AssertionsHold` and `OffIsEmpty` follow: the assertions that NoPanic
names cannot fail, for any number of sessions and commands.


Some of the theorems are about properties that no run has, since the proof covers
every instance: one drainer at a time (CallsDoNotOverlap), one removal
(RemovalIsExclusive), endings are final (EndingStays), listed sessions are open
(SessionsListedAreOpen) and a failed cleanup stays (FailureStays), beside type
correctness.

Each invariant was checked by TLC on an instance of its module before it was proved.

Model-checked only, and why:

- Liveness (EveryOperationSettles, ShutdownReturns, BatchSettlesUnlessCancelledLast,
  RequestsSettleUnlessBlocked, CallsReturnUnlessWedged, DisplacedIsTold,
  StreamKeepsUp, EveryBindReturns, ActivityCatchesUp, SelectedCommitFinishes,
  NoTerminalLingers, CallsReturn, CallersAreAnswered, EveryChangeSettles, and the
  liveness of SnapshotLog, which ImplementsLog includes and the theorems RefinesLog and
  StreamRefinesLog do not): the installed provers do not reason about fairness or ENABLED.
- NoSupersededWrite of FeedbackArtifacts. The scheduler filters its ready list, which the
  module writes with SelectSeq, a recursive definition: that the list holds nothing but
  artifacts of the Project needs an induction over it, which the provers do not do.

## 7. What is not modelled

`PROJECT.json` lists every component with a reason. In short:

- Platform I/O, parsing, rendering, provider requests, Canvas data and the browser
  user interface have no concurrency of their own that a model would add to. They
  are the larger part of the repository, so the share of its lines that the map
  covers stays small: the modules stand for the parts in which threads, processes
  and crashes meet.
- Global settings hold one delivery mutex through store, revision and observer, and
  Working Copies one mutex: both are sequential.
- The Terminal Hub is in the plan.
- Of the modelled files: the Desktop window topology and CLI authorizations of
  `control/server.rs`; the commands a session executes in `project/registry.rs`; the
  request handlers in `workbench/services.rs`; document locations, inspection and
  the transfer of bytes in `photoshop/`; resizing, titles and observation in
  `terminal/service.rs`; path validation and platform retries in `product/`; and the
  unit tests at their ends.

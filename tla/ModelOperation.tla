--------------------------- MODULE ModelOperation ---------------------------
(***************************************************************************)
(* The Runtime's Model Operation registry (model_operation.rs): accepted   *)
(* Single and Batch operations, the thread each one owns, the scoped       *)
(* threads ("lanes") of a Batch, callers that cancel, callers that wait,   *)
(* and the Runtime shutdown.                                               *)
(*                                                                         *)
(* Every critical section of the registry mutex is one action.  The        *)
(* per-operation `completion` mutex, which orders a commit against a       *)
(* cancellation, and the `lifecycle` mutex, which orders submissions       *)
(* against shutdown, are held across actions and so are variables.         *)
(* Snapshots handed to the observer are the subject of ObserverDispatch.   *)
(***************************************************************************)
EXTENDS Integers, Sequences, FiniteSets

CONSTANTS
  Ops,          \* identifiers of the operations that may be submitted
  BatchOps,     \* those submitted with the Batch shape; the others are Single
  ItemCount,    \* Model Requests in one Batch
  Lanes,        \* the threads of one Batch, as many as its concurrency
  Cancellers,   \* callers of cancel, each making one call
  Waiters,      \* callers of wait, each making one call
  MaxTerminal,  \* MAX_TERMINAL_OPERATIONS
  Worker,       \* an operation's own thread, as holder of its completion mutex
  Shutdown,     \* the thread that shuts the Runtime down, as a caller of cancel
  Nobody        \* no operation, or an unlocked mutex

Callers == Cancellers \cup {Shutdown}
Holders == {Nobody, Worker} \cup Lanes \cup Callers

ASSUME ShapeAssumption ==
  /\ BatchOps \subseteq Ops
  /\ Nobody \notin Ops
  /\ ItemCount \in Nat \ {0}
ASSUME RetentionAssumption == MaxTerminal \in Nat \ {0}
ASSUME HolderAssumption ==
  /\ Nobody \notin Lanes \cup Callers \cup {Worker}
  /\ Worker \notin Lanes \cup Callers
  /\ Lanes \cap Callers = {}
  /\ Shutdown \notin Cancellers

\* A concurrency of zero is refused, by the batch request and by the registry.
ASSUME LaneAssumption == Lanes # {} /\ IsFiniteSet(Lanes)

Active == {"queued", "running", "cancelling"}
Terminal == {"succeeded", "failed", "cancelled"}
States == {"none"} \cup Active \cup Terminal

\* Item 1 is the only request of a Single operation.
Items(o) == IF o \in BatchOps THEN 1 .. ItemCount ELSE {1}
Outcome == [item : 1 .. ItemCount, status : {"succeeded", "failed"}]

VARIABLES
  state,          \* the state of each operation; kept as history once retired
  bindings,       \* the requests that still own their Model binding
  progress,       \* the counters, outcomes and cancellation_failure of a Batch
  retained,       \* the keys of the registry's map
  terminalOrder,  \* terminal_order: retained terminal operations, oldest first
  cancellation,   \* ModelCancellation: the flag the threads of an operation read
  completion,     \* who holds each operation's completion mutex
  committed,      \* items whose artifacts the executor has published
  worker,         \* program counter of each operation's thread
  lane,           \* program counter, item and result of each Batch thread
  next,           \* next item a Batch thread fetches
  handles,        \* the worker registry: join handles not yet taken
  lifecycle,      \* who holds the lifecycle mutex
  submission,     \* progress of the submission that holds it
  shutdown,       \* shutting_down, and the progress of the shutdown thread
  call,           \* the cancel call of each caller
  wait            \* the wait call of each waiter

operations == <<state, bindings, progress>>
registry == <<operations, retained, terminalOrder>>
threads == <<committed, worker, lane, next>>
service == <<handles, lifecycle, submission, shutdown>>
cancel == <<cancellation, call>>
vars == <<registry, completion, threads, service, cancel, wait>>

NoProgress ==
  [active |-> 0, succeeded |-> 0, failed |-> 0, outcomes |-> <<>>,
   cancellationFailure |-> "none"]

IdleWait ==
  [pc |-> "idle", op |-> Nobody, got |-> <<>>, pending |-> <<>>, seen |-> "none"]

Progress ==
  [active : Int, succeeded : Nat, failed : Nat, outcomes : Seq(Outcome),
   cancellationFailure : {"none", "some"}]
WorkerPc ==
  {"none", "blocked", "execute", "take", "run", "staged", "commit", "succeed", "join",
   "finishSucceeded", "finishFailed", "finishCancelled", "retain", "exit"}
LanePc == {"exit", "fetch", "begin", "run", "staged", "commit", "finish"}
Lane ==
  [pc : LanePc, item : 1 .. ItemCount, result : {"ok", "failed", "cancelled"}]
Wait ==
  [pc : {"idle", "look", "deliver", "sleep", "returned", "gone"},
   op : Ops \cup {Nobody}, got : Seq(Outcome), pending : Seq(Outcome), seen : States]

TypeOK ==
  /\ state \in [Ops -> States]
  /\ bindings \in [Ops -> SUBSET (1 .. ItemCount)]
  /\ progress \in [Ops -> Progress]
  /\ retained \in SUBSET Ops
  /\ terminalOrder \in Seq(Ops)
  /\ cancellation \in [Ops -> BOOLEAN]
  /\ completion \in [Ops -> Holders]
  /\ committed \in [Ops -> SUBSET (1 .. ItemCount)]
  /\ worker \in [Ops -> WorkerPc]
  /\ lane \in [Ops -> [Lanes -> Lane]]
  /\ next \in [Ops -> Nat \ {0}]
  /\ handles \in SUBSET Ops
  /\ lifecycle \in {"free", "submit", "shutdown"}
  /\ submission \in [pc : {"idle", "accepted", "registered", "retain"},
                     op : Ops \cup {Nobody}]
  /\ shutdown \in [pc : {"no", "cancel", "join", "done"},
                   todo : SUBSET Ops, joining : SUBSET Ops]
  /\ call \in [Callers -> [pc : {"idle", "lock", "retain", "done"},
                           op : Ops \cup {Nobody}]]
  /\ wait \in [Waiters -> Wait]

Init ==
  /\ state = [o \in Ops |-> "none"]
  /\ bindings = [o \in Ops |-> Items(o)]
  /\ progress = [o \in Ops |-> NoProgress]
  /\ retained = {}
  /\ terminalOrder = <<>>
  /\ cancellation = [o \in Ops |-> FALSE]
  /\ completion = [o \in Ops |-> Nobody]
  /\ committed = [o \in Ops |-> {}]
  /\ worker = [o \in Ops |-> "none"]
  /\ lane = [o \in Ops |-> [l \in Lanes |->
                [pc |-> "exit", item |-> 1, result |-> "ok"]]]
  /\ next = [o \in Ops |-> 1]
  /\ handles = {}
  /\ lifecycle = "free"
  /\ submission = [pc |-> "idle", op |-> Nobody]
  /\ shutdown = [pc |-> "no", todo |-> {}, joining |-> {}]
  /\ call = [c \in Callers |-> [pc |-> "idle", op |-> Nobody]]
  /\ wait = [w \in Waiters |-> IdleWait]

-----------------------------------------------------------------------------
(* Registry mutations shared by the threads.                               *)

IsTerminal(o) == state[o] \in Terminal

\* finish_cancelled and finish_failed: release what the operation still owns.
Settle(o, final) ==
  /\ state' = [state EXCEPT ![o] = final]
  /\ bindings' = [bindings EXCEPT ![o] = {}]
  /\ progress' = [progress EXCEPT ![o].active = 0]

Excess(order) == IF Len(order) > MaxTerminal THEN Len(order) - MaxTerminal ELSE 0

\* retain_terminal: the operation joins the terminal order and the oldest
\* terminal operations beyond the limit leave the registry.
RetainTerminal(o) ==
  IF \E i \in 1 .. Len(terminalOrder) : terminalOrder[i] = o
  THEN UNCHANGED <<retained, terminalOrder>>
  ELSE LET pushed == Append(terminalOrder, o)
       IN /\ terminalOrder' = SubSeq(pushed, Excess(pushed) + 1, Len(pushed))
          /\ retained' = retained \ {pushed[i] : i \in 1 .. Excess(pushed)}

-----------------------------------------------------------------------------
(* submit: the lifecycle mutex is held from the first line to the last.    *)

\* reap_workers joins and forgets the threads that have finished.
Unreaped == {o \in handles : worker[o] # "exit"}

SubmitOpen == lifecycle = "free" /\ shutdown.pc = "no"

\* A submission accepted: the thread exists, blocked on its start channel.
SubmitAccept(o) ==
  /\ SubmitOpen
  /\ state[o] = "none"
  /\ lifecycle' = "submit"
  /\ submission' = [pc |-> "accepted", op |-> o]
  /\ handles' = Unreaped
  /\ state' = [state EXCEPT ![o] = "queued"]
  /\ retained' = retained \cup {o}
  /\ worker' = [worker EXCEPT ![o] = "blocked"]
  /\ UNCHANGED <<bindings, progress, terminalOrder, completion, committed, lane, next,
                 shutdown, cancel, wait>>

\* A submission refused by validation, or because the Runtime shuts down.
SubmitRefused ==
  /\ lifecycle = "free"
  /\ handles' = Unreaped
  /\ UNCHANGED <<registry, completion, threads, lifecycle, submission, shutdown, cancel, wait>>

SubmitRegister ==
  /\ submission.pc = "accepted"
  /\ handles' = handles \cup {submission.op}
  /\ submission' = [submission EXCEPT !.pc = "registered"]
  /\ UNCHANGED <<registry, completion, threads, lifecycle, shutdown, cancel, wait>>

SubmitReturns ==
  /\ lifecycle' = "free"
  /\ submission' = [pc |-> "idle", op |-> Nobody]

SubmitStart ==
  /\ submission.pc = "registered"
  /\ worker' = [worker EXCEPT ![submission.op] = "execute"]
  /\ SubmitReturns
  /\ UNCHANGED <<registry, completion, committed, lane, next, handles, shutdown, cancel, wait>>

\* Mutant: finish_failed settles only a running record, not a cancelling one.
FailedRunning(o) ==
  IF state[o] = "running" THEN Settle(o, "failed") ELSE UNCHANGED operations
Failed(o) == IF IsTerminal(o) THEN UNCHANGED operations ELSE Settle(o, "failed")

\* The start channel is closed because the thread is gone: finish_failed.
SubmitStartFails ==
  LET o == submission.op IN
  /\ submission.pc = "registered"
  /\ worker' = [worker EXCEPT ![o] = "exit"]
  /\ Failed(o)
  /\ IF IsTerminal(o)
     THEN SubmitReturns
     ELSE /\ submission' = [submission EXCEPT !.pc = "retain"]
          /\ UNCHANGED lifecycle
  /\ UNCHANGED <<retained, terminalOrder, completion, committed, lane, next, handles,
                 shutdown, cancel, wait>>

SubmitRetain ==
  /\ submission.pc = "retain"
  /\ RetainTerminal(submission.op)
  /\ SubmitReturns
  /\ UNCHANGED <<operations, completion, threads, handles, shutdown, cancel, wait>>

-----------------------------------------------------------------------------
(* execute, execute_single: the operation's own thread.                    *)

\* Mutant: the completion guard is leaked.
LeakedBy(o, holder) == completion
ReleasedBy(o, holder) ==
  [completion EXCEPT ![o] = IF @ = holder THEN Nobody ELSE @]

StillQueued(o) == o \in retained /\ state[o] = "queued"

\* execute: only a queued operation runs; a cancelled one is left alone.
Execute(o) ==
  /\ worker[o] = "execute"
  /\ IF StillQueued(o)
     THEN /\ state' = [state EXCEPT ![o] = "running"]
          /\ IF o \in BatchOps
             THEN /\ worker' = [worker EXCEPT ![o] = "join"]
                  /\ lane' = [lane EXCEPT ![o] =
                                [l \in Lanes |-> [@[l] EXCEPT !.pc = "fetch"]]]
             ELSE /\ worker' = [worker EXCEPT ![o] = "take"]
                  /\ UNCHANGED lane
     ELSE /\ worker' = [worker EXCEPT ![o] = "exit"]
          /\ UNCHANGED <<state, lane>>
  /\ UNCHANGED <<bindings, progress, retained, terminalOrder, completion, committed, next, service, cancel, wait>>

\* The worker takes its Model binding; the code panics if it is gone.
SingleTake(o) ==
  /\ worker[o] = "take"
  /\ 1 \in bindings[o]
  /\ bindings' = [bindings EXCEPT ![o] = @ \ {1}]
  /\ worker' = [worker EXCEPT ![o] = "run"]
  /\ UNCHANGED <<state, progress, retained, terminalOrder, completion, committed, lane, next, service,
                 cancel, wait>>

\* executor.run and executor.stage succeed, fail, or notice the cancellation.
SingleRun(o) ==
  /\ worker[o] = "run"
  /\ \/ worker' = [worker EXCEPT ![o] = "staged"]
     \/ worker' = [worker EXCEPT ![o] = "finishFailed"]
     \/ /\ cancellation[o]
        /\ worker' = [worker EXCEPT ![o] = "finishCancelled"]
  /\ UNCHANGED <<registry, completion, committed, lane, next, service, cancel, wait>>

\* Mutant: the thread commits without looking at the cancellation again.
CommitUnchecked(o) == TRUE
\* Under the completion mutex: may the staged result still be committed?
MayCommit(o) == ~cancellation[o]

SingleDecide(o) ==
  /\ worker[o] = "staged"
  /\ completion[o] = Nobody
  /\ completion' = [completion EXCEPT ![o] = Worker]
  /\ worker' = [worker EXCEPT ![o] = IF MayCommit(o) THEN "commit" ELSE "finishCancelled"]
  /\ UNCHANGED <<registry, committed, lane, next, service, cancel, wait>>

SingleCommit(o) ==
  /\ worker[o] = "commit"
  /\ \/ /\ committed' = [committed EXCEPT ![o] = @ \cup {1}]
        /\ worker' = [worker EXCEPT ![o] = "succeed"]
     \/ /\ worker' = [worker EXCEPT ![o] = "finishFailed"]
        /\ UNCHANGED committed
  /\ UNCHANGED <<registry, completion, lane, next, service, cancel, wait>>

SingleSucceed(o) ==
  /\ worker[o] = "succeed"
  /\ state' = [state EXCEPT ![o] = "succeeded"]
  /\ bindings' = [bindings EXCEPT ![o] = {}]
  /\ worker' = [worker EXCEPT ![o] = "retain"]
  /\ UNCHANGED <<progress, retained, terminalOrder, completion, committed, lane, next, service,
                 cancel, wait>>

\* After a finish: retain_terminal when the record was settled here.
AfterFinish(o) ==
  IF IsTerminal(o)
  THEN /\ worker' = [worker EXCEPT ![o] = "exit"]
       /\ completion' = ReleasedBy(o, Worker)
  ELSE /\ worker' = [worker EXCEPT ![o] = "retain"]
       /\ UNCHANGED completion

FinishFailed(o) ==
  /\ worker[o] = "finishFailed"
  /\ Failed(o)
  /\ AfterFinish(o)
  /\ UNCHANGED <<retained, terminalOrder, committed, lane, next, service, cancel, wait>>

FinishCancelled(o) ==
  /\ worker[o] = "finishCancelled"
  /\ IF IsTerminal(o) THEN UNCHANGED operations ELSE Settle(o, "cancelled")
  /\ AfterFinish(o)
  /\ UNCHANGED <<retained, terminalOrder, committed, lane, next, service, cancel, wait>>

\* retain_terminal, then the thread returns and drops the completion guard.
WorkerRetain(o) ==
  /\ worker[o] = "retain"
  /\ RetainTerminal(o)
  /\ completion' = ReleasedBy(o, Worker)
  /\ worker' = [worker EXCEPT ![o] = "exit"]
  /\ UNCHANGED <<operations, committed, lane, next, service, cancel, wait>>

-----------------------------------------------------------------------------
(* execute_batch: scoped threads that share the item counter.              *)

SetLane(o, l, record) == lane' = [lane EXCEPT ![o][l] = record]

\* next.fetch_add: the counter after a fetch.
FetchNext(o) == {next[o] + 1}

Exhausted(o) == next[o] > ItemCount

LaneFetch(o, l) ==
  /\ lane[o][l].pc = "fetch"
  /\ IF cancellation[o]
     THEN /\ SetLane(o, l, [lane[o][l] EXCEPT !.pc = "exit"])
          /\ UNCHANGED next
     ELSE /\ \E n \in FetchNext(o) : next' = [next EXCEPT ![o] = n]
          /\ IF Exhausted(o)
             THEN SetLane(o, l, [lane[o][l] EXCEPT !.pc = "exit"])
             ELSE SetLane(o, l, [lane[o][l] EXCEPT !.pc = "begin", !.item = next[o]])
  /\ UNCHANGED <<registry, completion, committed, worker, service, cancel, wait>>

\* begin_item: the item starts only while the operation is running.
LaneBegin(o, l) ==
  /\ lane[o][l].pc = "begin"
  /\ IF o \in retained /\ state[o] = "running" /\ ~cancellation[o]
     THEN /\ lane[o][l].item \in bindings[o]
          /\ bindings' = [bindings EXCEPT ![o] = @ \ {lane[o][l].item}]
          /\ progress' = [progress EXCEPT ![o].active = @ + 1]
          /\ SetLane(o, l, [lane[o][l] EXCEPT !.pc = "run"])
     ELSE /\ SetLane(o, l, [lane[o][l] EXCEPT !.pc = "exit"])
          /\ UNCHANGED <<bindings, progress>>
  /\ UNCHANGED <<state, retained, terminalOrder, completion, committed, worker, next, service,
                 cancel, wait>>

LaneRun(o, l) ==
  /\ lane[o][l].pc = "run"
  /\ \/ SetLane(o, l, [lane[o][l] EXCEPT !.pc = "staged"])
     \/ SetLane(o, l, [lane[o][l] EXCEPT !.pc = "finish", !.result = "failed"])
     \/ /\ cancellation[o]
        /\ SetLane(o, l, [lane[o][l] EXCEPT !.pc = "finish", !.result = "cancelled"])
  /\ UNCHANGED <<registry, completion, committed, worker, next, service, cancel, wait>>

\* commit_batch_item, up to the check under the completion mutex.
LaneDecide(o, l) ==
  /\ lane[o][l].pc = "staged"
  /\ completion[o] = Nobody
  /\ completion' = [completion EXCEPT ![o] = l]
  /\ SetLane(o, l, IF MayCommit(o)
                   THEN [lane[o][l] EXCEPT !.pc = "commit"]
                   ELSE [lane[o][l] EXCEPT !.pc = "finish", !.result = "cancelled"])
  /\ UNCHANGED <<registry, committed, worker, next, service, cancel, wait>>

LaneCommit(o, l) ==
  /\ lane[o][l].pc = "commit"
  /\ \/ /\ committed' = [committed EXCEPT ![o] = @ \cup {lane[o][l].item}]
        /\ SetLane(o, l, [lane[o][l] EXCEPT !.pc = "finish", !.result = "ok"])
     \/ /\ SetLane(o, l, [lane[o][l] EXCEPT !.pc = "finish", !.result = "failed"])
        /\ UNCHANGED committed
  /\ UNCHANGED <<registry, completion, worker, next, service, cancel, wait>>

\* finish_item, on the record: a failure that a cancellation overtook becomes
\* the operation's failure, an item the cancellation stopped has no outcome.
ItemFinished(record, item, result, cancelled) ==
  LET settled == [record EXCEPT !.active = @ - 1]
      recorded(status) == Append(record.outcomes, [item |-> item, status |-> status])
  IN CASE result = "ok" ->
            [settled EXCEPT !.succeeded = @ + 1, !.outcomes = recorded("succeeded")]
       [] result # "ok" /\ cancelled ->
            [settled EXCEPT !.cancellationFailure =
                             IF result = "failed" THEN "some" ELSE @]
       [] result # "ok" /\ ~cancelled ->
            [settled EXCEPT !.failed = @ + 1, !.outcomes = recorded("failed")]

LaneFinish(o, l) ==
  /\ lane[o][l].pc = "finish"
  /\ progress' = [progress EXCEPT
                    ![o] = ItemFinished(@, lane[o][l].item, lane[o][l].result,
                                             cancellation[o])]
  /\ completion' = ReleasedBy(o, l)
  /\ SetLane(o, l, [lane[o][l] EXCEPT !.pc = "fetch"])
  /\ UNCHANGED <<state, bindings, retained, terminalOrder, committed, worker, next, service,
                 cancel, wait>>

\* Mutant: the operation settles while a thread of the scope still runs.
JoinedSome(o) == \E l \in Lanes : lane[o][l].pc = "exit"
\* thread::scope returns when every thread of the Batch has.
Joined(o) == \A l \in Lanes : lane[o][l].pc = "exit"

\* The end of execute_batch reads the cancellation flag, outside the registry
\* mutex, to choose how the operation settles.
BatchDecide(o) ==
  /\ worker[o] = "join"
  /\ Joined(o)
  /\ worker' = [worker EXCEPT ![o] =
       IF state[o] = "cancelling" /\ progress[o].cancellationFailure = "some"
       THEN "finishFailed"
       ELSE IF cancellation[o] THEN "finishCancelled" ELSE "finishSucceeded"]
  /\ UNCHANGED <<registry, completion, committed, lane, next, service, cancel, wait>>

\* finish_succeeded_batch: does nothing unless the operation is still running.
FinishSucceeded(o) ==
  /\ worker[o] = "finishSucceeded"
  /\ IF state[o] = "running"
     THEN /\ state' = [state EXCEPT ![o] = "succeeded"]
          /\ bindings' = [bindings EXCEPT ![o] = {}]
          /\ worker' = [worker EXCEPT ![o] = "retain"]
     ELSE /\ worker' = [worker EXCEPT ![o] = "exit"]
          /\ UNCHANGED <<state, bindings>>
  /\ UNCHANGED <<progress, retained, terminalOrder, completion, committed, lane, next, service,
                 cancel, wait>>

-----------------------------------------------------------------------------
(* cancel                                                                  *)

\* The caller finds the record and takes a reference to its completion mutex.
CancelLookup(c, o) ==
  /\ call[c].pc = "idle"
  /\ o \in retained
  /\ call' = [call EXCEPT ![c] = [pc |-> "lock", op |-> o]]

ClientCancel(c, o) ==
  /\ c \in Cancellers
  /\ CancelLookup(c, o)
  /\ UNCHANGED <<registry, cancellation, completion, threads, service, wait>>

\* Mutant: cancel does not wait for the completion mutex.
CancelEnters(o) == TRUE
CancelMayEnter(o) == completion[o] = Nobody

\* Under the completion mutex, a queued operation is cancelled on the spot ...
CancelQueued(c) ==
  LET o == call[c].op IN
  /\ call[c].pc = "lock"
  /\ CancelMayEnter(o)
  /\ o \in retained
  /\ state[o] = "queued"
  /\ cancellation' = [cancellation EXCEPT ![o] = TRUE]
  /\ state' = [state EXCEPT ![o] = "cancelled"]
  /\ bindings' = [bindings EXCEPT ![o] = {}]
  /\ completion' = [completion EXCEPT ![o] = c]
  /\ call' = [call EXCEPT ![c].pc = "retain"]
  /\ UNCHANGED <<progress, retained, terminalOrder, threads, service, wait>>

\* ... a running one is asked to stop ...
CancelRunning(c) ==
  LET o == call[c].op IN
  /\ call[c].pc = "lock"
  /\ CancelMayEnter(o)
  /\ o \in retained
  /\ state[o] = "running"
  /\ cancellation' = [cancellation EXCEPT ![o] = TRUE]
  /\ state' = [state EXCEPT ![o] = "cancelling"]
  /\ call' = [call EXCEPT ![c].pc = "done"]
  /\ UNCHANGED <<bindings, progress, retained, terminalOrder, completion, threads, service,
                 wait>>

\* ... and one that is cancelling, terminal or retired is left alone.
CancelTooLate(c) ==
  LET o == call[c].op IN
  /\ call[c].pc = "lock"
  /\ CancelMayEnter(o)
  /\ o \notin retained \/ state[o] \notin {"queued", "running"}
  /\ call' = [call EXCEPT ![c].pc = "done"]
  /\ UNCHANGED <<registry, cancellation, completion, threads, service, wait>>

CancelRetain(c) ==
  /\ call[c].pc = "retain"
  /\ RetainTerminal(call[c].op)
  /\ completion' = ReleasedBy(call[c].op, c)
  /\ call' = [call EXCEPT ![c].pc = "done"]
  /\ UNCHANGED <<operations, cancellation, threads, service, wait>>

-----------------------------------------------------------------------------
(* shutdown: under the lifecycle mutex until the threads are taken.        *)

ShutdownBegin ==
  /\ lifecycle = "free"
  /\ shutdown.pc = "no"
  /\ lifecycle' = "shutdown"
  /\ shutdown' = [pc |-> "cancel", joining |-> {},
                  todo |-> {o \in retained : state[o] \in Active}]
  /\ UNCHANGED <<registry, completion, threads, handles, submission, cancel, wait>>

CancelReturned == call[Shutdown].pc \in {"idle", "done"}

ShutdownCancel(o) ==
  /\ shutdown.pc = "cancel"
  /\ CancelReturned
  /\ o \in shutdown.todo
  /\ shutdown' = [shutdown EXCEPT !.todo = @ \ {o}]
  /\ call' = IF o \in retained
             THEN [call EXCEPT ![Shutdown] = [pc |-> "lock", op |-> o]]
             ELSE call
  /\ UNCHANGED <<registry, cancellation, completion, threads, handles, lifecycle,
                 submission, wait>>

ShutdownTake ==
  /\ shutdown.pc = "cancel"
  /\ CancelReturned
  /\ shutdown.todo = {}
  /\ shutdown' = [shutdown EXCEPT !.pc = "join", !.joining = handles]
  /\ handles' = {}
  /\ lifecycle' = "free"
  /\ UNCHANGED <<registry, completion, threads, submission, cancel, wait>>

ShutdownJoined ==
  /\ shutdown.pc = "join"
  /\ \A o \in shutdown.joining : worker[o] = "exit"
  /\ shutdown' = [shutdown EXCEPT !.pc = "done"]
  /\ UNCHANGED <<registry, completion, threads, handles, lifecycle, submission, cancel, wait>>

-----------------------------------------------------------------------------
(* wait                                                                    *)

WaitStart(w, o) ==
  /\ wait[w].pc = "idle"
  /\ state[o] # "none"
  /\ wait' = [wait EXCEPT ![w].pc = "look", ![w].op = o]
  /\ UNCHANGED <<registry, completion, threads, service, cancel>>

\* Mutant: a terminal snapshot is returned without the outcomes since the last look.
OutcomesOfRunning(o) == IF state[o] \in Active THEN progress[o].outcomes ELSE <<>>
OutcomesNow(o) == progress[o].outcomes

\* Snapshot and undelivered outcomes are copied together; a retired operation
\* is operation_not_found.
WaitLook(w) ==
  LET o == wait[w].op IN
  /\ wait[w].pc = "look"
  /\ wait' = IF o \in retained
             THEN [wait EXCEPT ![w].pc = "deliver",
                     ![w].seen = state[o],
                     ![w].pending = SubSeq(OutcomesNow(o), Len(wait[w].got) + 1,
                                           Len(OutcomesNow(o)))]
             ELSE [wait EXCEPT ![w].pc = "gone"]
  /\ UNCHANGED <<registry, completion, threads, service, cancel>>

WaitDeliver(w) ==
  /\ wait[w].pc = "deliver"
  /\ wait' = [wait EXCEPT ![w].pc = IF wait[w].seen \in Terminal THEN "returned" ELSE "sleep",
                          ![w].got = @ \o wait[w].pending,
                          ![w].pending = <<>>]
  /\ UNCHANGED <<registry, completion, threads, service, cancel>>

\* is_observing, or a callback that reports the observer gone: Ok(None).
WaitDisconnect(w) ==
  /\ wait[w].pc \in {"look", "deliver"}
  /\ wait' = [wait EXCEPT ![w].pc = "gone"]
  /\ UNCHANGED <<registry, completion, threads, service, cancel>>

\* wait_for_change returns on a change, and in any case after the 100 ms poll.
WaitWake(w) ==
  /\ wait[w].pc = "sleep"
  /\ wait' = [wait EXCEPT ![w].pc = "look"]
  /\ UNCHANGED <<registry, completion, threads, service, cancel>>

-----------------------------------------------------------------------------
SubmitStep == SubmitRegister \/ SubmitStart \/ SubmitStartFails \/ SubmitRetain

WorkerStep(o) ==
  \/ Execute(o) \/ SingleTake(o) \/ SingleRun(o) \/ SingleDecide(o) \/ SingleCommit(o)
  \/ SingleSucceed(o) \/ FinishFailed(o) \/ FinishCancelled(o) \/ WorkerRetain(o)
  \/ BatchDecide(o) \/ FinishSucceeded(o)

LaneStep(o, l) ==
  \/ LaneFetch(o, l) \/ LaneBegin(o, l) \/ LaneRun(o, l) \/ LaneDecide(o, l)
  \/ LaneCommit(o, l) \/ LaneFinish(o, l)

CancelStep(c) == CancelQueued(c) \/ CancelRunning(c) \/ CancelTooLate(c) \/ CancelRetain(c)

ShutdownStep == (\E o \in Ops : ShutdownCancel(o)) \/ ShutdownTake \/ ShutdownJoined

WaitStep(w) == WaitLook(w) \/ WaitDeliver(w) \/ WaitWake(w)

Next ==
  \/ \E o \in Ops : SubmitAccept(o)
  \/ SubmitRefused
  \/ SubmitStep
  \/ \E o \in Ops : WorkerStep(o)
  \/ \E o \in Ops, l \in Lanes : LaneStep(o, l)
  \/ \E c \in Cancellers, o \in Ops : ClientCancel(c, o)
  \/ \E c \in Callers : CancelStep(c)
  \/ ShutdownBegin
  \/ ShutdownStep
  \/ \E w \in Waiters, o \in Ops : WaitStart(w, o)
  \/ \E w \in Waiters : WaitStep(w) \/ WaitDisconnect(w)

Spec == Init /\ [][Next]_vars

\* Threads that have something to do are scheduled; a Model Request ends by its
\* timeout at the latest, so executor.run and commit return.  No call has to be
\* made: submissions, cancellations, waits and the shutdown may never start.
Fairness ==
  /\ WF_vars(SubmitStep)
  /\ \A o \in Ops : WF_vars(WorkerStep(o))
  /\ \A o \in Ops, l \in Lanes : WF_vars(LaneStep(o, l))
  /\ \A c \in Callers : WF_vars(CancelStep(c))
  /\ WF_vars(ShutdownStep)
  /\ \A w \in Waiters : WF_vars(WaitStep(w))

FairSpec == Spec /\ Fairness

-----------------------------------------------------------------------------
(* Properties                                                              *)

\* A commit excludes a cancellation: once cancel has set the flag of an
\* operation no artifact of it is published any more, although the commit runs
\* outside the registry mutex (execute_single, commit_batch_item, cancel).
NoCommitAfterCancellation ==
  [][\A o \in Ops : cancellation[o] => committed'[o] = committed[o]]_vars

\* A Single operation has published its artifact exactly when it succeeded; in
\* between, its thread holds the completion mutex, so that no caller can be
\* told that the operation was cancelled or failed.
SinglePublishesIffSucceeds ==
  \A o \in Ops \ BatchOps :
    /\ state[o] = "succeeded" => committed[o] = {1}
    /\ committed[o] # {} /\ state[o] # "succeeded" =>
         completion[o] = Worker /\ state[o] = "running"

\* The counters of a Batch agree with its threads: each outcome is of a
\* different item, published items are exactly those reported as succeeded once
\* the threads have settled them, active counts the items in flight, and a
\* succeeded Batch has an outcome for every item.
BatchAccounting ==
  \A o \in BatchOps :
    LET r == progress[o]
        inFlight == {l \in Lanes : lane[o][l].pc \in {"run", "staged", "commit", "finish"}}
        reported(s) == {r.outcomes[i].item : i \in {j \in 1 .. Len(r.outcomes) :
                                                    r.outcomes[j].status = s}}
    IN /\ r.active = Cardinality(inFlight)
       /\ r.succeeded = Cardinality(reported("succeeded"))
       /\ r.failed = Cardinality(reported("failed"))
       /\ reported("succeeded") \cap reported("failed") = {}
       /\ committed[o] = reported("succeeded") \cup
            {lane[o][l].item : l \in {k \in inFlight : lane[o][k].pc = "finish"
                                                    /\ lane[o][k].result = "ok"}}
       /\ state[o] = "succeeded" => r.succeeded + r.failed = ItemCount

\* A waiter that is told the terminal snapshot has been told every outcome
\* before, each once and in the order the registry recorded them.
WaiterHearsEverything ==
  \A w \in Waiters :
    LET heard == wait[w].got \o wait[w].pending
        outcomes == IF wait[w].op = Nobody THEN <<>> ELSE progress[wait[w].op].outcomes
    IN /\ Len(heard) <= Len(outcomes)
       /\ heard = SubSeq(outcomes, 1, Len(heard))
       /\ wait[w].pc = "returned" => heard = outcomes

\* Every accepted operation reaches one of its terminal states.
EveryOperationSettles ==
  \A o \in Ops : state[o] = "queued" ~> IsTerminal(o)

\* A Batch settles too, except when a cancellation arrives after its thread has
\* read the cancellation flag for the last time.
BatchSettlesUnlessCancelledLast ==
  \A o \in BatchOps :
    state[o] = "queued" ~>
      IsTerminal(o) \/ (cancellation[o] /\ worker[o] \in {"finishSucceeded", "exit"})

\* A shutdown that began returns: no thread it joins waits for it.
ShutdownReturns == shutdown.pc = "cancel" ~> shutdown.pc = "done"
=============================================================================

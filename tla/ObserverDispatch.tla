-------------------------- MODULE ObserverDispatch --------------------------
(***************************************************************************)
(* How the snapshots of Model Operations reach the one installed observer  *)
(* (model_operation.rs, prepare_observed and publish_observed).            *)
(*                                                                         *)
(* A thread that changes an operation takes a revision inside the critical *)
(* section of the registry mutex, and publishes the snapshot after it has  *)
(* left it, so snapshots may be published in another order than they were  *)
(* taken.  A published snapshot waits in `pending` until its revision is   *)
(* due.  The thread that finds nobody draining becomes the drainer, and    *)
(* calls the observer outside every lock, for its own snapshots and for    *)
(* those that other threads publish meanwhile.                             *)
(*                                                                         *)
(* An action is one critical section, of the registry mutex (Prepare) or   *)
(* of the observer_dispatch mutex (Publish, Take), or one call of the      *)
(* observer (Deliver).                                                     *)
(***************************************************************************)
EXTENDS Integers, Sequences

CONSTANTS
  Threads,     \* workers, lanes and callers that change operations
  Snapshots,   \* what a snapshot may say
  MaxRevision  \* bound on the snapshots of one behaviour

ASSUME RevisionAssumption == MaxRevision \in Nat

VARIABLES
  observer_revision,  \* the revision the next snapshot takes
  next_revision,      \* the revision that is due
  pending,            \* revisions published and not yet taken
  draining,           \* has a thread taken on the delivery?
  pc,                 \* what each thread is doing
  own,                \* the revision a thread has prepared or has to deliver
  committed,          \* every snapshot, at the revision it took
  given               \* history: the snapshots the observer was called with

dispatch == <<next_revision, pending, draining>>
snapshots == <<committed, given>>
vars == <<observer_revision, dispatch, pc, own, snapshots>>

\* An observation is known by its revision: the snapshot it carries never
\* changes, and is committed[revision].
Revisions == 1..MaxRevision
None == 0

TypeOK ==
  /\ observer_revision \in 1..(MaxRevision + 1)
  /\ next_revision \in 1..(MaxRevision + 1)
  /\ pending \in SUBSET Revisions
  /\ draining \in BOOLEAN
  /\ pc \in [Threads -> {"idle", "prepared", "drain", "deliver"}]
  /\ own \in [Threads -> Revisions \cup {None}]
  /\ committed \in Seq(Snapshots)
  /\ given \in Seq(Snapshots)

Init ==
  /\ observer_revision = 1
  /\ next_revision = 1
  /\ pending = {}
  /\ draining = FALSE
  /\ pc = [t \in Threads |-> "idle"]
  /\ own = [t \in Threads |-> None]
  /\ committed = <<>>
  /\ given = <<>>

-----------------------------------------------------------------------------
\* prepare_observed, inside the critical section that made the change.
Prepare(t, s) ==
  /\ pc[t] = "idle"
  /\ observer_revision <= MaxRevision
  /\ observer_revision' = observer_revision + 1
  /\ own' = [own EXCEPT ![t] = observer_revision]
  /\ pc' = [pc EXCEPT ![t] = "prepared"]
  /\ committed' = Append(committed, s)
  /\ UNCHANGED <<dispatch, given>>

\* The first critical section of publish_observed: the snapshot joins the
\* pending ones, and its thread drains them unless another already does.
Publish(t) ==
  /\ pc[t] = "prepared"
  /\ pending' = pending \cup {own[t]}
  /\ own' = [own EXCEPT ![t] = None]
  /\ draining' = TRUE
  /\ pc' = [pc EXCEPT ![t] = IF draining THEN "idle" ELSE "drain"]
  /\ UNCHANGED <<observer_revision, next_revision, snapshots>>

\* Mutant: whatever was published first is delivered, due or not.
TakePublished(t) ==
  /\ pc[t] = "drain"
  /\ \E r \in pending :
       /\ pending' = pending \ {r}
       /\ own' = [own EXCEPT ![t] = r]
  /\ next_revision' = next_revision + 1
  /\ pc' = [pc EXCEPT ![t] = "deliver"]
  /\ UNCHANGED <<observer_revision, draining, snapshots>>

\* The drainer takes the snapshot that is due.
TakeDue(t) ==
  /\ pc[t] = "drain"
  /\ next_revision \in pending
  /\ pending' = pending \ {next_revision}
  /\ own' = [own EXCEPT ![t] = next_revision]
  /\ next_revision' = next_revision + 1
  /\ pc' = [pc EXCEPT ![t] = "deliver"]
  /\ UNCHANGED <<observer_revision, draining, snapshots>>

\* The snapshot that is due has not been published: the drainer leaves, and
\* the thread that publishes it will drain.
TakeNothing(t) ==
  /\ pc[t] = "drain"
  /\ next_revision \notin pending
  /\ draining' = FALSE
  /\ pc' = [pc EXCEPT ![t] = "idle"]
  /\ UNCHANGED <<observer_revision, next_revision, pending, own, snapshots>>

Take(t) == TakeDue(t) \/ TakeNothing(t)

\* Mutant: the drainer leaves after one delivery without looking again.
DeliverAndLeave(t) ==
  /\ pc[t] = "deliver"
  /\ given' = Append(given, committed[own[t]])
  /\ own' = [own EXCEPT ![t] = None]
  /\ pc' = [pc EXCEPT ![t] = "idle"]
  /\ draining' = FALSE
  /\ UNCHANGED <<observer_revision, next_revision, pending, committed>>

\* The observer is called outside every lock.
Deliver(t) ==
  /\ pc[t] = "deliver"
  /\ given' = Append(given, committed[own[t]])
  /\ own' = [own EXCEPT ![t] = None]
  /\ pc' = [pc EXCEPT ![t] = "drain"]
  /\ UNCHANGED <<observer_revision, dispatch, committed>>

Publishing(t) == Publish(t) \/ Take(t) \/ Deliver(t)

Next == \E t \in Threads : Publishing(t) \/ \E s \in Snapshots : Prepare(t, s)

Safety == Init /\ [][Next]_vars

\* A thread inside publish_observed goes on, and the observer returns; nobody
\* has to change an operation.
Spec == Safety /\ \A t \in Threads : WF_vars(Publishing(t))

-----------------------------------------------------------------------------
Drainers == {t \in Threads : pc[t] \in {"drain", "deliver"}}

\* Calls of the observer never overlap, although any thread may come to make
\* them.
OneDrainer == \A t, u \in Drainers : t = u

\* A snapshot that is due is never left behind: the thread that finds nobody
\* draining cannot miss the one that is about to leave.
NothingStranded == next_revision \in pending => draining /\ Drainers # {}

\* The observer is given every committed snapshot once, in the order of the
\* commits, and in the end all of them.
Log == INSTANCE SnapshotLog WITH
  log <- committed, seen <- given, MaxLog <- MaxRevision

ImplementsLog == Log!LogSpec
=============================================================================

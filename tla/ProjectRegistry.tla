-------------------------- MODULE ProjectRegistry --------------------------
(***************************************************************************)
(* The registry of Project sessions (project/registry.rs): one live        *)
(* session for each canonical root, the typed uses that keep it alive, the *)
(* transitions that close a root to admission while a session is being     *)
(* opened or cleaned up, the session's watcher thread, and the shutdown of *)
(* the registry.                                                           *)
(*                                                                         *)
(* A critical section of the registry mutex is one action, except that     *)
(* open_new_project holds it while it attaches the session to the Feedback *)
(* artifacts; `lock` is its holder then.  The mutexes of a session are     *)
(* never held while its thread waits for another, so each of their         *)
(* sections is one action.                                                 *)
(*                                                                         *)
(* A session is known by the caller that opened it, a use by the caller it *)
(* was given to, and a transition by the caller that made it and by what   *)
(* it was made for.                                                        *)
(***************************************************************************)
EXTENDS Naturals, FiniteSets

CONSTANTS
  Callers,            \* callers of open_project or acquire_use, each making one call
  Closers,            \* callers of close
  Roots,              \* canonical Project roots
  MaxSignals,         \* bound on the signals of one watcher
  PhotoshopConnected, \* has a Photoshop session to be told of changes?
  Nobody              \* no session, no transition, no holder

ASSUME CallerAssumption == Nobody \notin Callers
ASSUME SignalAssumption == MaxSignals \in Nat
ASSUME PhotoshopAssumption == PhotoshopConnected \in BOOLEAN

Reasons == {"open", "release"}
Transitions == Callers \X Reasons
ASSUME TransitionAssumption == Nobody \notin Transitions

VARIABLES
  lock,                \* who holds the registry mutex across actions
  closed,              \* is the registry closed?
  close_transition,    \* outcome of the transition of close
  sessions_by_root,    \* root -> the live session
  uses_by_root,        \* root -> the uses of its session
  transitions_by_root, \* root -> the transition that closes it to admission
  outcome,             \* transition -> its state, once it is made
  pc,                  \* what each caller is doing
  root,                \* the root a caller asked for
  waits,               \* the transition a caller waits for
  victim,              \* the session whose last use a caller released
  published,           \* sessions that are published
  session_closed,      \* sessions that are closed
  closing,             \* session -> how far ProjectSession::close has come
  worker,              \* session -> its watcher thread
  stopping,            \* sessions whose watcher was told to stop
  signals,             \* session -> signals its watcher has had
  route,               \* root -> the session Feedback artifacts report to
  scheduler,           \* the Feedback artifact scheduler
  close_pc,            \* what each caller of close is doing
  drained,             \* sessions close has still to close
  awaited,             \* transitions close has still to wait for
  current,             \* the session close is closing
  failure              \* has close met a failure?

maps == <<sessions_by_root, uses_by_root, transitions_by_root>>
call == <<root, waits, victim>>
session == <<published, session_closed, closing>>
watcher == <<worker, stopping, signals>>
shutdown == <<closed, close_transition, close_pc, drained, awaited, current, failure>>
others == <<session, watcher, route, scheduler, shutdown>>
vars == <<lock, maps, outcome, pc, call, others>>

CallerPc ==
  {"idle", "asked", "wait", "load", "refresh", "unwatch", "failed", "fails", "ready",
   "attach", "wedged", "finish", "discard", "held", "releasing", "settle", "refused", "done"}

TypeOK ==
  /\ lock \in Callers \cup {Nobody}
  /\ closed \in BOOLEAN
  /\ close_transition \in {"none", "pending", "ok", "unclean"}
  /\ sessions_by_root \in [Roots -> Callers \cup {Nobody}]
  /\ uses_by_root \in [Roots -> SUBSET Callers]
  /\ transitions_by_root \in [Roots -> Transitions \cup {Nobody}]
  /\ outcome \in [Transitions -> {"none", "pending", "ok", "failed", "unclean"}]
  /\ pc \in [Callers -> CallerPc]
  /\ root \in [Callers -> Roots]
  /\ waits \in [Callers -> Transitions \cup {Nobody}]
  /\ victim \in [Callers -> Callers \cup {Nobody}]
  /\ published \in SUBSET Callers
  /\ session_closed \in SUBSET Callers
  /\ closing \in [Callers -> {"no", "mark", "publish", "join", "detach", "ok", "failed"}]
  /\ worker \in [Callers -> {"none", "idle", "signal", "change", "stopped"}]
  /\ stopping \in SUBSET Callers
  /\ signals \in [Callers -> 0..MaxSignals]
  /\ route \in [Roots -> Callers \cup {Nobody}]
  /\ scheduler \in {"running", "stopped"}
  /\ close_pc \in [Closers -> {"idle", "drain", "close", "await", "returned"}]
  /\ drained \in SUBSET Callers
  /\ awaited \in SUBSET Transitions
  /\ current \in Callers \cup {Nobody}
  /\ failure \in BOOLEAN

Init ==
  /\ lock = Nobody
  /\ closed = FALSE
  /\ close_transition = "none"
  /\ sessions_by_root = [r \in Roots |-> Nobody]
  /\ uses_by_root = [r \in Roots |-> {}]
  /\ transitions_by_root = [r \in Roots |-> Nobody]
  /\ outcome = [t \in Transitions |-> "none"]
  /\ pc = [c \in Callers |-> "idle"]
  /\ root \in [Callers -> Roots]
  /\ waits = [c \in Callers |-> Nobody]
  /\ victim = [c \in Callers |-> Nobody]
  /\ published = {}
  /\ session_closed = {}
  /\ closing = [c \in Callers |-> "no"]
  /\ worker = [c \in Callers |-> "none"]
  /\ stopping = {}
  /\ signals = [c \in Callers |-> 0]
  /\ route = [r \in Roots |-> Nobody]
  /\ scheduler = "running"
  /\ close_pc = [k \in Closers |-> "idle"]
  /\ drained = {}
  /\ awaited = {}
  /\ current = Nobody
  /\ failure = FALSE

Free == lock = Nobody
Becomes(c, stage) == pc' = [pc EXCEPT ![c] = stage]
Finish(t, result) == outcome' = [outcome EXCEPT ![t] = result]

-----------------------------------------------------------------------------
\* open_project, up to the transition that makes this caller the opener.
Ask(c) ==
  /\ pc[c] = "idle"
  /\ Becomes(c, "asked")
  /\ UNCHANGED <<lock, maps, outcome, call, others>>

Refuse(c) ==
  /\ Becomes(c, "refused")
  /\ UNCHANGED <<lock, maps, outcome, call, others>>

\* add_use, for a session that is live.
Share(c) ==
  /\ uses_by_root' = [uses_by_root EXCEPT ![root[c]] = @ \cup {c}]
  /\ Becomes(c, "held")
  /\ UNCHANGED <<lock, sessions_by_root, transitions_by_root, outcome, call, others>>

OpenRefused(c) == pc[c] = "asked" /\ Free /\ closed /\ Refuse(c)

OpenShares(c) ==
  /\ pc[c] = "asked"
  /\ Free
  /\ ~closed
  /\ sessions_by_root[root[c]] # Nobody
  /\ Share(c)

OpenWaits(c) ==
  /\ pc[c] = "asked"
  /\ Free
  /\ ~closed
  /\ sessions_by_root[root[c]] = Nobody
  /\ transitions_by_root[root[c]] # Nobody
  /\ waits' = [waits EXCEPT ![c] = transitions_by_root[root[c]]]
  /\ Becomes(c, "wait")
  /\ UNCHANGED <<lock, maps, outcome, root, victim, others>>

\* Mutant: a root whose session is being cleaned up can be opened.
OpenBeginsEarly(c) ==
  /\ pc[c] = "asked"
  /\ Free
  /\ ~closed
  /\ sessions_by_root[root[c]] = Nobody
  /\ transitions_by_root' = [transitions_by_root EXCEPT ![root[c]] = <<c, "open">>]
  /\ Finish(<<c, "open">>, "pending")
  /\ Becomes(c, "load")
  /\ UNCHANGED <<lock, sessions_by_root, uses_by_root, call, others>>

OpenBegins(c) ==
  /\ pc[c] = "asked"
  /\ Free
  /\ ~closed
  /\ sessions_by_root[root[c]] = Nobody
  /\ transitions_by_root[root[c]] = Nobody
  /\ transitions_by_root' = [transitions_by_root EXCEPT ![root[c]] = <<c, "open">>]
  /\ Finish(<<c, "open">>, "pending")
  /\ Becomes(c, "load")
  /\ UNCHANGED <<lock, sessions_by_root, uses_by_root, call, others>>

\* RootTransition::wait: a failure is returned, a success tries again.
Waited(c) ==
  /\ pc[c] = "wait"
  /\ outcome[waits[c]] # "pending"
  /\ Becomes(c, IF outcome[waits[c]] = "ok" THEN "asked" ELSE "refused")
  /\ UNCHANGED <<lock, maps, outcome, call, others>>

-----------------------------------------------------------------------------
\* open_new_project: the session is prepared outside the lock, with a watcher
\* that must wait for the publication.
LoadFails(c) ==
  /\ pc[c] = "load"
  /\ Becomes(c, "failed")
  /\ UNCHANGED <<lock, maps, outcome, call, others>>

Load(c) ==
  /\ pc[c] = "load"
  /\ worker' = [worker EXCEPT ![c] = "idle"]
  /\ Becomes(c, "refresh")
  /\ UNCHANGED <<lock, maps, outcome, call, session, stopping, signals, route,
                 scheduler, shutdown>>

Refreshed(c) ==
  /\ pc[c] = "refresh"
  /\ Becomes(c, "ready")
  /\ UNCHANGED <<lock, maps, outcome, call, others>>

RefreshFails(c) ==
  /\ pc[c] = "refresh"
  /\ published' = published \cup {c}
  /\ stopping' = stopping \cup {c}
  /\ Becomes(c, "unwatch")
  /\ UNCHANGED <<lock, maps, outcome, call, session_closed, closing, worker,
                 signals, route, scheduler, shutdown>>

Unwatched(c) ==
  /\ pc[c] = "unwatch"
  /\ worker[c] = "stopped"
  /\ Becomes(c, "failed")
  /\ UNCHANGED <<lock, maps, outcome, call, others>>

\* The opener leaves its root: first the map, then, outside the lock, whoever
\* waits on the transition.
LeaveRoot(c) == transitions_by_root' = [transitions_by_root EXCEPT ![root[c]] = Nobody]

OpenFails(c) ==
  /\ pc[c] = "failed"
  /\ Free
  /\ LeaveRoot(c)
  /\ Becomes(c, "fails")
  /\ UNCHANGED <<lock, sessions_by_root, uses_by_root, outcome, call, others>>

OpenFailed(c) ==
  /\ pc[c] = "fails"
  /\ Finish(<<c, "open">>, "failed")
  /\ Becomes(c, "refused")
  /\ UNCHANGED <<lock, maps, call, others>>

\* The registry is open: the session is live, with its first use, and the
\* lock is kept.
OpenInstalls(c) ==
  /\ pc[c] = "ready"
  /\ Free
  /\ ~closed
  /\ LeaveRoot(c)
  /\ sessions_by_root' = [sessions_by_root EXCEPT ![root[c]] = c]
  /\ uses_by_root' = [uses_by_root EXCEPT ![root[c]] = @ \cup {c}]
  /\ published' = published \cup {c}
  /\ lock' = c
  /\ Becomes(c, "attach")
  /\ UNCHANGED <<outcome, call, session_closed, closing, watcher, route,
                 scheduler, shutdown>>

\* The registry was closed meanwhile: the session is closed again.
OpenDiscards(c) ==
  /\ pc[c] = "ready"
  /\ Free
  /\ closed
  /\ LeaveRoot(c)
  /\ closing' = [closing EXCEPT ![c] = "mark"]
  /\ Becomes(c, "discard")
  /\ UNCHANGED <<lock, sessions_by_root, uses_by_root, outcome, call, published,
                 session_closed, watcher, route, scheduler, shutdown>>

Closed(s) == closing[s] \in {"ok", "failed"}

Discarded(c) ==
  /\ pc[c] = "discard"
  /\ Closed(c)
  /\ Finish(<<c, "open">>, IF closing[c] = "ok" THEN "failed" ELSE "unclean")
  /\ Becomes(c, "refused")
  /\ UNCHANGED <<lock, maps, call, others>>

\* CanvasFeedbackArtifacts::attach.  The scheduler takes the document ...
Attach(c) ==
  /\ pc[c] = "attach"
  /\ scheduler = "running"
  /\ route' = [route EXCEPT ![root[c]] = c]
  /\ lock' = Nobody
  /\ Becomes(c, "finish")
  /\ UNCHANGED <<maps, outcome, call, session, watcher, scheduler, shutdown>>

\* ... or its queue is full, or it has stopped: a diagnostic is applied to the
\* session, and on_change, which has to list the sessions if a Photoshop
\* session is there to be told, is called with the registry mutex held.
AttachReports(c) ==
  /\ pc[c] = "attach"
  /\ route' = [route EXCEPT ![root[c]] = c]
  /\ IF PhotoshopConnected
     THEN UNCHANGED lock /\ Becomes(c, "wedged")
     ELSE lock' = Nobody /\ Becomes(c, "finish")
  /\ UNCHANGED <<maps, outcome, call, session, watcher, scheduler, shutdown>>

OpenFinishes(c) ==
  /\ pc[c] = "finish"
  /\ Finish(<<c, "open">>, "ok")
  /\ Becomes(c, "held")
  /\ UNCHANGED <<lock, maps, call, others>>

\* acquire_use, of a session that some other use keeps live.
AcquireRefused(c) ==
  /\ pc[c] = "idle"
  /\ Free
  /\ closed \/ sessions_by_root[root[c]] = Nobody
  /\ Refuse(c)

Acquire(c) ==
  /\ pc[c] = "idle"
  /\ Free
  /\ ~closed
  /\ sessions_by_root[root[c]] # Nobody
  /\ Share(c)

-----------------------------------------------------------------------------
\* release_use: nothing to do if the registry was closed, and others may
\* still hold a use ...
ReleaseLeaves(c) ==
  /\ pc[c] = "held"
  /\ Free
  /\ uses_by_root[root[c]] # {c}
  /\ uses_by_root' = [uses_by_root EXCEPT ![root[c]] = @ \ {c}]
  /\ Becomes(c, "done")
  /\ UNCHANGED <<lock, sessions_by_root, transitions_by_root, outcome, call, others>>

\* Mutant: the session goes with any of its uses.
ReleaseAny(c) ==
  /\ pc[c] = "held"
  /\ Free
  /\ c \in uses_by_root[root[c]]
  /\ uses_by_root' = [uses_by_root EXCEPT ![root[c]] = {}]
  /\ sessions_by_root' = [sessions_by_root EXCEPT ![root[c]] = Nobody]
  /\ transitions_by_root' = [transitions_by_root EXCEPT ![root[c]] = <<c, "release">>]
  /\ victim' = [victim EXCEPT ![c] = sessions_by_root[root[c]]]
  /\ closing' = [closing EXCEPT ![sessions_by_root[root[c]]] = "mark"]
  /\ Finish(<<c, "release">>, "pending")
  /\ Becomes(c, "releasing")
  /\ UNCHANGED <<lock, root, waits, published, session_closed, watcher, route, scheduler, shutdown>>

\* ... or this was the last use: the session is no longer live and its root is
\* closed to admission, in one section.
ReleaseLast(c) ==
  /\ pc[c] = "held"
  /\ Free
  /\ uses_by_root[root[c]] = {c}
  /\ uses_by_root' = [uses_by_root EXCEPT ![root[c]] = {}]
  /\ sessions_by_root' = [sessions_by_root EXCEPT ![root[c]] = Nobody]
  /\ transitions_by_root' = [transitions_by_root EXCEPT ![root[c]] = <<c, "release">>]
  /\ victim' = [victim EXCEPT ![c] = sessions_by_root[root[c]]]
  /\ closing' = [closing EXCEPT ![sessions_by_root[root[c]]] = "mark"]
  /\ Finish(<<c, "release">>, "pending")
  /\ Becomes(c, "releasing")
  /\ UNCHANGED <<lock, root, waits, published, session_closed, watcher, route, scheduler, shutdown>>

\* The cleanup succeeded: the root is opened to admission again.
Released(c) ==
  /\ pc[c] = "releasing"
  /\ closing[victim[c]] = "ok"
  /\ Free
  /\ LeaveRoot(c)
  /\ Becomes(c, "settle")
  /\ UNCHANGED <<lock, sessions_by_root, uses_by_root, outcome, call, others>>

Settle(c) ==
  /\ pc[c] = "settle"
  /\ Finish(<<c, "release">>, "ok")
  /\ Becomes(c, "done")
  /\ UNCHANGED <<lock, maps, call, others>>

\* The cleanup failed: the transition stays, with its failure.
ReleaseFails(c) ==
  /\ pc[c] = "releasing"
  /\ closing[victim[c]] = "failed"
  /\ Finish(<<c, "release">>, "unclean")
  /\ Becomes(c, "done")
  /\ UNCHANGED <<lock, maps, call, others>>

-----------------------------------------------------------------------------
\* ProjectSession::close, by the one thread that took the session out of the
\* map (or never put it in).
Stage(s, from, to) == closing[s] = from /\ closing' = [closing EXCEPT ![s] = to]

CloseMark(s) ==
  /\ Stage(s, "mark", "publish")
  /\ session_closed' = session_closed \cup {s}
  /\ UNCHANGED <<lock, maps, outcome, pc, call, published, watcher, route, scheduler, shutdown>>

\* publish, then close_watcher up to the join.
ClosePublish(s) ==
  /\ Stage(s, "publish", "join")
  /\ published' = published \cup {s}
  /\ stopping' = stopping \cup {s}
  /\ UNCHANGED <<lock, maps, outcome, pc, call, session_closed, worker, signals, route,
                 scheduler, shutdown>>

CloseJoin(s) ==
  /\ Stage(s, "join", "detach")
  /\ worker[s] = "stopped"
  /\ UNCHANGED <<lock, maps, outcome, pc, call, published, session_closed, watcher, route,
                 scheduler, shutdown>>

\* CanvasFeedbackArtifacts::detach: nothing to do without a route, or the
\* scheduler takes the cancellation ...
Detach(s) ==
  /\ Stage(s, "detach", "ok")
  /\ route[root[s]] # Nobody => scheduler = "running"
  /\ route' = [route EXCEPT ![root[s]] = Nobody]
  /\ UNCHANGED <<lock, maps, outcome, pc, call, published, session_closed, watcher, scheduler,
                 shutdown>>

\* ... or its queue is full, or it has stopped.
DetachFails(s) ==
  /\ Stage(s, "detach", "failed")
  /\ route[root[s]] # Nobody
  /\ UNCHANGED <<lock, maps, outcome, pc, call, published, session_closed, watcher, route,
                 scheduler, shutdown>>

SchedulerStops ==
  /\ scheduler = "running"
  /\ scheduler' = "stopped"
  /\ UNCHANGED <<lock, maps, outcome, pc, call, session, watcher, route, shutdown>>

-----------------------------------------------------------------------------
\* The watcher thread of a session.
Works(s, from, to) == worker[s] = from /\ worker' = [worker EXCEPT ![s] = to]

\* A burst of events is ready, or the backend lost some.
Signal(s) ==
  /\ Works(s, "idle", "signal")
  /\ signals[s] < MaxSignals
  /\ signals' = [signals EXCEPT ![s] = @ + 1]
  /\ UNCHANGED <<lock, maps, outcome, pc, call, session, stopping, route, scheduler, shutdown>>

\* Mutant: close keeps the locks of the session until the watcher is joined.
IgnoreUnlessClosed(s) ==
  /\ Works(s, "signal", "idle")
  /\ s \in published
  /\ s \notin session_closed
  /\ UNCHANGED <<lock, maps, outcome, pc, call, session, stopping, signals, route, scheduler,
                 shutdown>>

\* wait_until_published, then the refresh: refused by a closed session, or
\* without a change ...
Ignore(s) ==
  /\ Works(s, "signal", "idle")
  /\ s \in published
  /\ UNCHANGED <<lock, maps, outcome, pc, call, session, stopping, signals, route, scheduler,
                 shutdown>>

\* ... or with a change, of which on_change is told.
Change(s) ==
  /\ Works(s, "signal", "change")
  /\ s \in published
  /\ s \notin session_closed
  /\ UNCHANGED <<lock, maps, outcome, pc, call, session, stopping, signals, route, scheduler,
                 shutdown>>

\* on_change lists the sessions for a Photoshop session, under the registry mutex.
Notify(s) ==
  /\ Works(s, "change", "idle")
  /\ PhotoshopConnected => Free
  /\ UNCHANGED <<lock, maps, outcome, pc, call, session, stopping, signals, route, scheduler,
                 shutdown>>

Stop(s) ==
  /\ Works(s, "idle", "stopped")
  /\ s \in stopping
  /\ UNCHANGED <<lock, maps, outcome, pc, call, session, stopping, signals, route, scheduler,
                 shutdown>>

-----------------------------------------------------------------------------
\* ProjectSessionRegistry::close.  The first caller closes every session and
\* waits for the transitions under way; the others wait for the first.

Live == {sessions_by_root[r] : r \in Roots} \ {Nobody}
UnderWay == {transitions_by_root[r] : r \in Roots} \ {Nobody}

\* Mutant: a root that is being opened or cleaned up is not waited for.
CloseBeginsAlone(k) ==
  /\ close_pc[k] = "idle"
  /\ Free
  /\ ~closed
  /\ closed' = TRUE
  /\ close_transition' = "pending"
  /\ drained' = Live
  /\ sessions_by_root' = [r \in Roots |-> Nobody]
  /\ uses_by_root' = [r \in Roots |-> {}]
  /\ close_pc' = [close_pc EXCEPT ![k] = "drain"]
  /\ UNCHANGED <<lock, transitions_by_root, outcome, pc, call, session, watcher, route,
                 scheduler, awaited, current, failure>>

CloseBegins(k) ==
  /\ close_pc[k] = "idle"
  /\ Free
  /\ ~closed
  /\ closed' = TRUE
  /\ close_transition' = "pending"
  /\ drained' = Live
  /\ awaited' = UnderWay
  /\ sessions_by_root' = [r \in Roots |-> Nobody]
  /\ uses_by_root' = [r \in Roots |-> {}]
  /\ close_pc' = [close_pc EXCEPT ![k] = "drain"]
  /\ UNCHANGED <<lock, transitions_by_root, outcome, pc, call, session, watcher, route,
                 scheduler, current, failure>>

CloseFollows(k) ==
  /\ close_pc[k] = "idle"
  /\ Free
  /\ closed
  /\ close_pc' = [close_pc EXCEPT ![k] = "await"]
  /\ UNCHANGED <<lock, maps, outcome, pc, call, session, watcher, route, scheduler, closed,
                 close_transition, drained, awaited, current, failure>>

CloseNext(k) ==
  /\ close_pc[k] = "drain"
  /\ \E s \in drained :
       /\ drained' = drained \ {s}
       /\ current' = s
       /\ closing' = [closing EXCEPT ![s] = "mark"]
  /\ close_pc' = [close_pc EXCEPT ![k] = "close"]
  /\ UNCHANGED <<lock, maps, outcome, pc, call, published, session_closed, watcher, route,
                 scheduler, closed, close_transition, awaited, failure>>

CloseOne(k) ==
  /\ close_pc[k] = "close"
  /\ Closed(current)
  /\ failure' = (failure \/ closing[current] = "failed")
  /\ close_pc' = [close_pc EXCEPT ![k] = "drain"]
  /\ UNCHANGED <<lock, maps, outcome, pc, call, session, watcher, route, scheduler, closed,
                 close_transition, drained, awaited, current>>

CloseSettles(k) ==
  /\ close_pc[k] = "drain"
  /\ drained = {}
  /\ \A t \in awaited : outcome[t] # "pending"
  /\ close_transition' =
       IF failure \/ \E t \in awaited : outcome[t] = "unclean" THEN "unclean" ELSE "ok"
  /\ close_pc' = [close_pc EXCEPT ![k] = "await"]
  /\ UNCHANGED <<lock, maps, outcome, pc, call, session, watcher, route, scheduler, closed,
                 drained, awaited, current, failure>>

CloseReturns(k) ==
  /\ close_pc[k] = "await"
  /\ close_transition # "pending"
  /\ close_pc' = [close_pc EXCEPT ![k] = "returned"]
  /\ UNCHANGED <<lock, maps, outcome, pc, call, session, watcher, route, scheduler, closed,
                 close_transition, drained, awaited, current, failure>>

-----------------------------------------------------------------------------
\* A caller's own steps, after it has asked.
Open(c) ==
  \/ OpenRefused(c) \/ OpenShares(c) \/ OpenWaits(c) \/ OpenBegins(c) \/ Waited(c)
  \/ LoadFails(c) \/ Load(c) \/ Refreshed(c) \/ RefreshFails(c) \/ Unwatched(c)
  \/ OpenFails(c) \/ OpenFailed(c) \/ OpenInstalls(c) \/ OpenDiscards(c) \/ Discarded(c)
  \/ Attach(c) \/ AttachReports(c) \/ OpenFinishes(c)

Release(c) == Released(c) \/ Settle(c) \/ ReleaseFails(c)

CloseSession(s) ==
  CloseMark(s) \/ ClosePublish(s) \/ CloseJoin(s) \/ Detach(s) \/ DetachFails(s)

Watch(s) == Ignore(s) \/ Change(s) \/ Notify(s) \/ Stop(s)

Close(k) ==
  CloseNext(k) \/ CloseOne(k) \/ CloseSettles(k) \/ CloseReturns(k)

Next ==
  \/ \E c \in Callers :
       \/ Ask(c) \/ AcquireRefused(c) \/ Acquire(c) \/ ReleaseLeaves(c) \/ ReleaseLast(c)
       \/ Open(c) \/ Release(c) \/ CloseSession(c) \/ Signal(c) \/ Watch(c)
  \/ \E k \in Closers : CloseBegins(k) \/ CloseFollows(k) \/ Close(k)
  \/ SchedulerStops

Safety == Init /\ [][Next]_vars

\* Every thread that is inside an operation goes on; nobody has to ask, to
\* release a use, to close the registry or to change a file.
Spec ==
  /\ Safety
  /\ \A c \in Callers :
       WF_vars(Open(c)) /\ WF_vars(Release(c)) /\ WF_vars(CloseSession(c)) /\ WF_vars(Watch(c))
  /\ \A k \in Closers : WF_vars(Close(k))

-----------------------------------------------------------------------------
\* A session has a claim on its root from the moment its watcher starts until
\* its cleanup has succeeded.
Owns(s) ==
  /\ worker[s] # "none"
  /\ closing[s] # "ok"
  /\ pc[s] \notin {"failed", "fails", "refused"} \/ worker[s] # "stopped"

\* At no moment do two sessions have a claim on one root: a session that is
\* being opened, is live, is being cleaned up, or whose cleanup failed, keeps
\* every other out.
OneSessionPerRoot == \A s, u \in Callers : Owns(s) /\ Owns(u) /\ root[s] = root[u] => s = u

\* A use keeps its session live: until its holder lets it go or the registry
\* is closed, the session is in the registry and open.  And a session is live
\* only while somebody holds a use.
UseKeepsSession ==
  /\ \A c \in Callers : pc[c] = "held" /\ ~closed =>
       /\ c \in uses_by_root[root[c]]
       /\ sessions_by_root[root[c]] \notin session_closed \cup {Nobody}
  /\ \A r \in Roots : (sessions_by_root[r] = Nobody) <=> (uses_by_root[r] = {})

\* The sessions that list sees are published, open and watched: the Photoshop
\* projection panics on a session that cannot be summarised.
ListedAreOpen ==
  \A s \in Live : s \in published /\ s \notin session_closed \cup stopping

\* When close returns without an error nothing is left behind: no session is
\* open or uncleaned, no watcher runs and no root is closed to admission by a
\* failure.
CloseLeavesNothing ==
  close_transition = "ok" =>
    \A s \in Callers : ~Owns(s) /\ worker[s] \in {"none", "stopped"} /\ closing[s] # "failed"

\* A root whose cleanup failed is never opened again, and who asks for it is
\* told so.
FailureIsRetained ==
  \A c \in Callers :
    outcome[<<c, "release">>] = "unclean" => transitions_by_root[root[c]] = <<c, "release">>

\* The hazard of AttachReports: its thread waits for the registry mutex it holds.
Wedged == \E c \in Callers : pc[c] = "wedged"

\* Unless a thread has locked itself out of the registry, every open returns,
\* every use that is let go is cleaned up after and every close returns, whatever
\* the watcher threads and the other calls are doing.
CallsReturnUnlessWedged ==
  /\ \A c \in Callers :
       /\ pc[c] = "asked" ~> pc[c] \in {"held", "refused", "done"} \/ Wedged
       /\ pc[c] = "releasing" ~> pc[c] = "done" \/ Wedged
  /\ \A k \in Closers :
       close_pc[k] \in {"drain", "await"} ~> close_pc[k] = "returned" \/ Wedged
=============================================================================

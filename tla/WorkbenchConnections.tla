------------------------ MODULE WorkbenchConnections ------------------------
(***************************************************************************)
(* The Workbench connections of a Runtime (workbench/connections.rs), the  *)
(* attempts to bind a Project to one of them and the threads that forward  *)
(* a Project's events to it (workbench/services.rs), the thread that       *)
(* closes connections, and what the web client makes of the frames it      *)
(* reads (apps/web, WorkbenchProjectProjection.ts).                        *)
(*                                                                         *)
(* Two mutexes guard the registry.  `inner` is held for one action at a    *)
(* time and is not a variable.  `binding_transaction` is held by whoever   *)
(* changes a binding or removes a connection while it waits, gate by gate, *)
(* for the Project requests in flight; `transaction` is its holder, and    *)
(* `gates` the connections whose requests it still has to wait for.        *)
(*                                                                         *)
(* A binding is known by the attempt that made it: binding ids are fresh.  *)
(* The frames of a connection are read in the order they were sent and by  *)
(* one reader, so what the client makes of a frame is computed when it is  *)
(* sent; a send fails if the client is gone, and may fail otherwise        *)
(* because Global and Activity frames fill the same queue.                 *)
(***************************************************************************)
EXTENDS Naturals, FiniteSets, Sequences

CONSTANTS
  Conns,         \* connections that clients may open
  Roots,         \* canonical Project roots
  Binds,         \* attempts to bind, each making one OpenProject or ReplaceProject call
  Requests,      \* requests scoped to a binding
  QueueCapacity, \* events a subscription can hold
  Lagging,       \* connections whose Global or Activity forwarder may lag behind
  Leaving,       \* connections whose client may leave by itself
  ShutsDown,     \* may the Runtime shut down?
  Changing,      \* the roots whose sessions change
  MaxRevision,   \* bound on the revisions of a session
  Nobody         \* no connection, no binding, no root, no holder

ASSUME ShutdownAssumption == ShutsDown \in BOOLEAN
ASSUME CapacityAssumption == QueueCapacity \in Nat \ {0}
ASSUME RevisionAssumption == MaxRevision \in Nat \ {0}

VARIABLES
  admission,     \* are connections admitted?
  records,       \* connections that are registered
  closing,       \* connections that were told to close
  owner_by_root, \* root -> the connection it is bound to
  binding,       \* connection -> its binding
  generation,    \* connection -> how often its binding has changed
  transaction,   \* who holds the binding transaction
  gates,         \* gates the holder has still to drain
  transitioning, \* gates that admit no request
  pc,            \* what each attempt is doing
  conn,          \* the connection of an attempt
  root,          \* the root of an attempt
  source,        \* the binding an attempt replaces
  expected,      \* the generation an attempt expects
  victim,        \* the connection an attempt has to close
  revision,      \* root -> the revision of its session
  observers,     \* attempts subscribed to the session of their root
  snapshot,      \* attempt -> the revision its subscription begins with
  queue,         \* attempt -> events its subscription holds
  forwarder,     \* attempt -> its stream thread
  client,        \* connection -> the client at the other end of its response stream
  lease,         \* request -> the connection and binding it holds a lease of
  commands,      \* commands for the closer thread
  closer,        \* what the closer thread is doing
  main           \* how far the shutdown has come

registry == <<records, closing, owner_by_root, binding, generation>>
mutexes == <<transaction, gates, transitioning>>
attempt == <<pc, conn, root, source, expected, victim>>
project == <<revision, observers, snapshot, queue, forwarder>>
shutdown == <<admission, commands, closer, main>>
vars == <<registry, mutexes, attempt, project, client, lease, shutdown>>

Opt(S) == S \cup {Nobody}
Clients == [status : {"none", "unbound", "bound", "detached", "retired", "gap", "gone"},
            binding : Opt(Binds), revision : 0..MaxRevision]
Unbound(status) == [status |-> status, binding |-> Nobody, revision |-> 0]
Holders == {"bind", "displace", "abandon", "stream"} \X Binds \cup {"connection"} \X Conns
             \cup {<<"all", Nobody>>}

ASSUME NobodyAssumption == /\ Nobody \notin Conns \cup Roots \cup Binds
                           /\ Nobody \notin Holders
                           /\ Nobody \notin Conns \X Binds

TypeOK ==
  /\ admission \in BOOLEAN
  /\ records \in SUBSET Conns
  /\ closing \in SUBSET Conns
  /\ owner_by_root \in [Roots -> Opt(Conns)]
  /\ binding \in [Conns -> Opt(Binds)]
  /\ generation \in [Conns -> 0..2 * Cardinality(Binds)]
  /\ transaction \in Opt(Holders)
  /\ gates \in SUBSET Conns
  /\ transitioning \in SUBSET Conns
  /\ pc \in [Binds -> {"idle", "asked", "prepared", "drain", "displace", "bound",
                       "abandon", "streaming", "already", "refused"}]
  /\ conn \in [Binds -> Opt(Conns)]
  /\ root \in [Binds -> Opt(Roots)]
  /\ source \in [Binds -> Opt(Binds)]
  /\ expected \in [Binds -> 0..2 * Cardinality(Binds)]
  /\ victim \in [Binds -> Opt(Conns)]
  /\ revision \in [Roots -> 1..MaxRevision]
  /\ observers \in SUBSET Binds
  /\ snapshot \in [Binds -> 0..MaxRevision]
  /\ queue \in [Binds -> UNION {[1..n -> 1..MaxRevision] : n \in 0..QueueCapacity}]
  /\ forwarder \in [Binds -> {"none", "check", "receive", "ended", "drain", "gone"}]
  /\ client \in [Conns -> Clients]
  /\ lease \in [Requests -> Opt(Conns \X Binds)]
  /\ \A i \in 1..Len(commands) :
       commands[i] \in {"connection"} \X Conns \cup {"all", "shutdown"} \X {Nobody}
  /\ closer \in {"receiving", "closing", "stopped"}
  /\ main \in {"serving", "refusing", "draining", "joining"}

Init ==
  /\ admission = TRUE
  /\ records = {}
  /\ closing = {}
  /\ owner_by_root = [r \in Roots |-> Nobody]
  /\ binding = [c \in Conns |-> Nobody]
  /\ generation = [c \in Conns |-> 0]
  /\ transaction = Nobody
  /\ gates = {}
  /\ transitioning = {}
  /\ pc = [b \in Binds |-> "idle"]
  /\ conn = [b \in Binds |-> Nobody]
  /\ root = [b \in Binds |-> Nobody]
  /\ source = [b \in Binds |-> Nobody]
  /\ expected = [b \in Binds |-> 0]
  /\ victim = [b \in Binds |-> Nobody]
  /\ revision = [r \in Roots |-> 1]
  /\ observers = {}
  /\ snapshot = [b \in Binds |-> 0]
  /\ queue = [b \in Binds |-> <<>>]
  /\ forwarder = [b \in Binds |-> "none"]
  /\ client = [c \in Conns |-> Unbound("none")]
  /\ lease = [q \in Requests |-> Nobody]
  /\ commands = <<>>
  /\ closer = "receiving"
  /\ main = "serving"

Becomes(b, stage) == pc' = [pc EXCEPT ![b] = stage]
Forwards(b, stage) == forwarder' = [forwarder EXCEPT ![b] = stage]

\* The connections a request must be over with before the holder goes on.
Busy(c) == \E q \in Requests, b \in Binds : lease[q] = <<c, b>>

-----------------------------------------------------------------------------
\* What the client makes of the frames it reads.
AcceptBound(b) == [status |-> "bound", binding |-> b, revision |-> snapshot[b]]

AcceptPreempted(c, b) ==
  IF client[c].status = "bound" /\ client[c].binding = b
  THEN [client[c] EXCEPT !.status = "detached"]
  ELSE client[c]

AcceptEvent(c, b, n) ==
  IF client[c].status \in {"retired", "gap"} THEN client[c]
  ELSE IF client[c].status # "bound" \/ client[c].binding # b
  THEN [client[c] EXCEPT !.status = "retired"]
  ELSE IF n # client[c].revision + 1 THEN [client[c] EXCEPT !.status = "gap"]
  ELSE [client[c] EXCEPT !.revision = n]

-----------------------------------------------------------------------------
\* open, request_close and the end of a response stream.

Open(c) ==
  /\ client[c].status = "none"
  /\ admission
  /\ records' = records \cup {c}
  /\ client' = [client EXCEPT ![c] = Unbound("unbound")]
  /\ UNCHANGED <<closing, owner_by_root, binding, generation, mutexes, attempt, project,
                 lease, shutdown>>

\* Is there somebody to read the frames of c?
Reads(c) == client[c].status \notin {"none", "gone"}

\* The closer is sent a command by whoever is first to signal the connection.
RequestClose(c) ==
  IF c \in records \ closing
  THEN closing' = closing \cup {c} /\ commands' = Append(commands, <<"connection", c>>)
  ELSE UNCHANGED <<closing, commands>>

\* A Global or Activity forwarder lags behind or finds the queue full.
ForwarderLags(c) ==
  /\ c \in Lagging
  /\ c \in records \ closing
  /\ RequestClose(c)
  /\ UNCHANGED <<records, owner_by_root, binding, generation, mutexes, attempt, project,
                 client, lease, admission, closer, main>>

\* The response stream is dropped, by the client or because the connection is
\* closing, and its guard asks for the close.
StreamDropped(c) ==
  /\ Reads(c)
  /\ c \in Leaving \cup closing
  /\ client' = [client EXCEPT ![c] = Unbound("gone")]
  /\ RequestClose(c)
  /\ UNCHANGED <<records, owner_by_root, binding, generation, mutexes, attempt, project,
                 lease, admission, closer, main>>

-----------------------------------------------------------------------------
\* Is b the binding of c?  A binding id has one generation.
Matches(c, b) == c \in records /\ binding[c] = b

\* Mutant: a gate in transition admits requests.
AcquireAlways(q, c) ==
  /\ lease[q] = Nobody
  /\ c \in records \ closing
  /\ binding[c] # Nobody
  /\ lease' = [lease EXCEPT ![q] = <<c, binding[c]>>]
  /\ UNCHANGED <<registry, mutexes, attempt, project, client, shutdown>>

\* acquire_project_binding_with_lifetime, which checks again all that the
\* request has read of its connection.
Acquire(q, c) ==
  /\ lease[q] = Nobody
  /\ c \in records \ (closing \cup transitioning)
  /\ binding[c] # Nobody
  /\ lease' = [lease EXCEPT ![q] = <<c, binding[c]>>]
  /\ UNCHANGED <<registry, mutexes, attempt, project, client, shutdown>>

RequestEnds(q) ==
  /\ lease[q] # Nobody
  /\ lease' = [lease EXCEPT ![q] = Nobody]
  /\ UNCHANGED <<registry, mutexes, attempt, project, client, shutdown>>

-----------------------------------------------------------------------------
\* begin_transition, on one gate after the other.
TransitionBegins(c) ==
  /\ c \in gates
  /\ gates \cap transitioning = {}
  /\ transitioning' = transitioning \cup {c}
  /\ UNCHANGED <<registry, transaction, gates, attempt, project, client, lease, shutdown>>

TransitionDrained(c) ==
  /\ c \in gates \cap transitioning
  /\ ~Busy(c)
  /\ gates' = gates \ {c}
  /\ UNCHANGED <<registry, transaction, transitioning, attempt, project, client, lease, shutdown>>

Enter(holder, connections) ==
  /\ transaction = Nobody
  /\ transaction' = holder
  /\ gates' = connections
  /\ UNCHANGED transitioning

Leave == transaction' = Nobody /\ transitioning' = {} /\ UNCHANGED gates

Drained(holder) == transaction = holder /\ gates = {}

-----------------------------------------------------------------------------
\* The attempts: bind_unbound_connection_project_root and
\* replace_connection_project_root.

\* What the attempt expected is of no use any more.
Forgets(b) ==
  /\ source' = [source EXCEPT ![b] = Nobody]
  /\ expected' = [expected EXCEPT ![b] = 0]
  /\ snapshot' = [snapshot EXCEPT ![b] = 0]

\* The attempt ends, and with it its use of the Project and its subscription.
Release(b, stage) ==
  /\ observers' = observers \ {b}
  /\ queue' = [queue EXCEPT ![b] = <<>>]
  /\ conn' = [conn EXCEPT ![b] = Nobody]
  /\ root' = [root EXCEPT ![b] = Nobody]
  /\ Forgets(b)
  /\ Becomes(b, stage)
  /\ UNCHANGED <<victim, revision, forwarder>>

\* OpenProject is for a connection without a binding, ReplaceProject for one
\* that has a binding, which it remembers with its generation.
Ask(b, c, r) ==
  /\ pc[b] = "idle"
  /\ c \in records \ closing
  /\ conn' = [conn EXCEPT ![b] = c]
  /\ root' = [root EXCEPT ![b] = r]
  /\ source' = [source EXCEPT ![b] = binding[c]]
  /\ expected' = [expected EXCEPT ![b] = generation[c]]
  /\ Becomes(b, "asked")
  /\ UNCHANGED <<registry, mutexes, victim, project, client, lease, shutdown>>

\* Who has a use of the Project r: an attempt that has prepared, and then the
\* binding it made.
Used(r) ==
  \E b \in Binds : /\ root[b] = r
                   /\ pc[b] \in {"prepared", "drain"} \/ \E c \in Conns : binding[c] = b

\* bind_opened_project has read the context of the connection again.
Expects(b) ==
  /\ conn[b] \in records
  /\ expected' = [expected EXCEPT ![b] = IF source[b] = Nobody THEN generation[conn[b]] ELSE @]

\* Mutant: the snapshot may be older than the subscription.
PrepareStale(b) ==
  /\ pc[b] = "asked"
  /\ Expects(b)
  /\ observers' = observers \cup {b}
  /\ \E n \in 1..revision[root[b]] : snapshot' = [snapshot EXCEPT ![b] = n]
  /\ Becomes(b, "prepared")
  /\ UNCHANGED <<registry, mutexes, conn, root, source, victim, revision, queue, forwarder,
                 client, lease, shutdown>>

\* The Project is opened and subscribed to, which takes its snapshot ...
Prepare(b) ==
  /\ pc[b] = "asked"
  /\ Expects(b)
  /\ observers' = observers \cup {b}
  /\ snapshot' = [snapshot EXCEPT ![b] = revision[root[b]]]
  /\ Becomes(b, "prepared")
  /\ UNCHANGED <<registry, mutexes, conn, root, source, victim, revision, queue, forwarder,
                 client, lease, shutdown>>

\* ... unless the connection has ended, the Project cannot be opened or the
\* Desktop window that has it is shown instead.
PrepareFails(b) ==
  /\ pc[b] = "asked"
  /\ Release(b, "refused")
  /\ UNCHANGED <<registry, mutexes, client, lease, shutdown>>

-----------------------------------------------------------------------------
\* bind_project and replace_project.

\* The attempt still means the connection as it is.
Fresh(b) ==
  /\ conn[b] \in records \ closing
  /\ generation[conn[b]] = expected[b]
  /\ source[b] # Nobody => binding[conn[b]] = source[b]

AlreadyBound(b) ==
  /\ Fresh(b)
  /\ binding[conn[b]] # Nobody
  /\ root[binding[conn[b]]] = root[b]

CanBind(b) == Fresh(b) /\ binding[conn[b]] = source[b] /\ Reads(conn[b])

BindNoOp(b) ==
  /\ pc[b] = "prepared"
  /\ transaction = Nobody
  /\ AlreadyBound(b)
  /\ Release(b, "already")
  /\ UNCHANGED <<registry, mutexes, client, lease, shutdown>>

\* The connection has changed, or its event queue is full.
BindRefused(b) ==
  /\ pc[b] = "prepared"
  /\ transaction = Nobody
  /\ ~AlreadyBound(b)
  /\ Release(b, "refused")
  /\ UNCHANGED <<registry, mutexes, client, lease, shutdown>>

\* Mutant: the owner's requests are not waited for.
BindBeginsAlone(b) ==
  /\ pc[b] = "prepared"
  /\ ~AlreadyBound(b)
  /\ CanBind(b)
  /\ Enter(<<"bind", b>>, {conn[b]})
  /\ Becomes(b, "drain")
  /\ UNCHANGED <<registry, conn, root, source, expected, victim, project, client,
                 lease, shutdown>>

\* A place for the bound event is reserved, and the requests of the connection
\* and of the one the Project is bound to are waited for.
BindBegins(b) ==
  /\ pc[b] = "prepared"
  /\ ~AlreadyBound(b)
  /\ CanBind(b)
  /\ Enter(<<"bind", b>>, {conn[b], owner_by_root[root[b]]} \ {Nobody})
  /\ Becomes(b, "drain")
  /\ UNCHANGED <<registry, conn, root, source, expected, victim, project, client,
                 lease, shutdown>>

\* The connection was told to close, or its client left, meanwhile.
BindAborted(b) ==
  /\ Drained(<<"bind", b>>)
  /\ ~CanBind(b)
  /\ Leave
  /\ Release(b, "refused")
  /\ UNCHANGED <<registry, client, lease, shutdown>>

\* The connection, other than conn[b], that the Project is bound to.
Preempted(b) == {owner_by_root[root[b]]} \ {conn[b], Nobody}

\* Mutant: a replacement leaves its source in the owner index.
RebindKeepsSource(b, told) ==
  /\ owner_by_root' = [owner_by_root EXCEPT ![root[b]] = conn[b]]
  /\ binding' = [c \in Conns |->
       IF c = conn[b] THEN b ELSE IF c \in Preempted(b) THEN Nobody ELSE binding[c]]
  /\ generation' = [c \in Conns |->
       IF c \in {conn[b]} \cup Preempted(b) THEN generation[c] + 1 ELSE generation[c]]
  /\ client' = [c \in Conns |->
       IF c = conn[b] THEN AcceptBound(b)
       ELSE IF c \in told THEN AcceptPreempted(c, binding[c]) ELSE client[c]]

\* Mutant: a preempted connection keeps its generation.
RebindQuietly(b, told) ==
  /\ owner_by_root' = [r \in Roots |->
       IF r = root[b] THEN conn[b]
       ELSE IF source[b] # Nobody /\ r = root[source[b]] THEN Nobody ELSE owner_by_root[r]]
  /\ binding' = [c \in Conns |->
       IF c = conn[b] THEN b ELSE IF c \in Preempted(b) THEN Nobody ELSE binding[c]]
  /\ generation' = [generation EXCEPT ![conn[b]] = @ + 1]
  /\ client' = [c \in Conns |->
       IF c = conn[b] THEN AcceptBound(b)
       ELSE IF c \in told THEN AcceptPreempted(c, binding[c]) ELSE client[c]]

\* remove_source_owner, preempt_project_owner and the new binding.  The frames
\* tell the client of conn[b], and those of `told`.
Rebind(b, told) ==
  /\ owner_by_root' = [r \in Roots |->
       IF r = root[b] THEN conn[b]
       ELSE IF source[b] # Nobody /\ r = root[source[b]] THEN Nobody ELSE owner_by_root[r]]
  /\ binding' = [c \in Conns |->
       IF c = conn[b] THEN b ELSE IF c \in Preempted(b) THEN Nobody ELSE binding[c]]
  /\ generation' = [c \in Conns |->
       IF c \in {conn[b]} \cup Preempted(b) THEN generation[c] + 1 ELSE generation[c]]
  /\ client' = [c \in Conns |->
       IF c = conn[b] THEN AcceptBound(b)
       ELSE IF c \in told THEN AcceptPreempted(c, binding[c]) ELSE client[c]]

\* Mutant: a preempted connection that cannot be told stays open.
CommitUntold(b) ==
  /\ Drained(<<"bind", b>>)
  /\ CanBind(b)
  /\ Leave
  /\ \E told \in SUBSET {c \in Preempted(b) : Reads(c)} : Rebind(b, told)
  /\ Becomes(b, "bound")
  /\ Forgets(b)
  /\ UNCHANGED <<records, closing, conn, root, victim, revision, observers, queue, forwarder, lease,
                 shutdown>>

Commit(b) ==
  /\ Drained(<<"bind", b>>)
  /\ CanBind(b)
  /\ Leave
  /\ \E told \in SUBSET {c \in Preempted(b) : Reads(c)} :
       /\ Rebind(b, told)
       /\ \/ told = Preempted(b) /\ Becomes(b, "bound") /\ UNCHANGED victim
          \/ \E c \in Preempted(b) \ told :
               Becomes(b, "displace") /\ victim' = [victim EXCEPT ![b] = c]
  /\ Forgets(b)
  /\ UNCHANGED <<records, closing, conn, root, revision, observers, queue, forwarder, lease, shutdown>>

\* start_connection_project_stream, or the thread cannot be spawned and the
\* connection has to be closed.
StartForwarder(b) ==
  /\ pc[b] = "bound"
  /\ Becomes(b, "streaming")
  /\ Forwards(b, "check")
  /\ UNCHANGED <<registry, mutexes, conn, root, source, expected, victim, revision,
                 observers, snapshot, queue, client, lease, shutdown>>

SpawnFails(b) ==
  /\ pc[b] = "bound"
  /\ victim' = [victim EXCEPT ![b] = conn[b]]
  /\ Becomes(b, "abandon")
  /\ observers' = observers \ {b}
  /\ queue' = [queue EXCEPT ![b] = <<>>]
  /\ UNCHANGED <<registry, mutexes, conn, root, source, expected, revision, snapshot,
                 forwarder, client, lease, shutdown>>

-----------------------------------------------------------------------------
\* close, by an attempt.
CloseEnters(holder, connections) ==
  /\ Enter(holder, connections)
  /\ closing' = closing \cup connections
  /\ UNCHANGED <<records, owner_by_root, binding, generation>>

\* remove_connection.
Remove(connections) ==
  /\ records' = records \ connections
  /\ owner_by_root' = [r \in Roots |-> IF owner_by_root[r] \in connections THEN Nobody ELSE owner_by_root[r]]
  /\ binding' = [c \in Conns |-> IF c \in connections THEN Nobody ELSE binding[c]]
  /\ UNCHANGED <<closing, generation>>

AfterClose == [displace |-> "bound", abandon |-> "refused"]

AttemptCloses(b) ==
  /\ pc[b] \in {"displace", "abandon"}
  /\ victim[b] \in records
  /\ CloseEnters(<<pc[b], b>>, {victim[b]})
  /\ UNCHANGED <<attempt, project, client, lease, shutdown>>

\* Mutant: the close of a connection that is gone does not return.
AttemptAwaitsClose(b) ==
  /\ pc[b] \in {"displace", "abandon"}
  /\ transaction = Nobody
  /\ victim[b] \notin records \cup closing
  /\ Becomes(b, AfterClose[pc[b]])
  /\ UNCHANGED <<registry, mutexes, conn, root, source, expected, victim, project, client,
                 lease, shutdown>>

AttemptFindsClosed(b) ==
  /\ pc[b] \in {"displace", "abandon"}
  /\ transaction = Nobody
  /\ victim[b] \notin records
  /\ Becomes(b, AfterClose[pc[b]])
  /\ UNCHANGED <<registry, mutexes, conn, root, source, expected, victim, project, client,
                 lease, shutdown>>

AttemptClosed(b) ==
  /\ pc[b] \in {"displace", "abandon"}
  /\ Drained(<<pc[b], b>>)
  /\ Remove({victim[b]})
  /\ Leave
  /\ Becomes(b, AfterClose[pc[b]])
  /\ UNCHANGED <<conn, root, source, expected, victim, project, client, lease, shutdown>>

-----------------------------------------------------------------------------
\* The stream threads: the binding is checked, an event is received, its frame
\* is sent, each without regard to the others.
StillBound(b) ==
  /\ forwarder[b] = "check"
  /\ Matches(conn[b], b)
  /\ Forwards(b, "receive")
  /\ UNCHANGED <<registry, mutexes, attempt, revision, observers, snapshot, queue,
                 client, lease, shutdown>>

\* The thread returns and drops its subscription.
Return(b) ==
  /\ Forwards(b, "gone")
  /\ observers' = observers \ {b}
  /\ queue' = [queue EXCEPT ![b] = <<>>]
  /\ conn' = [conn EXCEPT ![b] = Nobody]
  /\ root' = [root EXCEPT ![b] = Nobody]
  /\ UNCHANGED <<pc, source, expected, victim, revision, snapshot, client, lease>>

NoLongerBound(b) ==
  /\ forwarder[b] = "check"
  /\ ~Matches(conn[b], b)
  /\ Return(b)
  /\ UNCHANGED <<registry, mutexes, shutdown>>

Idle(b) ==
  /\ forwarder[b] = "receive"
  /\ queue[b] = <<>>
  /\ b \in observers
  /\ Forwards(b, "check")
  /\ UNCHANGED <<registry, mutexes, attempt, revision, observers, snapshot, queue,
                 client, lease, shutdown>>

Forward(b) ==
  /\ forwarder[b] = "receive"
  /\ queue[b] # <<>>
  /\ Reads(conn[b])
  /\ client' = [client EXCEPT ![conn[b]] = AcceptEvent(conn[b], b, Head(queue[b]))]
  /\ queue' = [queue EXCEPT ![b] = Tail(@)]
  /\ Forwards(b, "check")
  /\ UNCHANGED <<registry, mutexes, attempt, revision, observers, snapshot, lease, shutdown>>

\* The frame finds the queue full or the client gone, or the subscription has
\* ended.
ForwardFails(b) ==
  /\ forwarder[b] = "receive"
  /\ queue[b] # <<>> \/ b \notin observers
  /\ Forwards(b, "ended")
  /\ UNCHANGED <<registry, mutexes, attempt, revision, observers, snapshot, queue,
                 client, lease, shutdown>>

\* close_project_stream.
StreamCloses(b) ==
  /\ forwarder[b] = "ended"
  /\ Matches(conn[b], b)
  /\ CloseEnters(<<"stream", b>>, {conn[b]})
  /\ Forwards(b, "drain")
  /\ UNCHANGED <<attempt, revision, observers, snapshot, queue, client, lease, shutdown>>

StreamFindsClosed(b) ==
  /\ forwarder[b] = "ended"
  /\ transaction = Nobody
  /\ ~Matches(conn[b], b)
  /\ Return(b)
  /\ UNCHANGED <<registry, mutexes, shutdown>>

StreamClosed(b) ==
  /\ Drained(<<"stream", b>>)
  /\ Remove({conn[b]})
  /\ Leave
  /\ Return(b)
  /\ UNCHANGED <<shutdown>>

-----------------------------------------------------------------------------
\* The Project sessions.

\* Mutant: a full subscription loses the event and goes on.
PublishDrops(r) ==
  /\ r \in Changing
  /\ revision[r] < MaxRevision
  /\ Used(r)
  /\ revision' = [revision EXCEPT ![r] = @ + 1]
  /\ queue' = [b \in Binds |->
       IF b \in observers /\ root[b] = r /\ Len(queue[b]) < QueueCapacity
       THEN Append(queue[b], revision[r] + 1) ELSE queue[b]]
  /\ UNCHANGED <<registry, mutexes, attempt, observers, snapshot, forwarder, client, lease, shutdown>>

\* A commit publishes its revision; a subscription that is full is detached.
\* What happens while nobody here uses the Project is left out.
Publish(r) ==
  LET full == {b \in observers : root[b] = r /\ Len(queue[b]) = QueueCapacity} IN
  /\ r \in Changing
  /\ revision[r] < MaxRevision
  /\ Used(r)
  /\ revision' = [revision EXCEPT ![r] = @ + 1]
  /\ queue' = [b \in Binds |->
       IF b \in observers \ full /\ root[b] = r
       THEN Append(queue[b], revision[r] + 1) ELSE queue[b]]
  /\ observers' = observers \ full
  /\ UNCHANGED <<registry, mutexes, attempt, snapshot, forwarder, client, lease, shutdown>>

\* The last use was released, and the session with it; the next one begins at
\* revision 1.
SessionCloses(r) ==
  /\ ~Used(r)
  /\ revision' = [revision EXCEPT ![r] = 1]
  /\ observers' = {b \in observers : root[b] # r}
  /\ UNCHANGED <<registry, mutexes, attempt, snapshot, queue, forwarder, client, lease, shutdown>>

-----------------------------------------------------------------------------
\* The closer thread.
Receive(command) ==
  /\ closer = "receiving"
  /\ commands # <<>>
  /\ Head(commands) = command
  /\ commands' = Tail(commands)

CloserCloses(c) ==
  /\ Receive(<<"connection", c>>)
  /\ c \in records
  /\ CloseEnters(<<"connection", c>>, {c})
  /\ closer' = "closing"
  /\ UNCHANGED <<attempt, project, client, lease, admission, main>>

CloserFindsClosed(c) ==
  /\ Receive(<<"connection", c>>)
  /\ transaction = Nobody
  /\ c \notin records
  /\ UNCHANGED <<registry, mutexes, attempt, project, client, lease, admission, closer, main>>

CloserClosed(c) ==
  /\ Drained(<<"connection", c>>)
  /\ Remove({c})
  /\ Leave
  /\ closer' = "receiving"
  /\ UNCHANGED <<attempt, project, client, lease, admission, commands, main>>

CloserClosesAll ==
  /\ Receive(<<"all", Nobody>>)
  /\ CloseEnters(<<"all", Nobody>>, records)
  /\ closer' = "closing"
  /\ UNCHANGED <<attempt, project, client, lease, admission, main>>

CloserClosedAll ==
  /\ Drained(<<"all", Nobody>>)
  /\ Remove(records)
  /\ Leave
  /\ closer' = "receiving"
  /\ UNCHANGED <<attempt, project, client, lease, admission, commands, main>>

CloserStops ==
  /\ Receive(<<"shutdown", Nobody>>)
  /\ closer' = "stopped"
  /\ UNCHANGED <<registry, mutexes, attempt, project, client, lease, admission, main>>

-----------------------------------------------------------------------------
\* The main thread, on shutdown.
CloseAdmission ==
  /\ ShutsDown
  /\ main = "serving"
  /\ main' = "refusing"
  /\ admission' = FALSE
  /\ UNCHANGED <<registry, mutexes, attempt, project, client, lease, commands, closer>>

\* request_close_all, and the command that follows it.
RequestCloseAll ==
  /\ main = "refusing"
  /\ main' = "draining"
  /\ closing' = closing \cup records
  /\ commands' = Append(commands, <<"all", Nobody>>)
  /\ UNCHANGED <<records, owner_by_root, binding, generation, mutexes, attempt, project,
                 client, lease, admission, closer>>

\* The drain was answered, or it timed out.
DrainEnds ==
  /\ main = "draining"
  /\ main' = "joining"
  /\ commands' = Append(commands, <<"shutdown", Nobody>>)
  /\ UNCHANGED <<registry, mutexes, attempt, project, client, lease, admission, closer>>

-----------------------------------------------------------------------------
AttemptStep(b) ==
  \/ Prepare(b) \/ PrepareFails(b)
  \/ BindNoOp(b) \/ BindRefused(b) \/ BindBegins(b) \/ BindAborted(b) \/ Commit(b)
  \/ StartForwarder(b) \/ SpawnFails(b)
  \/ AttemptCloses(b) \/ AttemptFindsClosed(b) \/ AttemptClosed(b)

StreamStep(b) ==
  \/ StillBound(b) \/ NoLongerBound(b) \/ Idle(b) \/ Forward(b) \/ ForwardFails(b)
  \/ StreamCloses(b) \/ StreamFindsClosed(b) \/ StreamClosed(b)

CloserStep ==
  \/ \E c \in Conns : CloserCloses(c) \/ CloserFindsClosed(c) \/ CloserClosed(c)
  \/ CloserClosesAll \/ CloserClosedAll \/ CloserStops

GateStep == \E c \in Conns : TransitionBegins(c) \/ TransitionDrained(c)

MainStep == CloseAdmission \/ RequestCloseAll \/ DrainEnds

Next ==
  \/ \E c \in Conns : Open(c) \/ ForwarderLags(c) \/ StreamDropped(c)
  \/ \E q \in Requests : RequestEnds(q) \/ \E c \in Conns : Acquire(q, c)
  \/ \E b \in Binds, c \in Conns, r \in Roots : Ask(b, c, r)
  \/ \E b \in Binds : AttemptStep(b) \/ StreamStep(b)
  \/ \E r \in Roots : Publish(r) \/ SessionCloses(r)
  \/ GateStep \/ CloserStep \/ MainStep

Spec == Init /\ [][Next]_vars

\* Every thread that has something to do does it, and a request that was
\* admitted ends; nobody has to make a call, and no client has to leave.
FairSpec ==
  /\ Spec
  /\ \A b \in Binds : WF_vars(AttemptStep(b)) /\ WF_vars(StreamStep(b))
  /\ \A q \in Requests : WF_vars(RequestEnds(q))
  /\ WF_vars(GateStep)
  /\ WF_vars(CloserStep)
  /\ WF_vars(DrainEnds)

-----------------------------------------------------------------------------
\* The owner index, the bindings of the live connections and the generations
\* agree, outside the sections that change them. A Project has at most one
\* Workbench, and no lookup that expects an owner to be a live, bound connection
\* panics; a replacement that finds the generation it read finds the binding it
\* read, however often the connection was preempted and bound in between.
BindingsAgree ==
  /\ \A r \in Roots : owner_by_root[r] # Nobody =>
       /\ owner_by_root[r] \in records
       /\ binding[owner_by_root[r]] # Nobody
       /\ root[binding[owner_by_root[r]]] = r
  /\ \A c \in Conns : binding[c] # Nobody =>
       c \in records /\ owner_by_root[root[binding[c]]] = c
  /\ \A b \in Binds :
       (/\ pc[b] \in {"asked", "prepared", "drain"}
        /\ source[b] # Nobody
        /\ conn[b] \in records
        /\ generation[conn[b]] = expected[b]) => binding[conn[b]] = source[b]

\* A request that was admitted for a binding runs under that binding to its
\* end: neither a replacement, nor another connection that takes the Project,
\* nor a close takes effect before it.
LeaseKeepsBinding ==
  \A q \in Requests : lease[q] # Nobody => Matches(lease[q][1], lease[q][2])

\* A client never misses an event of the Project it shows: each frame of its
\* binding is the next revision after its snapshot, or its subscription was
\* detached and no later frame arrives.
NoGap == \A c \in Conns : client[c].status # "gap"

\* A client that shows a binding its connection has lost is told so, or its
\* connection ends.
Misled(c) ==
  c \in records /\ client[c].status = "bound" /\ client[c].binding # binding[c]
DisplacedIsTold == \A c \in Conns : Misled(c) ~> ~Misled(c)

\* A client that is behind the Project it is bound to catches up, or the
\* connection ends or is bound to something else: a stream whose subscription
\* was detached, or that cannot send, does not leave its client waiting.
Behind(c) ==
  /\ binding[c] # Nobody
  /\ client[c].status = "bound"
  /\ client[c].revision < revision[root[binding[c]]]
StreamKeepsUp == \A c \in Conns : Behind(c) ~> ~Behind(c)

\* An attempt to bind returns, whatever it has to wait for.
EveryBindReturns ==
  \A b \in Binds : pc[b] # "idle" ~> pc[b] \in {"streaming", "already", "refused"}

=============================================================================

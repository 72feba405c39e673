---------------------- MODULE WorkbenchConnectionsProofs ----------------------
(***************************************************************************)
(* Proofs about WorkbenchConnections, for any number of connections, of    *)
(* Projects, of attempts to bind and of requests: the owner index and the  *)
(* bindings agree, a request runs to its end under the binding it was      *)
(* admitted for, and a client misses no event.                             *)
(*                                                                         *)
(* The registry changes under the binding transaction only, and its holder *)
(* has gated every connection it changes: such a connection is still to be *)
(* drained, or admits no request and has none (Gated, Waits).  A client    *)
(* that is bound has read all that its subscription was given before what  *)
(* the queue holds now, and a subscription that is not detached holds      *)
(* everything since (Follows).                                             *)
(***************************************************************************)
EXTENDS WorkbenchConnections, TLAPS

-----------------------------------------------------------------------------
(* Types, without the bounds of the model. *)

Stages == {"idle", "asked", "prepared", "drain", "displace", "bound", "abandon", "streaming",
           "already", "refused"}
Threads == {"none", "check", "receive", "ended", "drain", "gone"}
Statuses == {"none", "unbound", "bound", "detached", "retired", "gap", "gone"}

RegistryTyped ==
  /\ records \subseteq Conns
  /\ owner_by_root \in [Roots -> Opt(Conns)]
  /\ binding \in [Conns -> Opt(Binds)]
  /\ generation \in [Conns -> Nat]
AttemptTyped ==
  /\ pc \in [Binds -> Stages]
  /\ conn \in [Binds -> Opt(Conns)]
  /\ root \in [Binds -> Opt(Roots)]
  /\ source \in [Binds -> Opt(Binds)]
  /\ expected \in [Binds -> Nat]
  /\ victim \in [Binds -> Opt(Conns)]
ProjectTyped ==
  /\ revision \in [Roots -> Nat]
  /\ observers \subseteq Binds
  /\ snapshot \in [Binds -> Nat]
  /\ queue \in [Binds -> Seq(Nat)]
  /\ forwarder \in [Binds -> Threads]
ClientTyped ==
  /\ client \in [Conns -> [status : Statuses, binding : Opt(Binds), revision : Nat]]
RequestTyped == lease \in [Requests -> Opt(Conns \X Binds)]
Command == {"connection"} \X Conns \cup {"all", "shutdown"} \X {Nobody}
CommandsTyped == commands \in Seq(Command)

Typed == /\ RegistryTyped /\ AttemptTyped /\ ProjectTyped /\ ClientTyped /\ RequestTyped
         /\ CommandsTyped

-----------------------------------------------------------------------------
(* The bindings. *)

Asking == {"asked", "prepared", "drain"}

\* An attempt that has not bound knows a connection and a root, and a generation
\* that is not ahead of the connection's.
Asked == \A b \in Binds : pc[b] \in Asking =>
           conn[b] \in Conns /\ root[b] \in Roots /\ expected[b] <= generation[conn[b]]

\* A binding belongs to the attempt that made it, for as long as it lasts.
Made == \A c \in Conns : binding[c] # Nobody =>
          /\ conn[binding[c]] = c
          /\ root[binding[c]] \in Roots
          /\ pc[binding[c]] \in {"displace", "bound", "abandon", "streaming"}

\* Only an attempt that made a binding has a stream thread or a connection to close.
Placed == \A b \in Binds :
  /\ pc[b] \in {"displace", "bound", "abandon"} => conn[b] \in Conns
  /\ forwarder[b] # "none" => pc[b] = "streaming"
  /\ forwarder[b] \in {"check", "receive", "ended", "drain"} => conn[b] \in Conns
  /\ pc[b] = "abandon" => victim[b] = conn[b]
  /\ pc[b] \in {"displace", "abandon"} => victim[b] \in Conns

\* Who is in the transaction is at the step that entered it.
Holding == \A b \in Binds :
  /\ transaction = <<"bind", b>> => pc[b] = "drain"
  /\ \A stage \in {"displace", "abandon"} : transaction = <<stage, b>> => pc[b] = stage
  /\ transaction = <<"stream", b>> => forwarder[b] = "drain"

\* A connection is opened once.
Opened ==
  /\ \A c \in records : client[c].status # "none"
  /\ \A b \in Binds : conn[b] # Nobody => client[conn[b]].status # "none"

\* The parts of BindingsAgree.
Owners == \A r \in Roots : owner_by_root[r] # Nobody =>
            /\ owner_by_root[r] \in records
            /\ binding[owner_by_root[r]] # Nobody
            /\ root[binding[owner_by_root[r]]] = r
Owned == \A c \in Conns : binding[c] # Nobody =>
           c \in records /\ owner_by_root[root[binding[c]]] = c
Expecting == \A b \in Binds :
  (/\ pc[b] \in Asking
   /\ source[b] # Nobody
   /\ conn[b] \in records
   /\ generation[conn[b]] = expected[b]) => binding[conn[b]] = source[b]

Bindings == Owners /\ Owned /\ Expecting /\ Asked /\ Made /\ Placed /\ Holding /\ Opened

-----------------------------------------------------------------------------
(* The leases. *)

\* The holder of the transaction has yet to wait for c, or nothing runs there.
Gated(c) == c \in gates \/ (c \in transitioning /\ ~Busy(c))

BindWaits == \A b \in Binds : transaction = <<"bind", b>> =>
               /\ Gated(conn[b])
               /\ owner_by_root[root[b]] # Nobody => Gated(owner_by_root[root[b]])
CloseWaits == \A b \in Binds : \A stage \in {"displace", "abandon"} :
                transaction = <<stage, b>> => Gated(victim[b])
StreamWaits == \A b \in Binds : transaction = <<"stream", b>> => Gated(conn[b])
CloserWaits == /\ \A c \in Conns : transaction = <<"connection", c>> => Gated(c)
               /\ transaction = <<"all", Nobody>> => ~admission /\ \A c \in records : Gated(c)
Waits == BindWaits /\ CloseWaits /\ StreamWaits /\ CloserWaits

\* Everything is closed only after no connection is admitted any more.
Commanded ==
  /\ admission => main = "serving"
  /\ \A i \in 1..Len(commands) : commands[i][1] = "all" => ~admission

Leases == LeaseKeepsBinding /\ Waits /\ Commanded

-----------------------------------------------------------------------------
(* The streams. *)

\* The queue of b goes on from revision n, and is complete unless b is detached.
Follows(b, n) ==
  /\ \A i \in 1..Len(queue[b]) : queue[b][i] = n + i
  /\ b \in observers => n + Len(queue[b]) = revision[root[b]]

Quiet == \A b \in Binds : pc[b] \in {"idle", "asked"} => queue[b] = <<>> /\ b \notin observers
Begun == \A b \in Binds : pc[b] \in {"prepared", "drain"} => Follows(b, snapshot[b])
Rooted == \A b \in observers : root[b] \in Roots
Shown == \A c \in Conns : client[c].binding # Nobody =>
           pc[client[c].binding] \notin {"idle", "asked", "prepared", "drain"}
Current == \A c \in Conns :
  client[c].status = "bound" /\ client[c].binding # Nobody /\ conn[client[c].binding] = c
    => Follows(client[c].binding, client[c].revision)

Streams == Quiet /\ Begun /\ Rooted /\ Shown /\ Current /\ NoGap

USE NobodyAssumption, CapacityAssumption
USE DEF Opt, registry, mutexes, attempt, project, shutdown

LEMMA NobodyHolds ==
  /\ \A stage \in {"bind", "displace", "abandon", "stream"} : \A b \in Binds : Nobody # <<stage, b>>
  /\ \A c \in Conns : Nobody # <<"connection", c>>
  /\ Nobody # <<"all", Nobody>>
BY DEF Holders

-----------------------------------------------------------------------------
(* Types. *)
LEMMA PreemptedClient ==
  ASSUME ClientTyped, NEW c \in Conns, NEW b
  PROVE  LET new == AcceptPreempted(c, b)
         IN  /\ new \in [status : Statuses, binding : Opt(Binds), revision : Nat]
             /\ new.binding = client[c].binding
             /\ new = client[c] \/ new.status = "detached"
BY DEF AcceptPreempted, ClientTyped, Statuses

LEMMA EventClient ==
  ASSUME ClientTyped, NEW c \in Conns, NEW b, NEW n \in Nat
  PROVE  LET new == AcceptEvent(c, b, n)
         IN  /\ new \in [status : Statuses, binding : Opt(Binds), revision : Nat]
             /\ new.binding = client[c].binding
             /\ new.status = "none" => client[c].status = "none"
             /\ new.status = "gap" =>
                  \/ client[c].status = "gap"
                  \/ /\ client[c].status = "bound" /\ client[c].binding = b
                     /\ n # client[c].revision + 1
             /\ new.status = "bound" =>
                  /\ client[c].status = "bound" /\ client[c].binding = b
                  /\ n = client[c].revision + 1 /\ new.revision = n
<1> USE DEF AcceptEvent, ClientTyped, Statuses
<1>1. CASE client[c].status \in {"retired", "gap"}
  BY <1>1
<1>2. CASE /\ client[c].status \notin {"retired", "gap"}
           /\ client[c].status # "bound" \/ client[c].binding # b
  <2>1. AcceptEvent(c, b, n) = [client[c] EXCEPT !.status = "retired"]
    BY <1>2
  <2> QED BY <2>1
<1>3. CASE client[c].status = "bound" /\ client[c].binding = b /\ n # client[c].revision + 1
  <2>1. AcceptEvent(c, b, n) = [client[c] EXCEPT !.status = "gap"]
    BY <1>3
  <2> QED BY <1>3, <2>1
<1>4. CASE client[c].status = "bound" /\ client[c].binding = b /\ n = client[c].revision + 1
  <2>1. AcceptEvent(c, b, n) = [client[c] EXCEPT !.revision = n]
    BY <1>4
  <2> QED BY <1>4, <2>1
<1> QED BY <1>1, <1>2, <1>3, <1>4

LEMMA NextRegistryTyped == Typed /\ [Next]_vars => RegistryTyped'
<1> SUFFICES ASSUME Typed, [Next]_vars PROVE RegistryTyped'
  OBVIOUS
<1> USE DEF Typed, RegistryTyped, AttemptTyped
<1>u. UNCHANGED <<records, owner_by_root, binding, generation>> => RegistryTyped'
  OBVIOUS
<1>1. ASSUME NEW c \in Conns, Open(c) PROVE RegistryTyped'
  BY <1>1 DEF Open
<1>2. ASSUME NEW b \in Binds, Commit(b) PROVE RegistryTyped'
  BY <1>2 DEF Commit, Drained, Leave, CanBind, Fresh, Preempted, Rebind, Forgets, Becomes
<1>3. ASSUME NEW b \in Binds, AttemptClosed(b) PROVE RegistryTyped'
  BY <1>3 DEF AttemptClosed, AfterClose, Drained, Remove, Leave, Becomes
<1>4. ASSUME NEW b \in Binds, StreamClosed(b) PROVE RegistryTyped'
  BY <1>4 DEF StreamClosed, Drained, Remove, Leave, Return, Forwards
<1>5. ASSUME NEW c \in Conns, CloserClosed(c) PROVE RegistryTyped'
  BY <1>5 DEF CloserClosed, Drained, Remove, Leave
<1>6. ASSUME CloserClosedAll PROVE RegistryTyped'
  BY <1>6 DEF CloserClosedAll, Drained, Remove, Leave
<1>7. ASSUME NEW c \in Conns, ForwarderLags(c) \/ StreamDropped(c) \/ TransitionBegins(c) \/
            TransitionDrained(c) \/ CloserCloses(c) \/ CloserFindsClosed(c) PROVE
            RegistryTyped'
  BY <1>7, <1>u DEF ForwarderLags, RequestClose, StreamDropped, Unbound, TransitionBegins,
     TransitionDrained, CloserCloses, Receive, CloseEnters, Enter, CloserFindsClosed
<1>8. ASSUME NEW q \in Requests, RequestEnds(q) PROVE RegistryTyped'
  BY <1>8, <1>u DEF RequestEnds
<1>9. ASSUME NEW q \in Requests, NEW c \in Conns, Acquire(q, c) PROVE RegistryTyped'
  BY <1>9, <1>u DEF Acquire
<1>10. ASSUME NEW b \in Binds, NEW c \in Conns, NEW r \in Roots, Ask(b, c, r) PROVE
            RegistryTyped'
  BY <1>10, <1>u DEF Ask, Becomes
<1>11. ASSUME NEW b \in Binds, Prepare(b) \/ PrepareFails(b) \/ BindNoOp(b) \/
            BindRefused(b) \/ BindBegins(b) \/ BindAborted(b) \/ StartForwarder(b) \/
            SpawnFails(b) \/ AttemptCloses(b) PROVE RegistryTyped'
  BY <1>11, <1>u DEF Prepare, Expects, Becomes, PrepareFails, Release, Forgets, BindNoOp,
     BindRefused, BindBegins, Enter, BindAborted, Drained, Leave, StartForwarder, Forwards,
     SpawnFails, AttemptCloses, CloseEnters
<1>12. ASSUME NEW b \in Binds, AttemptFindsClosed(b) \/ StillBound(b) \/ NoLongerBound(b) \/
            Idle(b) \/ Forward(b) \/ ForwardFails(b) \/ StreamCloses(b) \/
            StreamFindsClosed(b) PROVE RegistryTyped'
  BY <1>12, <1>u DEF AttemptFindsClosed, AfterClose, Becomes, StillBound, Forwards,
     NoLongerBound, Matches, Return, Idle, Forward, ForwardFails, StreamCloses, CloseEnters,
     Enter, StreamFindsClosed
<1>13. ASSUME NEW r \in Roots, Publish(r) \/ SessionCloses(r) PROVE RegistryTyped'
  BY <1>13, <1>u DEF Publish, SessionCloses
<1>14. CASE CloserClosesAll \/ CloserStops \/ CloseAdmission \/ RequestCloseAll \/ DrainEnds
            \/ UNCHANGED vars
  BY <1>14, <1>u DEF CloserClosesAll, Receive, CloseEnters, Enter, CloserStops,
     CloseAdmission, RequestCloseAll, DrainEnds, vars
<1> QED BY <1>u, <1>1, <1>2, <1>3, <1>4, <1>5, <1>6, <1>7, <1>8, <1>9, <1>10, <1>11, <1>12,
       <1>13, <1>14 DEF Next, AttemptStep, StreamStep, GateStep, CloserStep, MainStep

LEMMA NextAttemptTyped == Typed /\ Asked /\ Holding /\ [Next]_vars => AttemptTyped'
<1> SUFFICES ASSUME Typed, Asked, Holding, [Next]_vars PROVE AttemptTyped'
  OBVIOUS
<1> USE DEF Typed, RegistryTyped, AttemptTyped, Stages
<1>u. UNCHANGED <<pc, conn, root, source, expected, victim>> => AttemptTyped'
  OBVIOUS
<1>1. ASSUME NEW b \in Binds, NEW c \in Conns, NEW r \in Roots, Ask(b, c, r) PROVE AttemptTyped'
  BY <1>1 DEF Ask, Becomes
<1>2. ASSUME NEW b \in Binds, Prepare(b) PROVE AttemptTyped'
  BY <1>2 DEF Prepare, Expects, Becomes
<1>3. ASSUME NEW b \in Binds, PrepareFails(b) PROVE AttemptTyped'
  BY <1>3 DEF PrepareFails, Release, Forgets, Becomes
<1>4. ASSUME NEW b \in Binds, BindNoOp(b) PROVE AttemptTyped'
  BY <1>4 DEF BindNoOp, Release, Forgets, Becomes
<1>5. ASSUME NEW b \in Binds, BindRefused(b) PROVE AttemptTyped'
  BY <1>5 DEF BindRefused, Release, Forgets, Becomes
<1>6. ASSUME NEW b \in Binds, BindBegins(b) PROVE AttemptTyped'
  BY <1>6 DEF BindBegins, Enter, Becomes
<1>7. ASSUME NEW b \in Binds, BindAborted(b) PROVE AttemptTyped'
  BY <1>7 DEF BindAborted, Drained, Leave, Release, Forgets, Becomes
<1>8. ASSUME NEW b \in Binds, Commit(b) PROVE AttemptTyped'
  <2>h. Preempted(b) \subseteq Conns
    BY <1>8 DEF Commit, Drained, Preempted, Asked, Asking, Holding
  <2>1. pc' \in [Binds -> Stages] /\ victim' \in [Binds -> Opt(Conns)]
    BY <1>8, <2>h DEF Commit, Becomes
  <2>2. source' \in [Binds -> Opt(Binds)] /\ expected' \in [Binds -> Nat]
    BY <1>8 DEF Commit, Forgets
  <2>3. UNCHANGED <<conn, root>>
    BY <1>8 DEF Commit
  <2> QED BY <2>1, <2>2, <2>3
<1>9. ASSUME NEW b \in Binds, StartForwarder(b) PROVE AttemptTyped'
  BY <1>9 DEF StartForwarder, Becomes, Forwards
<1>10. ASSUME NEW b \in Binds, SpawnFails(b) PROVE AttemptTyped'
  BY <1>10 DEF SpawnFails, Becomes
<1>11. ASSUME NEW b \in Binds, AttemptFindsClosed(b) PROVE AttemptTyped'
  BY <1>11 DEF AttemptFindsClosed, AfterClose, Becomes
<1>12. ASSUME NEW b \in Binds, AttemptClosed(b) PROVE AttemptTyped'
  BY <1>12 DEF AttemptClosed, AfterClose, Drained, Remove, Leave, Becomes
<1>13. ASSUME NEW b \in Binds, NoLongerBound(b) PROVE AttemptTyped'
  BY <1>13 DEF NoLongerBound, Matches, Return, Forwards
<1>14. ASSUME NEW b \in Binds, StreamFindsClosed(b) PROVE AttemptTyped'
  BY <1>14 DEF StreamFindsClosed, Matches, Return, Forwards
<1>15. ASSUME NEW b \in Binds, StreamClosed(b) PROVE AttemptTyped'
  BY <1>15 DEF StreamClosed, Drained, Remove, Leave, Return, Forwards
<1>16. ASSUME NEW c \in Conns, Open(c) \/ ForwarderLags(c) \/ StreamDropped(c) \/
            TransitionBegins(c) \/ TransitionDrained(c) \/ CloserCloses(c) \/
            CloserFindsClosed(c) \/ CloserClosed(c) PROVE AttemptTyped'
  BY <1>16, <1>u DEF Open, ForwarderLags, RequestClose, StreamDropped, Unbound,
     TransitionBegins, TransitionDrained, CloserCloses, Receive, CloseEnters, Enter,
     CloserFindsClosed, CloserClosed, Drained, Remove, Leave
<1>17. ASSUME NEW q \in Requests, RequestEnds(q) PROVE AttemptTyped'
  BY <1>17, <1>u DEF RequestEnds
<1>18. ASSUME NEW q \in Requests, NEW c \in Conns, Acquire(q, c) PROVE AttemptTyped'
  BY <1>18, <1>u DEF Acquire
<1>19. ASSUME NEW b \in Binds, AttemptCloses(b) \/ StillBound(b) \/ Idle(b) \/ Forward(b) \/
            ForwardFails(b) \/ StreamCloses(b) PROVE AttemptTyped'
  BY <1>19, <1>u DEF AttemptCloses, CloseEnters, Enter, StillBound, Forwards, Idle, Forward,
     ForwardFails, StreamCloses, Matches
<1>20. ASSUME NEW r \in Roots, Publish(r) \/ SessionCloses(r) PROVE AttemptTyped'
  BY <1>20, <1>u DEF Publish, SessionCloses
<1>21. CASE CloserClosesAll \/ CloserClosedAll \/ CloserStops \/ CloseAdmission \/
            RequestCloseAll \/ DrainEnds \/ UNCHANGED vars
  BY <1>21, <1>u DEF CloserClosesAll, Receive, CloseEnters, Enter, CloserClosedAll, Drained,
     Remove, Leave, CloserStops, CloseAdmission, RequestCloseAll, DrainEnds, vars
<1> QED BY <1>u, <1>1, <1>2, <1>3, <1>4, <1>5, <1>6, <1>7, <1>8, <1>9, <1>10, <1>11, <1>12,
       <1>13, <1>14, <1>15, <1>16, <1>17, <1>18, <1>19, <1>20, <1>21 DEF Next, AttemptStep,
       StreamStep, GateStep, CloserStep, MainStep

LEMMA NextProjectTyped == Typed /\ Asked /\ [Next]_vars => ProjectTyped'
<1> SUFFICES ASSUME Typed, Asked, [Next]_vars PROVE ProjectTyped'
  OBVIOUS
<1> USE DEF Typed, AttemptTyped, ProjectTyped, Threads
<1>u. UNCHANGED <<revision, observers, snapshot, queue, forwarder>> => ProjectTyped'
  OBVIOUS
<1>1. ASSUME NEW b \in Binds, Prepare(b) PROVE ProjectTyped'
  BY <1>1 DEF Prepare, Expects, Becomes, Asked, Asking
<1>2. ASSUME NEW b \in Binds, PrepareFails(b) PROVE ProjectTyped'
  BY <1>2 DEF PrepareFails, Release, Forgets, Becomes
<1>3. ASSUME NEW b \in Binds, BindNoOp(b) PROVE ProjectTyped'
  BY <1>3 DEF BindNoOp, Release, Forgets, Becomes
<1>4. ASSUME NEW b \in Binds, BindRefused(b) PROVE ProjectTyped'
  BY <1>4 DEF BindRefused, Release, Forgets, Becomes
<1>5. ASSUME NEW b \in Binds, BindAborted(b) PROVE ProjectTyped'
  BY <1>5 DEF BindAborted, Drained, Leave, Release, Forgets, Becomes
<1>6. ASSUME NEW b \in Binds, Commit(b) PROVE ProjectTyped'
  BY <1>6 DEF Commit, Drained, Leave, CanBind, Fresh, Preempted, Rebind, Forgets, Becomes
<1>7. ASSUME NEW b \in Binds, StartForwarder(b) PROVE ProjectTyped'
  BY <1>7 DEF StartForwarder, Becomes, Forwards
<1>8. ASSUME NEW b \in Binds, SpawnFails(b) PROVE ProjectTyped'
  BY <1>8 DEF SpawnFails, Becomes
<1>9. ASSUME NEW b \in Binds, StillBound(b) PROVE ProjectTyped'
  BY <1>9 DEF StillBound, Forwards
<1>10. ASSUME NEW b \in Binds, NoLongerBound(b) PROVE ProjectTyped'
  BY <1>10 DEF NoLongerBound, Matches, Return, Forwards
<1>11. ASSUME NEW b \in Binds, Idle(b) PROVE ProjectTyped'
  BY <1>11 DEF Idle, Forwards
<1>12. ASSUME NEW b \in Binds, Forward(b) PROVE ProjectTyped'
  BY <1>12 DEF Forward, Forwards
<1>13. ASSUME NEW b \in Binds, ForwardFails(b) PROVE ProjectTyped'
  BY <1>13 DEF ForwardFails, Forwards
<1>14. ASSUME NEW b \in Binds, StreamCloses(b) PROVE ProjectTyped'
  BY <1>14 DEF StreamCloses, Matches, CloseEnters, Enter, Forwards
<1>15. ASSUME NEW b \in Binds, StreamFindsClosed(b) PROVE ProjectTyped'
  BY <1>15 DEF StreamFindsClosed, Matches, Return, Forwards
<1>16. ASSUME NEW b \in Binds, StreamClosed(b) PROVE ProjectTyped'
  BY <1>16 DEF StreamClosed, Drained, Remove, Leave, Return, Forwards
<1>17. ASSUME NEW r \in Roots, Publish(r) PROVE ProjectTyped'
  BY <1>17 DEF Publish
<1>18. ASSUME NEW r \in Roots, SessionCloses(r) PROVE ProjectTyped'
  BY <1>18 DEF SessionCloses
<1>19. ASSUME NEW c \in Conns, Open(c) \/ ForwarderLags(c) \/ StreamDropped(c) \/
            TransitionBegins(c) \/ TransitionDrained(c) \/ CloserCloses(c) \/
            CloserFindsClosed(c) \/ CloserClosed(c) PROVE ProjectTyped'
  BY <1>19, <1>u DEF Open, ForwarderLags, RequestClose, StreamDropped, Unbound,
     TransitionBegins, TransitionDrained, CloserCloses, Receive, CloseEnters, Enter,
     CloserFindsClosed, CloserClosed, Drained, Remove, Leave
<1>20. ASSUME NEW q \in Requests, RequestEnds(q) PROVE ProjectTyped'
  BY <1>20, <1>u DEF RequestEnds
<1>21. ASSUME NEW q \in Requests, NEW c \in Conns, Acquire(q, c) PROVE ProjectTyped'
  BY <1>21, <1>u DEF Acquire
<1>22. ASSUME NEW b \in Binds, NEW c \in Conns, NEW r \in Roots, Ask(b, c, r) PROVE
            ProjectTyped'
  BY <1>22, <1>u DEF Ask, Becomes
<1>23. ASSUME NEW b \in Binds, BindBegins(b) \/ AttemptCloses(b) \/ AttemptFindsClosed(b) \/
            AttemptClosed(b) PROVE ProjectTyped'
  BY <1>23, <1>u DEF BindBegins, Enter, Becomes, AttemptCloses, CloseEnters,
     AttemptFindsClosed, AfterClose, AttemptClosed, Drained, Remove, Leave
<1>24. CASE CloserClosesAll \/ CloserClosedAll \/ CloserStops \/ CloseAdmission \/
            RequestCloseAll \/ DrainEnds \/ UNCHANGED vars
  BY <1>24, <1>u DEF CloserClosesAll, Receive, CloseEnters, Enter, CloserClosedAll, Drained,
     Remove, Leave, CloserStops, CloseAdmission, RequestCloseAll, DrainEnds, vars
<1> QED BY <1>u, <1>1, <1>2, <1>3, <1>4, <1>5, <1>6, <1>7, <1>8, <1>9, <1>10, <1>11, <1>12,
       <1>13, <1>14, <1>15, <1>16, <1>17, <1>18, <1>19, <1>20, <1>21, <1>22, <1>23, <1>24
       DEF Next, AttemptStep, StreamStep, GateStep, CloserStep, MainStep

LEMMA NextClientTyped == Typed /\ Asked /\ Placed /\ [Next]_vars => ClientTyped'
<1> SUFFICES ASSUME Typed, Asked, Placed, [Next]_vars PROVE ClientTyped'
  OBVIOUS
<1> USE DEF Typed, RegistryTyped, AttemptTyped, ProjectTyped
<1>u. UNCHANGED <<client>> => ClientTyped'
  BY DEF ClientTyped
<1>1. ASSUME NEW c \in Conns, Open(c) PROVE ClientTyped'
  BY <1>1 DEF Open, Unbound, ClientTyped, Statuses
<1>2. ASSUME NEW c \in Conns, StreamDropped(c) PROVE ClientTyped'
  BY <1>2 DEF StreamDropped, RequestClose, Unbound, ClientTyped, Statuses
<1>3. ASSUME NEW b \in Binds, Commit(b) PROVE ClientTyped'
  <2>1. AcceptBound(b) \in [status : Statuses, binding : Opt(Binds), revision : Nat]
    BY DEF AcceptBound, Statuses
  <2>2. ASSUME NEW c \in Conns, c \in Preempted(b)
        PROVE  AcceptPreempted(c, binding[c]) \in
                 [status : Statuses, binding : Opt(Binds), revision : Nat]
    BY PreemptedClient
  <2>3. PICK told \in SUBSET Preempted(b) : Rebind(b, told)
    BY <1>3 DEF Commit
  <2> QED BY <2>1, <2>2, <2>3 DEF Rebind, ClientTyped
<1>4. ASSUME NEW b \in Binds, Forward(b) PROVE ClientTyped'
  <2>1. conn[b] \in Conns /\ Head(queue[b]) \in Nat
    BY <1>4 DEF Forward, Placed
  <2>2. AcceptEvent(conn[b], b, Head(queue[b]))
          \in [status : Statuses, binding : Opt(Binds), revision : Nat]
    BY <2>1, EventClient
  <2> QED BY <1>4, <2>1, <2>2 DEF Forward, ClientTyped
<1>5. ASSUME NEW c \in Conns, ForwarderLags(c) \/ TransitionBegins(c) \/
            TransitionDrained(c) \/ CloserCloses(c) \/ CloserFindsClosed(c) \/
            CloserClosed(c) PROVE ClientTyped'
  BY <1>5, <1>u DEF ForwarderLags, RequestClose, TransitionBegins, TransitionDrained,
     CloserCloses, Receive, CloseEnters, Enter, CloserFindsClosed, CloserClosed, Drained,
     Remove, Leave
<1>6. ASSUME NEW q \in Requests, RequestEnds(q) PROVE ClientTyped'
  BY <1>6, <1>u DEF RequestEnds
<1>7. ASSUME NEW q \in Requests, NEW c \in Conns, Acquire(q, c) PROVE ClientTyped'
  BY <1>7, <1>u DEF Acquire
<1>8. ASSUME NEW b \in Binds, NEW c \in Conns, NEW r \in Roots, Ask(b, c, r) PROVE
            ClientTyped'
  BY <1>8, <1>u DEF Ask, Becomes
<1>9. ASSUME NEW b \in Binds, Prepare(b) \/ PrepareFails(b) \/ BindNoOp(b) \/ BindRefused(b)
            \/ BindBegins(b) \/ BindAborted(b) \/ StartForwarder(b) \/ SpawnFails(b) \/
            AttemptCloses(b) PROVE ClientTyped'
  BY <1>9, <1>u DEF Prepare, Expects, Becomes, PrepareFails, Release, Forgets, BindNoOp,
     BindRefused, BindBegins, Enter, BindAborted, Drained, Leave, StartForwarder, Forwards,
     SpawnFails, AttemptCloses, CloseEnters
<1>10. ASSUME NEW b \in Binds, AttemptFindsClosed(b) \/ AttemptClosed(b) \/ StillBound(b) \/
            NoLongerBound(b) \/ Idle(b) \/ ForwardFails(b) \/ StreamCloses(b) \/
            StreamFindsClosed(b) \/ StreamClosed(b) PROVE ClientTyped'
  BY <1>10, <1>u DEF AttemptFindsClosed, AfterClose, Becomes, AttemptClosed, Drained,
     Remove, Leave, StillBound, Forwards, NoLongerBound, Matches, Return, Idle,
     ForwardFails, StreamCloses, CloseEnters, Enter, StreamFindsClosed, StreamClosed
<1>11. ASSUME NEW r \in Roots, Publish(r) \/ SessionCloses(r) PROVE ClientTyped'
  BY <1>11, <1>u DEF Publish, SessionCloses
<1>12. CASE CloserClosesAll \/ CloserClosedAll \/ CloserStops \/ CloseAdmission \/
            RequestCloseAll \/ DrainEnds \/ UNCHANGED vars
  BY <1>12, <1>u DEF CloserClosesAll, Receive, CloseEnters, Enter, CloserClosedAll, Drained,
     Remove, Leave, CloserStops, CloseAdmission, RequestCloseAll, DrainEnds, vars
<1> QED BY <1>u, <1>1, <1>2, <1>3, <1>4, <1>5, <1>6, <1>7, <1>8, <1>9, <1>10, <1>11, <1>12
       DEF Next, AttemptStep, StreamStep, GateStep, CloserStep, MainStep

LEMMA NextRequestTyped == Typed /\ [Next]_vars => RequestTyped'
<1> SUFFICES ASSUME Typed, [Next]_vars PROVE RequestTyped'
  OBVIOUS
<1> USE DEF Typed, RegistryTyped, RequestTyped
<1>u. UNCHANGED <<lease>> => RequestTyped'
  OBVIOUS
<1>1. ASSUME NEW q \in Requests, RequestEnds(q) PROVE RequestTyped'
  BY <1>1 DEF RequestEnds
<1>2. ASSUME NEW q \in Requests, NEW c \in Conns, Acquire(q, c) PROVE RequestTyped'
  BY <1>2 DEF Acquire
<1>3. ASSUME NEW c \in Conns, Open(c) \/ ForwarderLags(c) \/ StreamDropped(c) \/
            TransitionBegins(c) \/ TransitionDrained(c) \/ CloserCloses(c) \/
            CloserFindsClosed(c) \/ CloserClosed(c) PROVE RequestTyped'
  BY <1>3, <1>u DEF Open, ForwarderLags, RequestClose, StreamDropped, Unbound,
     TransitionBegins, TransitionDrained, CloserCloses, Receive, CloseEnters, Enter,
     CloserFindsClosed, CloserClosed, Drained, Remove, Leave
<1>4. ASSUME NEW b \in Binds, NEW c \in Conns, NEW r \in Roots, Ask(b, c, r) PROVE
            RequestTyped'
  BY <1>4, <1>u DEF Ask, Becomes
<1>5. ASSUME NEW b \in Binds, Prepare(b) \/ PrepareFails(b) \/ BindNoOp(b) \/ BindRefused(b)
            \/ BindBegins(b) \/ BindAborted(b) \/ Commit(b) \/ StartForwarder(b) \/
            SpawnFails(b) \/ AttemptCloses(b) PROVE RequestTyped'
  BY <1>5, <1>u DEF Prepare, Expects, Becomes, PrepareFails, Release, Forgets, BindNoOp,
     BindRefused, BindBegins, Enter, BindAborted, Drained, Leave, Commit, CanBind, Fresh,
     Preempted, Rebind, StartForwarder, Forwards, SpawnFails, AttemptCloses, CloseEnters
<1>6. ASSUME NEW b \in Binds, AttemptFindsClosed(b) \/ AttemptClosed(b) \/ StillBound(b) \/
            NoLongerBound(b) \/ Idle(b) \/ Forward(b) \/ ForwardFails(b) \/ StreamCloses(b)
            \/ StreamFindsClosed(b) \/ StreamClosed(b) PROVE RequestTyped'
  BY <1>6, <1>u DEF AttemptFindsClosed, AfterClose, Becomes, AttemptClosed, Drained, Remove,
     Leave, StillBound, Forwards, NoLongerBound, Matches, Return, Idle, Forward,
     ForwardFails, StreamCloses, CloseEnters, Enter, StreamFindsClosed, StreamClosed
<1>7. ASSUME NEW r \in Roots, Publish(r) \/ SessionCloses(r) PROVE RequestTyped'
  BY <1>7, <1>u DEF Publish, SessionCloses
<1>8. CASE CloserClosesAll \/ CloserClosedAll \/ CloserStops \/ CloseAdmission \/
            RequestCloseAll \/ DrainEnds \/ UNCHANGED vars
  BY <1>8, <1>u DEF CloserClosesAll, Receive, CloseEnters, Enter, CloserClosedAll, Drained,
     Remove, Leave, CloserStops, CloseAdmission, RequestCloseAll, DrainEnds, vars
<1> QED BY <1>u, <1>1, <1>2, <1>3, <1>4, <1>5, <1>6, <1>7, <1>8 DEF Next, AttemptStep,
       StreamStep, GateStep, CloserStep, MainStep

LEMMA NextCommandsTyped == Typed /\ [Next]_vars => CommandsTyped'
<1> SUFFICES ASSUME Typed, [Next]_vars PROVE CommandsTyped'
  OBVIOUS
<1> USE DEF Typed
<1>u. UNCHANGED <<commands>> => CommandsTyped'
  BY DEF CommandsTyped
<1>1. ASSUME NEW c \in Conns, ForwarderLags(c) PROVE CommandsTyped'
  <2>1. <<"connection", c>> \in Command
    BY DEF Command
  <2> QED BY <1>1, <2>1 DEF ForwarderLags, RequestClose, CommandsTyped
<1>2. ASSUME NEW c \in Conns, StreamDropped(c) PROVE CommandsTyped'
  <2>1. CASE c \in records \ closing
    <3>1. commands' = Append(commands, <<"connection", c>>)
      BY <1>2, <2>1 DEF StreamDropped, RequestClose
    <3>2. <<"connection", c>> \in Command
      BY DEF Command
    <3> QED BY <3>1, <3>2 DEF CommandsTyped
  <2>2. CASE c \notin records \ closing
    BY <1>2, <2>2, <1>u DEF StreamDropped, RequestClose
  <2> QED BY <2>1, <2>2
<1>3. ASSUME NEW c \in Conns, CloserCloses(c) PROVE CommandsTyped'
  BY <1>3 DEF CloserCloses, Receive, CloseEnters, Enter, CommandsTyped
<1>4. ASSUME NEW c \in Conns, CloserFindsClosed(c) PROVE CommandsTyped'
  BY <1>4 DEF CloserFindsClosed, Receive, CommandsTyped
<1>5. ASSUME CloserClosesAll PROVE CommandsTyped'
  BY <1>5 DEF CloserClosesAll, Receive, CloseEnters, Enter, CommandsTyped
<1>6. ASSUME CloserStops PROVE CommandsTyped'
  BY <1>6 DEF CloserStops, Receive, CommandsTyped
<1>7. ASSUME RequestCloseAll PROVE CommandsTyped'
  <2>1. <<"all", Nobody>> \in Command
    BY DEF Command
  <2> QED BY <1>7, <2>1 DEF RequestCloseAll, CommandsTyped
<1>8. ASSUME DrainEnds PROVE CommandsTyped'
  <2>1. <<"shutdown", Nobody>> \in Command
    BY DEF Command
  <2> QED BY <1>8, <2>1 DEF DrainEnds, CommandsTyped
<1>9. ASSUME NEW c \in Conns, Open(c) \/ TransitionBegins(c) \/ TransitionDrained(c) \/
            CloserClosed(c) PROVE CommandsTyped'
  BY <1>9, <1>u DEF Open, TransitionBegins, TransitionDrained, CloserClosed, Drained,
     Remove, Leave
<1>10. ASSUME NEW q \in Requests, RequestEnds(q) PROVE CommandsTyped'
  BY <1>10, <1>u DEF RequestEnds
<1>11. ASSUME NEW q \in Requests, NEW c \in Conns, Acquire(q, c) PROVE CommandsTyped'
  BY <1>11, <1>u DEF Acquire
<1>12. ASSUME NEW b \in Binds, NEW c \in Conns, NEW r \in Roots, Ask(b, c, r) PROVE
            CommandsTyped'
  BY <1>12, <1>u DEF Ask, Becomes
<1>13. ASSUME NEW b \in Binds, Prepare(b) \/ PrepareFails(b) \/ BindNoOp(b) \/
            BindRefused(b) \/ BindBegins(b) \/ BindAborted(b) \/ Commit(b) \/
            StartForwarder(b) \/ SpawnFails(b) \/ AttemptCloses(b) PROVE CommandsTyped'
  BY <1>13, <1>u DEF Prepare, Expects, Becomes, PrepareFails, Release, Forgets, BindNoOp,
     BindRefused, BindBegins, Enter, BindAborted, Drained, Leave, Commit, CanBind, Fresh,
     Preempted, Rebind, StartForwarder, Forwards, SpawnFails, AttemptCloses, CloseEnters
<1>14. ASSUME NEW b \in Binds, AttemptFindsClosed(b) \/ AttemptClosed(b) \/ StillBound(b) \/
            NoLongerBound(b) \/ Idle(b) \/ Forward(b) \/ ForwardFails(b) \/ StreamCloses(b)
            \/ StreamFindsClosed(b) \/ StreamClosed(b) PROVE CommandsTyped'
  BY <1>14, <1>u DEF AttemptFindsClosed, AfterClose, Becomes, AttemptClosed, Drained,
     Remove, Leave, StillBound, Forwards, NoLongerBound, Matches, Return, Idle, Forward,
     ForwardFails, StreamCloses, CloseEnters, Enter, StreamFindsClosed, StreamClosed
<1>15. ASSUME NEW r \in Roots, Publish(r) \/ SessionCloses(r) PROVE CommandsTyped'
  BY <1>15, <1>u DEF Publish, SessionCloses
<1>16. CASE CloserClosedAll \/ CloseAdmission \/ UNCHANGED vars
  BY <1>16, <1>u DEF CloserClosedAll, Drained, Remove, Leave, CloseAdmission, vars
<1> QED BY <1>u, <1>1, <1>2, <1>3, <1>4, <1>5, <1>6, <1>7, <1>8, <1>9, <1>10, <1>11, <1>12,
       <1>13, <1>14, <1>15, <1>16 DEF Next, AttemptStep, StreamStep, GateStep, CloserStep,
       MainStep

-----------------------------------------------------------------------------
(* The bindings. *)
LEMMA NextOwners == Typed /\ Bindings /\ [Next]_vars => Owners'
<1> SUFFICES ASSUME Typed, Bindings, [Next]_vars PROVE Owners'
  OBVIOUS
<1> USE DEF Typed, RegistryTyped, AttemptTyped, Bindings, Owners, Owned, Made, Asked,
            Asking, Placed, Holding
<1>u. UNCHANGED <<owner_by_root, records, binding, root>> => Owners'
  OBVIOUS
<1>1. ASSUME NEW c \in Conns, Open(c) PROVE Owners'
  BY <1>1 DEF Open
<1>2. ASSUME NEW b \in Binds, NEW c \in Conns, NEW r \in Roots, Ask(b, c, r) PROVE Owners'
  BY <1>2 DEF Ask, Becomes
<1>3. ASSUME NEW b \in Binds, PrepareFails(b) PROVE Owners'
  <2>1. \A c \in Conns : binding[c] # b
    BY <1>3 DEF PrepareFails, Made
  <2>2. root' = [root EXCEPT ![b] = Nobody] /\ UNCHANGED <<owner_by_root, records, binding>>
    BY <1>3 DEF PrepareFails, Release
  <2> QED BY <2>1, <2>2 DEF Owners
<1>4. ASSUME NEW b \in Binds, BindNoOp(b) PROVE Owners'
  <2>1. \A c \in Conns : binding[c] # b
    BY <1>4 DEF BindNoOp, Made
  <2>2. root' = [root EXCEPT ![b] = Nobody] /\ UNCHANGED <<owner_by_root, records, binding>>
    BY <1>4 DEF BindNoOp, Release
  <2> QED BY <2>1, <2>2 DEF Owners
<1>5. ASSUME NEW b \in Binds, BindRefused(b) PROVE Owners'
  <2>1. \A c \in Conns : binding[c] # b
    BY <1>5 DEF BindRefused, Made
  <2>2. root' = [root EXCEPT ![b] = Nobody] /\ UNCHANGED <<owner_by_root, records, binding>>
    BY <1>5 DEF BindRefused, Release
  <2> QED BY <2>1, <2>2 DEF Owners
<1>6. ASSUME NEW b \in Binds, BindAborted(b) PROVE Owners'
  <2>1. \A c \in Conns : binding[c] # b
    BY <1>6 DEF BindAborted, Drained, Holding, Made
  <2>2. root' = [root EXCEPT ![b] = Nobody] /\ UNCHANGED <<owner_by_root, records, binding>>
    BY <1>6 DEF BindAborted, Release
  <2> QED BY <2>1, <2>2 DEF Owners
<1>7. ASSUME NEW b \in Binds, Commit(b) PROVE Owners'
  BY <1>7 DEF Commit, Drained, Leave, CanBind, Fresh, Preempted, Rebind, Forgets, Becomes
<1>8. ASSUME NEW b \in Binds, AttemptClosed(b) PROVE Owners'
  BY <1>8 DEF AttemptClosed, AfterClose, Drained, Remove, Leave, Becomes
<1>9. ASSUME NEW b \in Binds, NoLongerBound(b) PROVE Owners'
  BY <1>9 DEF NoLongerBound, Matches, Return, Forwards
<1>10. ASSUME NEW b \in Binds, StreamFindsClosed(b) PROVE Owners'
  BY <1>10 DEF StreamFindsClosed, Matches, Return, Forwards
<1>11. ASSUME NEW b \in Binds, StreamClosed(b) PROVE Owners'
  BY <1>11 DEF StreamClosed, Drained, Remove, Leave, Return, Forwards
<1>12. ASSUME NEW c \in Conns, CloserClosed(c) PROVE Owners'
  BY <1>12 DEF CloserClosed, Drained, Remove, Leave
<1>13. ASSUME CloserClosedAll PROVE Owners'
  BY <1>13 DEF CloserClosedAll, Drained, Remove, Leave
<1>14. ASSUME NEW c \in Conns, ForwarderLags(c) \/ StreamDropped(c) \/ TransitionBegins(c)
            \/ TransitionDrained(c) \/ CloserCloses(c) \/ CloserFindsClosed(c) PROVE Owners'
  BY <1>14, <1>u DEF ForwarderLags, RequestClose, StreamDropped, Unbound, TransitionBegins,
     TransitionDrained, CloserCloses, Receive, CloseEnters, Enter, CloserFindsClosed
<1>15. ASSUME NEW q \in Requests, RequestEnds(q) PROVE Owners'
  BY <1>15, <1>u DEF RequestEnds
<1>16. ASSUME NEW q \in Requests, NEW c \in Conns, Acquire(q, c) PROVE Owners'
  BY <1>16, <1>u DEF Acquire
<1>17. ASSUME NEW b \in Binds, Prepare(b) \/ BindBegins(b) \/ StartForwarder(b) \/
            SpawnFails(b) \/ AttemptCloses(b) \/ AttemptFindsClosed(b) PROVE Owners'
  BY <1>17, <1>u DEF Prepare, Expects, Becomes, BindBegins, Enter, StartForwarder, Forwards,
     SpawnFails, AttemptCloses, CloseEnters, AttemptFindsClosed, AfterClose
<1>18. ASSUME NEW b \in Binds, StillBound(b) \/ Idle(b) \/ Forward(b) \/ ForwardFails(b) \/
            StreamCloses(b) PROVE Owners'
  BY <1>18, <1>u DEF StillBound, Forwards, Idle, Forward, ForwardFails, StreamCloses,
     Matches, CloseEnters, Enter
<1>19. ASSUME NEW r \in Roots, Publish(r) \/ SessionCloses(r) PROVE Owners'
  BY <1>19, <1>u DEF Publish, SessionCloses
<1>20. CASE CloserClosesAll \/ CloserStops \/ CloseAdmission \/ RequestCloseAll \/ DrainEnds
            \/ UNCHANGED vars
  BY <1>20, <1>u DEF CloserClosesAll, Receive, CloseEnters, Enter, CloserStops,
     CloseAdmission, RequestCloseAll, DrainEnds, vars
<1> QED BY <1>u, <1>1, <1>2, <1>3, <1>4, <1>5, <1>6, <1>7, <1>8, <1>9, <1>10, <1>11, <1>12,
       <1>13, <1>14, <1>15, <1>16, <1>17, <1>18, <1>19, <1>20 DEF Next, AttemptStep,
       StreamStep, GateStep, CloserStep, MainStep

LEMMA NextOwned == Typed /\ Bindings /\ [Next]_vars => Owned'
<1> SUFFICES ASSUME Typed, Bindings, [Next]_vars PROVE Owned'
  OBVIOUS
<1> USE DEF Typed, RegistryTyped, AttemptTyped, Bindings, Owners, Owned, Made, Asked,
            Asking, Placed, Holding
<1>u. UNCHANGED <<owner_by_root, records, binding, root>> => Owned'
  OBVIOUS
<1>1. ASSUME NEW c \in Conns, Open(c) PROVE Owned'
  BY <1>1 DEF Open
<1>2. ASSUME NEW b \in Binds, NEW c \in Conns, NEW r \in Roots, Ask(b, c, r) PROVE Owned'
  BY <1>2 DEF Ask, Becomes
<1>3. ASSUME NEW b \in Binds, PrepareFails(b) PROVE Owned'
  <2>1. \A c \in Conns : binding[c] # b
    BY <1>3 DEF PrepareFails, Made
  <2>2. root' = [root EXCEPT ![b] = Nobody] /\ UNCHANGED <<owner_by_root, records, binding>>
    BY <1>3 DEF PrepareFails, Release
  <2> QED BY <2>1, <2>2 DEF Owned
<1>4. ASSUME NEW b \in Binds, BindNoOp(b) PROVE Owned'
  <2>1. \A c \in Conns : binding[c] # b
    BY <1>4 DEF BindNoOp, Made
  <2>2. root' = [root EXCEPT ![b] = Nobody] /\ UNCHANGED <<owner_by_root, records, binding>>
    BY <1>4 DEF BindNoOp, Release
  <2> QED BY <2>1, <2>2 DEF Owned
<1>5. ASSUME NEW b \in Binds, BindRefused(b) PROVE Owned'
  <2>1. \A c \in Conns : binding[c] # b
    BY <1>5 DEF BindRefused, Made
  <2>2. root' = [root EXCEPT ![b] = Nobody] /\ UNCHANGED <<owner_by_root, records, binding>>
    BY <1>5 DEF BindRefused, Release
  <2> QED BY <2>1, <2>2 DEF Owned
<1>6. ASSUME NEW b \in Binds, BindAborted(b) PROVE Owned'
  <2>1. \A c \in Conns : binding[c] # b
    BY <1>6 DEF BindAborted, Drained, Holding, Made
  <2>2. root' = [root EXCEPT ![b] = Nobody] /\ UNCHANGED <<owner_by_root, records, binding>>
    BY <1>6 DEF BindAborted, Release
  <2> QED BY <2>1, <2>2 DEF Owned
<1>7. ASSUME NEW b \in Binds, Commit(b) PROVE Owned'
  BY <1>7 DEF Commit, Drained, Leave, CanBind, Fresh, Preempted, Rebind, Forgets, Becomes
<1>8. ASSUME NEW b \in Binds, AttemptClosed(b) PROVE Owned'
  BY <1>8 DEF AttemptClosed, AfterClose, Drained, Remove, Leave, Becomes
<1>9. ASSUME NEW b \in Binds, NoLongerBound(b) PROVE Owned'
  BY <1>9 DEF NoLongerBound, Matches, Return, Forwards
<1>10. ASSUME NEW b \in Binds, StreamFindsClosed(b) PROVE Owned'
  BY <1>10 DEF StreamFindsClosed, Matches, Return, Forwards
<1>11. ASSUME NEW b \in Binds, StreamClosed(b) PROVE Owned'
  BY <1>11 DEF StreamClosed, Drained, Remove, Leave, Return, Forwards
<1>12. ASSUME NEW c \in Conns, CloserClosed(c) PROVE Owned'
  BY <1>12 DEF CloserClosed, Drained, Remove, Leave
<1>13. ASSUME CloserClosedAll PROVE Owned'
  BY <1>13 DEF CloserClosedAll, Drained, Remove, Leave
<1>14. ASSUME NEW c \in Conns, ForwarderLags(c) \/ StreamDropped(c) \/ TransitionBegins(c)
            \/ TransitionDrained(c) \/ CloserCloses(c) \/ CloserFindsClosed(c) PROVE Owned'
  BY <1>14, <1>u DEF ForwarderLags, RequestClose, StreamDropped, Unbound, TransitionBegins,
     TransitionDrained, CloserCloses, Receive, CloseEnters, Enter, CloserFindsClosed
<1>15. ASSUME NEW q \in Requests, RequestEnds(q) PROVE Owned'
  BY <1>15, <1>u DEF RequestEnds
<1>16. ASSUME NEW q \in Requests, NEW c \in Conns, Acquire(q, c) PROVE Owned'
  BY <1>16, <1>u DEF Acquire
<1>17. ASSUME NEW b \in Binds, Prepare(b) \/ BindBegins(b) \/ StartForwarder(b) \/
            SpawnFails(b) \/ AttemptCloses(b) \/ AttemptFindsClosed(b) PROVE Owned'
  BY <1>17, <1>u DEF Prepare, Expects, Becomes, BindBegins, Enter, StartForwarder, Forwards,
     SpawnFails, AttemptCloses, CloseEnters, AttemptFindsClosed, AfterClose
<1>18. ASSUME NEW b \in Binds, StillBound(b) \/ Idle(b) \/ Forward(b) \/ ForwardFails(b) \/
            StreamCloses(b) PROVE Owned'
  BY <1>18, <1>u DEF StillBound, Forwards, Idle, Forward, ForwardFails, StreamCloses,
     Matches, CloseEnters, Enter
<1>19. ASSUME NEW r \in Roots, Publish(r) \/ SessionCloses(r) PROVE Owned'
  BY <1>19, <1>u DEF Publish, SessionCloses
<1>20. CASE CloserClosesAll \/ CloserStops \/ CloseAdmission \/ RequestCloseAll \/ DrainEnds
            \/ UNCHANGED vars
  BY <1>20, <1>u DEF CloserClosesAll, Receive, CloseEnters, Enter, CloserStops,
     CloseAdmission, RequestCloseAll, DrainEnds, vars
<1> QED BY <1>u, <1>1, <1>2, <1>3, <1>4, <1>5, <1>6, <1>7, <1>8, <1>9, <1>10, <1>11, <1>12,
       <1>13, <1>14, <1>15, <1>16, <1>17, <1>18, <1>19, <1>20 DEF Next, AttemptStep,
       StreamStep, GateStep, CloserStep, MainStep

LEMMA NextExpecting == Typed /\ Bindings /\ [Next]_vars => Expecting'
<1> SUFFICES ASSUME Typed, Bindings, [Next]_vars PROVE Expecting'
  OBVIOUS
<1> USE DEF Typed, RegistryTyped, AttemptTyped, Bindings, Owners, Owned, Expecting, Asked,
            Asking, Made, Placed, Holding, Opened
<1>u. UNCHANGED <<pc, source, conn, records, generation, expected, binding>> => Expecting'
  OBVIOUS
<1>1. ASSUME NEW c \in Conns, Open(c) PROVE Expecting'
  BY <1>1 DEF Open
<1>2. ASSUME NEW b \in Binds, NEW c \in Conns, NEW r \in Roots, Ask(b, c, r) PROVE Expecting'
  BY <1>2 DEF Ask, Becomes
<1>3. ASSUME NEW b \in Binds, Prepare(b) PROVE Expecting'
  BY <1>3 DEF Prepare, Expects, Becomes
<1>4. ASSUME NEW b \in Binds, PrepareFails(b) PROVE Expecting'
  BY <1>4 DEF PrepareFails, Release, Forgets, Becomes
<1>5. ASSUME NEW b \in Binds, BindNoOp(b) PROVE Expecting'
  BY <1>5 DEF BindNoOp, Release, Forgets, Becomes
<1>6. ASSUME NEW b \in Binds, BindRefused(b) PROVE Expecting'
  BY <1>6 DEF BindRefused, Release, Forgets, Becomes
<1>7. ASSUME NEW b \in Binds, BindBegins(b) PROVE Expecting'
  BY <1>7 DEF BindBegins, Enter, Becomes
<1>8. ASSUME NEW b \in Binds, BindAborted(b) PROVE Expecting'
  BY <1>8 DEF BindAborted, Drained, Leave, Release, Forgets, Becomes
<1>9. ASSUME NEW b \in Binds, Commit(b) PROVE Expecting'
  BY <1>9 DEF Commit, Drained, Leave, CanBind, Fresh, Preempted, Rebind, Forgets, Becomes
<1>10. ASSUME NEW b \in Binds, StartForwarder(b) PROVE Expecting'
  BY <1>10 DEF StartForwarder, Becomes, Forwards
<1>11. ASSUME NEW b \in Binds, SpawnFails(b) PROVE Expecting'
  BY <1>11 DEF SpawnFails, Becomes
<1>12. ASSUME NEW b \in Binds, AttemptFindsClosed(b) PROVE Expecting'
  BY <1>12 DEF AttemptFindsClosed, AfterClose, Becomes
<1>13. ASSUME NEW b \in Binds, AttemptClosed(b) PROVE Expecting'
  BY <1>13 DEF AttemptClosed, AfterClose, Drained, Remove, Leave, Becomes
<1>14. ASSUME NEW b \in Binds, NoLongerBound(b) PROVE Expecting'
  BY <1>14 DEF NoLongerBound, Matches, Return, Forwards
<1>15. ASSUME NEW b \in Binds, StreamFindsClosed(b) PROVE Expecting'
  BY <1>15 DEF StreamFindsClosed, Matches, Return, Forwards
<1>16. ASSUME NEW b \in Binds, StreamClosed(b) PROVE Expecting'
  BY <1>16 DEF StreamClosed, Drained, Remove, Leave, Return, Forwards
<1>17. ASSUME NEW c \in Conns, CloserClosed(c) PROVE Expecting'
  BY <1>17 DEF CloserClosed, Drained, Remove, Leave
<1>18. ASSUME CloserClosedAll PROVE Expecting'
  BY <1>18 DEF CloserClosedAll, Drained, Remove, Leave
<1>19. ASSUME NEW c \in Conns, ForwarderLags(c) \/ StreamDropped(c) \/ TransitionBegins(c)
            \/ TransitionDrained(c) \/ CloserCloses(c) \/ CloserFindsClosed(c) PROVE
            Expecting'
  BY <1>19, <1>u DEF ForwarderLags, RequestClose, StreamDropped, Unbound, TransitionBegins,
     TransitionDrained, CloserCloses, Receive, CloseEnters, Enter, CloserFindsClosed
<1>20. ASSUME NEW q \in Requests, RequestEnds(q) PROVE Expecting'
  BY <1>20, <1>u DEF RequestEnds
<1>21. ASSUME NEW q \in Requests, NEW c \in Conns, Acquire(q, c) PROVE Expecting'
  BY <1>21, <1>u DEF Acquire
<1>22. ASSUME NEW b \in Binds, AttemptCloses(b) \/ StillBound(b) \/ Idle(b) \/ Forward(b) \/
            ForwardFails(b) \/ StreamCloses(b) PROVE Expecting'
  BY <1>22, <1>u DEF AttemptCloses, CloseEnters, Enter, StillBound, Forwards, Idle, Forward,
     ForwardFails, StreamCloses, Matches
<1>23. ASSUME NEW r \in Roots, Publish(r) \/ SessionCloses(r) PROVE Expecting'
  BY <1>23, <1>u DEF Publish, SessionCloses
<1>24. CASE CloserClosesAll \/ CloserStops \/ CloseAdmission \/ RequestCloseAll \/ DrainEnds
            \/ UNCHANGED vars
  BY <1>24, <1>u DEF CloserClosesAll, Receive, CloseEnters, Enter, CloserStops,
     CloseAdmission, RequestCloseAll, DrainEnds, vars
<1> QED BY <1>u, <1>1, <1>2, <1>3, <1>4, <1>5, <1>6, <1>7, <1>8, <1>9, <1>10, <1>11, <1>12,
       <1>13, <1>14, <1>15, <1>16, <1>17, <1>18, <1>19, <1>20, <1>21, <1>22, <1>23, <1>24
       DEF Next, AttemptStep, StreamStep, GateStep, CloserStep, MainStep

LEMMA NextAsked == Typed /\ Bindings /\ [Next]_vars => Asked'
<1> SUFFICES ASSUME Typed, Bindings, [Next]_vars PROVE Asked'
  OBVIOUS
<1> USE DEF Typed, RegistryTyped, AttemptTyped, Bindings, Asked, Asking, Placed, Holding
<1>u. UNCHANGED <<pc, conn, root, expected, generation>> => Asked'
  OBVIOUS
<1>1. ASSUME NEW b \in Binds, NEW c \in Conns, NEW r \in Roots, Ask(b, c, r) PROVE Asked'
  BY <1>1 DEF Ask, Becomes
<1>2. ASSUME NEW b \in Binds, Prepare(b) PROVE Asked'
  BY <1>2 DEF Prepare, Expects, Becomes
<1>3. ASSUME NEW b \in Binds, PrepareFails(b) PROVE Asked'
  BY <1>3 DEF PrepareFails, Release, Forgets, Becomes
<1>4. ASSUME NEW b \in Binds, BindNoOp(b) PROVE Asked'
  BY <1>4 DEF BindNoOp, Release, Forgets, Becomes
<1>5. ASSUME NEW b \in Binds, BindRefused(b) PROVE Asked'
  BY <1>5 DEF BindRefused, Release, Forgets, Becomes
<1>6. ASSUME NEW b \in Binds, BindBegins(b) PROVE Asked'
  BY <1>6 DEF BindBegins, Enter, Becomes
<1>7. ASSUME NEW b \in Binds, BindAborted(b) PROVE Asked'
  BY <1>7 DEF BindAborted, Drained, Leave, Release, Forgets, Becomes
<1>8. ASSUME NEW b \in Binds, Commit(b) PROVE Asked'
  BY <1>8 DEF Commit, Drained, Leave, CanBind, Fresh, Preempted, Rebind, Forgets, Becomes
<1>9. ASSUME NEW b \in Binds, StartForwarder(b) PROVE Asked'
  BY <1>9 DEF StartForwarder, Becomes, Forwards
<1>10. ASSUME NEW b \in Binds, SpawnFails(b) PROVE Asked'
  BY <1>10 DEF SpawnFails, Becomes
<1>11. ASSUME NEW b \in Binds, AttemptFindsClosed(b) PROVE Asked'
  BY <1>11 DEF AttemptFindsClosed, AfterClose, Becomes
<1>12. ASSUME NEW b \in Binds, AttemptClosed(b) PROVE Asked'
  BY <1>12 DEF AttemptClosed, AfterClose, Drained, Remove, Leave, Becomes
<1>13. ASSUME NEW b \in Binds, NoLongerBound(b) PROVE Asked'
  BY <1>13 DEF NoLongerBound, Matches, Return, Forwards
<1>14. ASSUME NEW b \in Binds, StreamFindsClosed(b) PROVE Asked'
  BY <1>14 DEF StreamFindsClosed, Matches, Return, Forwards
<1>15. ASSUME NEW b \in Binds, StreamClosed(b) PROVE Asked'
  BY <1>15 DEF StreamClosed, Drained, Remove, Leave, Return, Forwards
<1>16. ASSUME NEW c \in Conns, Open(c) \/ ForwarderLags(c) \/ StreamDropped(c) \/
            TransitionBegins(c) \/ TransitionDrained(c) \/ CloserCloses(c) \/
            CloserFindsClosed(c) \/ CloserClosed(c) PROVE Asked'
  BY <1>16, <1>u DEF Open, ForwarderLags, RequestClose, StreamDropped, Unbound,
     TransitionBegins, TransitionDrained, CloserCloses, Receive, CloseEnters, Enter,
     CloserFindsClosed, CloserClosed, Drained, Remove, Leave
<1>17. ASSUME NEW q \in Requests, RequestEnds(q) PROVE Asked'
  BY <1>17, <1>u DEF RequestEnds
<1>18. ASSUME NEW q \in Requests, NEW c \in Conns, Acquire(q, c) PROVE Asked'
  BY <1>18, <1>u DEF Acquire
<1>19. ASSUME NEW b \in Binds, AttemptCloses(b) \/ StillBound(b) \/ Idle(b) \/ Forward(b) \/
            ForwardFails(b) \/ StreamCloses(b) PROVE Asked'
  BY <1>19, <1>u DEF AttemptCloses, CloseEnters, Enter, StillBound, Forwards, Idle, Forward,
     ForwardFails, StreamCloses, Matches
<1>20. ASSUME NEW r \in Roots, Publish(r) \/ SessionCloses(r) PROVE Asked'
  BY <1>20, <1>u DEF Publish, SessionCloses
<1>21. CASE CloserClosesAll \/ CloserClosedAll \/ CloserStops \/ CloseAdmission \/
            RequestCloseAll \/ DrainEnds \/ UNCHANGED vars
  BY <1>21, <1>u DEF CloserClosesAll, Receive, CloseEnters, Enter, CloserClosedAll, Drained,
     Remove, Leave, CloserStops, CloseAdmission, RequestCloseAll, DrainEnds, vars
<1> QED BY <1>u, <1>1, <1>2, <1>3, <1>4, <1>5, <1>6, <1>7, <1>8, <1>9, <1>10, <1>11, <1>12,
       <1>13, <1>14, <1>15, <1>16, <1>17, <1>18, <1>19, <1>20, <1>21 DEF Next, AttemptStep,
       StreamStep, GateStep, CloserStep, MainStep

LEMMA NextMade == Typed /\ Bindings /\ [Next]_vars => Made'
<1> SUFFICES ASSUME Typed, Bindings, [Next]_vars PROVE Made'
  OBVIOUS
<1> USE DEF Typed, RegistryTyped, AttemptTyped, Bindings, Owners, Owned, Made, Asked,
            Asking, Placed, Holding
<1>u. UNCHANGED <<binding, conn, root, pc>> => Made'
  OBVIOUS
<1>1. ASSUME NEW b \in Binds, NEW c \in Conns, NEW r \in Roots, Ask(b, c, r) PROVE Made'
  BY <1>1 DEF Ask, Becomes
<1>2. ASSUME NEW b \in Binds, Prepare(b) PROVE Made'
  BY <1>2 DEF Prepare, Expects, Becomes
<1>3. ASSUME NEW b \in Binds, PrepareFails(b) PROVE Made'
  BY <1>3 DEF PrepareFails, Release, Forgets, Becomes
<1>4. ASSUME NEW b \in Binds, BindNoOp(b) PROVE Made'
  BY <1>4 DEF BindNoOp, Release, Forgets, Becomes
<1>5. ASSUME NEW b \in Binds, BindRefused(b) PROVE Made'
  BY <1>5 DEF BindRefused, Release, Forgets, Becomes
<1>6. ASSUME NEW b \in Binds, BindBegins(b) PROVE Made'
  BY <1>6 DEF BindBegins, Enter, Becomes
<1>7. ASSUME NEW b \in Binds, BindAborted(b) PROVE Made'
  BY <1>7 DEF BindAborted, Drained, Leave, Release, Forgets, Becomes
<1>8. ASSUME NEW b \in Binds, Commit(b) PROVE Made'
  BY <1>8 DEF Commit, Drained, Leave, CanBind, Fresh, Preempted, Rebind, Forgets, Becomes
<1>9. ASSUME NEW b \in Binds, StartForwarder(b) PROVE Made'
  BY <1>9 DEF StartForwarder, Becomes, Forwards
<1>10. ASSUME NEW b \in Binds, SpawnFails(b) PROVE Made'
  BY <1>10 DEF SpawnFails, Becomes
<1>11. ASSUME NEW b \in Binds, AttemptFindsClosed(b) PROVE Made'
  BY <1>11 DEF AttemptFindsClosed, AfterClose, Becomes
<1>12. ASSUME NEW b \in Binds, AttemptClosed(b) PROVE Made'
  BY <1>12 DEF AttemptClosed, AfterClose, Drained, Remove, Leave, Becomes
<1>13. ASSUME NEW b \in Binds, NoLongerBound(b) PROVE Made'
  BY <1>13 DEF NoLongerBound, Matches, Return, Forwards
<1>14. ASSUME NEW b \in Binds, StreamFindsClosed(b) PROVE Made'
  BY <1>14 DEF StreamFindsClosed, Matches, Return, Forwards
<1>15. ASSUME NEW b \in Binds, StreamClosed(b) PROVE Made'
  BY <1>15 DEF StreamClosed, Drained, Remove, Leave, Return, Forwards
<1>16. ASSUME NEW c \in Conns, CloserClosed(c) PROVE Made'
  BY <1>16 DEF CloserClosed, Drained, Remove, Leave
<1>17. ASSUME CloserClosedAll PROVE Made'
  BY <1>17 DEF CloserClosedAll, Drained, Remove, Leave
<1>18. ASSUME NEW c \in Conns, Open(c) \/ ForwarderLags(c) \/ StreamDropped(c) \/
            TransitionBegins(c) \/ TransitionDrained(c) \/ CloserCloses(c) \/
            CloserFindsClosed(c) PROVE Made'
  BY <1>18, <1>u DEF Open, ForwarderLags, RequestClose, StreamDropped, Unbound,
     TransitionBegins, TransitionDrained, CloserCloses, Receive, CloseEnters, Enter,
     CloserFindsClosed
<1>19. ASSUME NEW q \in Requests, RequestEnds(q) PROVE Made'
  BY <1>19, <1>u DEF RequestEnds
<1>20. ASSUME NEW q \in Requests, NEW c \in Conns, Acquire(q, c) PROVE Made'
  BY <1>20, <1>u DEF Acquire
<1>21. ASSUME NEW b \in Binds, AttemptCloses(b) \/ StillBound(b) \/ Idle(b) \/ Forward(b) \/
            ForwardFails(b) \/ StreamCloses(b) PROVE Made'
  BY <1>21, <1>u DEF AttemptCloses, CloseEnters, Enter, StillBound, Forwards, Idle, Forward,
     ForwardFails, StreamCloses, Matches
<1>22. ASSUME NEW r \in Roots, Publish(r) \/ SessionCloses(r) PROVE Made'
  BY <1>22, <1>u DEF Publish, SessionCloses
<1>23. CASE CloserClosesAll \/ CloserStops \/ CloseAdmission \/ RequestCloseAll \/ DrainEnds
            \/ UNCHANGED vars
  BY <1>23, <1>u DEF CloserClosesAll, Receive, CloseEnters, Enter, CloserStops,
     CloseAdmission, RequestCloseAll, DrainEnds, vars
<1> QED BY <1>u, <1>1, <1>2, <1>3, <1>4, <1>5, <1>6, <1>7, <1>8, <1>9, <1>10, <1>11, <1>12,
       <1>13, <1>14, <1>15, <1>16, <1>17, <1>18, <1>19, <1>20, <1>21, <1>22, <1>23 DEF Next,
       AttemptStep, StreamStep, GateStep, CloserStep, MainStep

LEMMA NextPlaced == Typed /\ Bindings /\ [Next]_vars => Placed'
<1> SUFFICES ASSUME Typed, Bindings, [Next]_vars PROVE Placed'
  OBVIOUS
<1> USE DEF Typed, RegistryTyped, AttemptTyped, Bindings, ProjectTyped, Asked, Asking,
            Placed, Holding
<1>u. UNCHANGED <<pc, conn, forwarder, victim>> => Placed'
  OBVIOUS
<1>1. ASSUME NEW b \in Binds, NEW c \in Conns, NEW r \in Roots, Ask(b, c, r) PROVE Placed'
  BY <1>1 DEF Ask, Becomes
<1>2. ASSUME NEW b \in Binds, Prepare(b) PROVE Placed'
  BY <1>2 DEF Prepare, Expects, Becomes
<1>3. ASSUME NEW b \in Binds, PrepareFails(b) PROVE Placed'
  BY <1>3 DEF PrepareFails, Release, Forgets, Becomes
<1>4. ASSUME NEW b \in Binds, BindNoOp(b) PROVE Placed'
  BY <1>4 DEF BindNoOp, Release, Forgets, Becomes
<1>5. ASSUME NEW b \in Binds, BindRefused(b) PROVE Placed'
  BY <1>5 DEF BindRefused, Release, Forgets, Becomes
<1>6. ASSUME NEW b \in Binds, BindBegins(b) PROVE Placed'
  BY <1>6 DEF BindBegins, Enter, Becomes
<1>7. ASSUME NEW b \in Binds, BindAborted(b) PROVE Placed'
  BY <1>7 DEF BindAborted, Drained, Leave, Release, Forgets, Becomes
<1>8. ASSUME NEW b \in Binds, Commit(b) PROVE Placed'
  BY <1>8 DEF Commit, Drained, Leave, CanBind, Fresh, Preempted, Rebind, Forgets, Becomes
<1>9. ASSUME NEW b \in Binds, StartForwarder(b) PROVE Placed'
  BY <1>9 DEF StartForwarder, Becomes, Forwards
<1>10. ASSUME NEW b \in Binds, SpawnFails(b) PROVE Placed'
  BY <1>10 DEF SpawnFails, Becomes
<1>11. ASSUME NEW b \in Binds, AttemptFindsClosed(b) PROVE Placed'
  BY <1>11 DEF AttemptFindsClosed, AfterClose, Becomes
<1>12. ASSUME NEW b \in Binds, AttemptClosed(b) PROVE Placed'
  BY <1>12 DEF AttemptClosed, AfterClose, Drained, Remove, Leave, Becomes
<1>13. ASSUME NEW b \in Binds, StillBound(b) PROVE Placed'
  BY <1>13 DEF StillBound, Forwards
<1>14. ASSUME NEW b \in Binds, NoLongerBound(b) PROVE Placed'
  <2>1. pc[b] = "streaming"
    BY <1>14 DEF NoLongerBound, Placed
  <2>2. /\ UNCHANGED <<pc, victim>> /\ conn' = [conn EXCEPT ![b] = Nobody]
        /\ forwarder' = [forwarder EXCEPT ![b] = "gone"]
    BY <1>14 DEF NoLongerBound, Return, Forwards
  <2> QED BY <2>1, <2>2 DEF Placed
<1>15. ASSUME NEW b \in Binds, Idle(b) PROVE Placed'
  BY <1>15 DEF Idle, Forwards
<1>16. ASSUME NEW b \in Binds, Forward(b) PROVE Placed'
  BY <1>16 DEF Forward, Forwards
<1>17. ASSUME NEW b \in Binds, ForwardFails(b) PROVE Placed'
  BY <1>17 DEF ForwardFails, Forwards
<1>18. ASSUME NEW b \in Binds, StreamCloses(b) PROVE Placed'
  BY <1>18 DEF StreamCloses, Matches, CloseEnters, Enter, Forwards
<1>19. ASSUME NEW b \in Binds, StreamFindsClosed(b) PROVE Placed'
  <2>1. pc[b] = "streaming"
    BY <1>19 DEF StreamFindsClosed, Placed
  <2>2. /\ UNCHANGED <<pc, victim>> /\ conn' = [conn EXCEPT ![b] = Nobody]
        /\ forwarder' = [forwarder EXCEPT ![b] = "gone"]
    BY <1>19 DEF StreamFindsClosed, Return, Forwards
  <2> QED BY <2>1, <2>2 DEF Placed
<1>20. ASSUME NEW b \in Binds, StreamClosed(b) PROVE Placed'
  <2>1. pc[b] = "streaming"
    BY <1>20 DEF StreamClosed, Drained, Holding, Placed
  <2>2. /\ UNCHANGED <<pc, victim>> /\ conn' = [conn EXCEPT ![b] = Nobody]
        /\ forwarder' = [forwarder EXCEPT ![b] = "gone"]
    BY <1>20 DEF StreamClosed, Return, Forwards
  <2> QED BY <2>1, <2>2 DEF Placed
<1>21. ASSUME NEW c \in Conns, Open(c) \/ ForwarderLags(c) \/ StreamDropped(c) \/
            TransitionBegins(c) \/ TransitionDrained(c) \/ CloserCloses(c) \/
            CloserFindsClosed(c) \/ CloserClosed(c) PROVE Placed'
  BY <1>21, <1>u DEF Open, ForwarderLags, RequestClose, StreamDropped, Unbound,
     TransitionBegins, TransitionDrained, CloserCloses, Receive, CloseEnters, Enter,
     CloserFindsClosed, CloserClosed, Drained, Remove, Leave
<1>22. ASSUME NEW q \in Requests, RequestEnds(q) PROVE Placed'
  BY <1>22, <1>u DEF RequestEnds
<1>23. ASSUME NEW q \in Requests, NEW c \in Conns, Acquire(q, c) PROVE Placed'
  BY <1>23, <1>u DEF Acquire
<1>24. ASSUME NEW b \in Binds, AttemptCloses(b) PROVE Placed'
  BY <1>24, <1>u DEF AttemptCloses, CloseEnters, Enter
<1>25. ASSUME NEW r \in Roots, Publish(r) \/ SessionCloses(r) PROVE Placed'
  BY <1>25, <1>u DEF Publish, SessionCloses
<1>26. CASE CloserClosesAll \/ CloserClosedAll \/ CloserStops \/ CloseAdmission \/
            RequestCloseAll \/ DrainEnds \/ UNCHANGED vars
  BY <1>26, <1>u DEF CloserClosesAll, Receive, CloseEnters, Enter, CloserClosedAll, Drained,
     Remove, Leave, CloserStops, CloseAdmission, RequestCloseAll, DrainEnds, vars
<1> QED BY <1>u, <1>1, <1>2, <1>3, <1>4, <1>5, <1>6, <1>7, <1>8, <1>9, <1>10, <1>11, <1>12,
       <1>13, <1>14, <1>15, <1>16, <1>17, <1>18, <1>19, <1>20, <1>21, <1>22, <1>23, <1>24,
       <1>25, <1>26 DEF Next, AttemptStep, StreamStep, GateStep, CloserStep, MainStep

LEMMA NextHolding == Typed /\ Bindings /\ [Next]_vars => Holding'
<1> SUFFICES ASSUME Typed, Bindings, [Next]_vars PROVE Holding'
  OBVIOUS
<1> USE DEF Typed, RegistryTyped, AttemptTyped, Bindings, ProjectTyped, Placed, Holding
<1> USE NobodyHolds
<1>u. UNCHANGED <<transaction, pc, forwarder>> => Holding'
  OBVIOUS
<1>1. ASSUME NEW b \in Binds, NEW c \in Conns, NEW r \in Roots, Ask(b, c, r) PROVE Holding'
  BY <1>1 DEF Ask, Becomes
<1>2. ASSUME NEW b \in Binds, Prepare(b) PROVE Holding'
  BY <1>2 DEF Prepare, Expects, Becomes
<1>3. ASSUME NEW b \in Binds, PrepareFails(b) PROVE Holding'
  BY <1>3 DEF PrepareFails, Release, Forgets, Becomes
<1>4. ASSUME NEW b \in Binds, BindNoOp(b) PROVE Holding'
  BY <1>4 DEF BindNoOp, Release, Forgets, Becomes
<1>5. ASSUME NEW b \in Binds, BindRefused(b) PROVE Holding'
  BY <1>5 DEF BindRefused, Release, Forgets, Becomes
<1>6. ASSUME NEW b \in Binds, BindBegins(b) PROVE Holding'
  BY <1>6 DEF BindBegins, Enter, Becomes
<1>7. ASSUME NEW b \in Binds, BindAborted(b) PROVE Holding'
  BY <1>7 DEF BindAborted, Drained, Leave, Release, Forgets, Becomes
<1>8. ASSUME NEW b \in Binds, Commit(b) PROVE Holding'
  BY <1>8 DEF Commit, Drained, Leave, CanBind, Fresh, Preempted, Rebind, Forgets, Becomes
<1>9. ASSUME NEW b \in Binds, StartForwarder(b) PROVE Holding'
  <2>1. pc[b] = "bound" /\ forwarder[b] = "none"
    BY <1>9 DEF StartForwarder
  <2>2. \A stage \in {"bind", "displace", "abandon", "stream"} : transaction # <<stage, b>>
    BY <2>1
  <2>3. /\ transaction' = transaction /\ pc' = [pc EXCEPT ![b] = "streaming"]
        /\ forwarder' = [forwarder EXCEPT ![b] = "check"]
    BY <1>9 DEF StartForwarder, Becomes, Forwards
  <2> QED BY <2>2, <2>3
<1>10. ASSUME NEW b \in Binds, SpawnFails(b) PROVE Holding'
  BY <1>10 DEF SpawnFails, Becomes
<1>11. ASSUME NEW b \in Binds, AttemptCloses(b) PROVE Holding'
  BY <1>11 DEF AttemptCloses, CloseEnters, Enter
<1>12. ASSUME NEW b \in Binds, AttemptFindsClosed(b) PROVE Holding'
  BY <1>12 DEF AttemptFindsClosed, AfterClose, Becomes
<1>13. ASSUME NEW b \in Binds, AttemptClosed(b) PROVE Holding'
  BY <1>13 DEF AttemptClosed, AfterClose, Drained, Remove, Leave, Becomes
<1>14. ASSUME NEW b \in Binds, StillBound(b) PROVE Holding'
  BY <1>14 DEF StillBound, Forwards
<1>15. ASSUME NEW b \in Binds, NoLongerBound(b) PROVE Holding'
  BY <1>15 DEF NoLongerBound, Matches, Return, Forwards
<1>16. ASSUME NEW b \in Binds, Idle(b) PROVE Holding'
  BY <1>16 DEF Idle, Forwards
<1>17. ASSUME NEW b \in Binds, Forward(b) PROVE Holding'
  BY <1>17 DEF Forward, Forwards
<1>18. ASSUME NEW b \in Binds, ForwardFails(b) PROVE Holding'
  BY <1>18 DEF ForwardFails, Forwards
<1>19. ASSUME NEW b \in Binds, StreamCloses(b) PROVE Holding'
  BY <1>19 DEF StreamCloses, Matches, CloseEnters, Enter, Forwards
<1>20. ASSUME NEW b \in Binds, StreamFindsClosed(b) PROVE Holding'
  BY <1>20 DEF StreamFindsClosed, Matches, Return, Forwards
<1>21. ASSUME NEW b \in Binds, StreamClosed(b) PROVE Holding'
  BY <1>21 DEF StreamClosed, Drained, Remove, Leave, Return, Forwards
<1>22. ASSUME NEW c \in Conns, CloserCloses(c) PROVE Holding'
  BY <1>22 DEF CloserCloses, Receive, CloseEnters, Enter
<1>23. ASSUME NEW c \in Conns, CloserClosed(c) PROVE Holding'
  BY <1>23 DEF CloserClosed, Drained, Remove, Leave
<1>24. ASSUME CloserClosesAll PROVE Holding'
  BY <1>24 DEF CloserClosesAll, Receive, CloseEnters, Enter
<1>25. ASSUME CloserClosedAll PROVE Holding'
  BY <1>25 DEF CloserClosedAll, Drained, Remove, Leave
<1>26. ASSUME NEW c \in Conns, Open(c) \/ ForwarderLags(c) \/ StreamDropped(c) \/
            TransitionBegins(c) \/ TransitionDrained(c) \/ CloserFindsClosed(c) PROVE
            Holding'
  BY <1>26, <1>u DEF Open, ForwarderLags, RequestClose, StreamDropped, Unbound,
     TransitionBegins, TransitionDrained, CloserFindsClosed, Receive
<1>27. ASSUME NEW q \in Requests, RequestEnds(q) PROVE Holding'
  BY <1>27, <1>u DEF RequestEnds
<1>28. ASSUME NEW q \in Requests, NEW c \in Conns, Acquire(q, c) PROVE Holding'
  BY <1>28, <1>u DEF Acquire
<1>29. ASSUME NEW r \in Roots, Publish(r) \/ SessionCloses(r) PROVE Holding'
  BY <1>29, <1>u DEF Publish, SessionCloses
<1>30. CASE CloserStops \/ CloseAdmission \/ RequestCloseAll \/ DrainEnds \/ UNCHANGED vars
  BY <1>30, <1>u DEF CloserStops, Receive, CloseAdmission, RequestCloseAll, DrainEnds, vars
<1> QED BY <1>u, <1>1, <1>2, <1>3, <1>4, <1>5, <1>6, <1>7, <1>8, <1>9, <1>10, <1>11, <1>12,
       <1>13, <1>14, <1>15, <1>16, <1>17, <1>18, <1>19, <1>20, <1>21, <1>22, <1>23, <1>24,
       <1>25, <1>26, <1>27, <1>28, <1>29, <1>30 DEF Next, AttemptStep, StreamStep, GateStep,
       CloserStep, MainStep

LEMMA NextOpened == Typed /\ Bindings /\ [Next]_vars => Opened'
<1> SUFFICES ASSUME Typed, Bindings, [Next]_vars PROVE Opened'
  OBVIOUS
<1> USE DEF Typed, RegistryTyped, AttemptTyped, Bindings, ClientTyped, Asked, Asking, Opened
<1>u. UNCHANGED <<records, client, conn>> => Opened'
  OBVIOUS
<1>1. ASSUME NEW c \in Conns, Open(c) PROVE Opened'
  BY <1>1 DEF Open, Unbound
<1>2. ASSUME NEW c \in Conns, StreamDropped(c) PROVE Opened'
  BY <1>2 DEF StreamDropped, RequestClose, Unbound
<1>3. ASSUME NEW b \in Binds, NEW c \in Conns, NEW r \in Roots, Ask(b, c, r) PROVE Opened'
  BY <1>3 DEF Ask, Becomes
<1>4. ASSUME NEW b \in Binds, PrepareFails(b) PROVE Opened'
  BY <1>4 DEF PrepareFails, Release, Forgets, Becomes
<1>5. ASSUME NEW b \in Binds, BindNoOp(b) PROVE Opened'
  BY <1>5 DEF BindNoOp, Release, Forgets, Becomes
<1>6. ASSUME NEW b \in Binds, BindRefused(b) PROVE Opened'
  BY <1>6 DEF BindRefused, Release, Forgets, Becomes
<1>7. ASSUME NEW b \in Binds, BindAborted(b) PROVE Opened'
  BY <1>7 DEF BindAborted, Drained, Leave, Release, Forgets, Becomes
<1>8. ASSUME NEW b \in Binds, Commit(b) PROVE Opened'
  <2>1. \A c \in Conns : client'[c].status = "none" => client[c].status = "none"
    <3>1. PICK told \in SUBSET {c \in Preempted(b) : Reads(c)} : Rebind(b, told)
      BY <1>8 DEF Commit
    <3> QED BY <3>1, PreemptedClient DEF Rebind, AcceptBound
  <2>2. UNCHANGED <<records, conn>>
    BY <1>8 DEF Commit
  <2> QED BY <2>1, <2>2
<1>9. ASSUME NEW b \in Binds, AttemptClosed(b) PROVE Opened'
  BY <1>9 DEF AttemptClosed, AfterClose, Drained, Remove, Leave, Becomes
<1>10. ASSUME NEW b \in Binds, NoLongerBound(b) PROVE Opened'
  BY <1>10 DEF NoLongerBound, Matches, Return, Forwards
<1>11. ASSUME NEW b \in Binds, Forward(b) PROVE Opened'
  <2>1. conn[b] \in Conns /\ Head(queue[b]) \in Nat
    BY <1>11 DEF Forward, Placed, ProjectTyped
  <2>2. \A c \in Conns : client'[c].status = "none" => client[c].status = "none"
    <3>1. ASSUME NEW c \in Conns, c = conn[b]
          PROVE  client'[c].status = "none" => client[c].status = "none"
      BY <1>11, <2>1, <3>1, EventClient DEF Forward
    <3>2. ASSUME NEW c \in Conns, c # conn[b] PROVE client'[c] = client[c]
      BY <1>11, <3>2 DEF Forward
    <3> QED BY <3>1, <3>2
  <2>3. UNCHANGED <<records, conn>>
    BY <1>11 DEF Forward
  <2> QED BY <2>2, <2>3
<1>12. ASSUME NEW b \in Binds, StreamFindsClosed(b) PROVE Opened'
  BY <1>12 DEF StreamFindsClosed, Matches, Return, Forwards
<1>13. ASSUME NEW b \in Binds, StreamClosed(b) PROVE Opened'
  BY <1>13 DEF StreamClosed, Drained, Remove, Leave, Return, Forwards
<1>14. ASSUME NEW c \in Conns, CloserClosed(c) PROVE Opened'
  BY <1>14 DEF CloserClosed, Drained, Remove, Leave
<1>15. ASSUME CloserClosedAll PROVE Opened'
  BY <1>15 DEF CloserClosedAll, Drained, Remove, Leave
<1>16. ASSUME NEW c \in Conns, ForwarderLags(c) \/ TransitionBegins(c) \/
            TransitionDrained(c) \/ CloserCloses(c) \/ CloserFindsClosed(c) PROVE Opened'
  BY <1>16, <1>u DEF ForwarderLags, RequestClose, TransitionBegins, TransitionDrained,
     CloserCloses, Receive, CloseEnters, Enter, CloserFindsClosed
<1>17. ASSUME NEW q \in Requests, RequestEnds(q) PROVE Opened'
  BY <1>17, <1>u DEF RequestEnds
<1>18. ASSUME NEW q \in Requests, NEW c \in Conns, Acquire(q, c) PROVE Opened'
  BY <1>18, <1>u DEF Acquire
<1>19. ASSUME NEW b \in Binds, Prepare(b) \/ BindBegins(b) \/ StartForwarder(b) \/
            SpawnFails(b) \/ AttemptCloses(b) PROVE Opened'
  BY <1>19, <1>u DEF Prepare, Expects, Becomes, BindBegins, Enter, StartForwarder, Forwards,
     SpawnFails, AttemptCloses, CloseEnters
<1>20. ASSUME NEW b \in Binds, AttemptFindsClosed(b) \/ StillBound(b) \/ Idle(b) \/
            ForwardFails(b) \/ StreamCloses(b) PROVE Opened'
  BY <1>20, <1>u DEF AttemptFindsClosed, AfterClose, Becomes, StillBound, Forwards, Idle,
     ForwardFails, StreamCloses, Matches, CloseEnters, Enter
<1>21. ASSUME NEW r \in Roots, Publish(r) \/ SessionCloses(r) PROVE Opened'
  BY <1>21, <1>u DEF Publish, SessionCloses
<1>22. CASE CloserClosesAll \/ CloserStops \/ CloseAdmission \/ RequestCloseAll \/ DrainEnds
            \/ UNCHANGED vars
  BY <1>22, <1>u DEF CloserClosesAll, Receive, CloseEnters, Enter, CloserStops,
     CloseAdmission, RequestCloseAll, DrainEnds, vars
<1> QED BY <1>u, <1>1, <1>2, <1>3, <1>4, <1>5, <1>6, <1>7, <1>8, <1>9, <1>10, <1>11, <1>12,
       <1>13, <1>14, <1>15, <1>16, <1>17, <1>18, <1>19, <1>20, <1>21, <1>22 DEF Next,
       AttemptStep, StreamStep, GateStep, CloserStep, MainStep

-----------------------------------------------------------------------------
(* The leases. *)
LEMMA LeaseIsBusy ==
  ASSUME RequestTyped, NEW q \in Requests, lease[q] # Nobody
  PROVE  lease[q][1] \in Conns /\ Busy(lease[q][1])
BY DEF RequestTyped, Busy

\* A gate in transition admits no request, and a request that ends makes nothing busy.
LEMMA AcquireKeepsGates ==
  ASSUME NEW q \in Requests, NEW d \in Conns, RequestTyped, Acquire(q, d), NEW c \in Conns,
         Gated(c)
  PROVE  Gated(c)'
<1>1. CASE c \in gates
  BY <1>1 DEF Acquire, Gated
<1>2. CASE c \in transitioning /\ ~Busy(c)
  <2>1. c # d
    BY <1>2 DEF Acquire
  <2>2. \A p \in Requests, b \in Binds : lease'[p] = <<c, b>> => lease[p] = <<c, b>>
    BY <2>1 DEF Acquire, RequestTyped
  <2> QED BY <1>2, <2>2 DEF Acquire, Gated, Busy
<1> QED BY <1>1, <1>2 DEF Gated

LEMMA EndKeepsGates ==
  ASSUME NEW q \in Requests, RequestTyped, RequestEnds(q), NEW c \in Conns, Gated(c)
  PROVE  Gated(c)'
<1>1. \A p \in Requests, b \in Binds : lease'[p] = <<c, b>> => lease[p] = <<c, b>> \/ p = q
  BY DEF RequestEnds, RequestTyped
<1>2. \A b \in Binds : lease'[q] # <<c, b>>
  BY DEF RequestEnds, RequestTyped
<1>3. CASE c \in gates
  BY <1>3 DEF RequestEnds, Gated
<1>4. CASE c \in transitioning /\ ~Busy(c)
  BY <1>1, <1>2, <1>4 DEF RequestEnds, Gated, Busy
<1> QED BY <1>3, <1>4 DEF Gated

LEMMA NextLeases == Typed /\ Bindings /\ Leases /\ [Next]_vars => LeaseKeepsBinding'
<1> SUFFICES ASSUME Typed, Bindings, Leases, [Next]_vars PROVE LeaseKeepsBinding'
  OBVIOUS
<1> USE DEF Typed, RegistryTyped, AttemptTyped, RequestTyped, ProjectTyped, Bindings, Asked,
            Asking, Made, Placed, Holding, Leases, Waits, Gated, Busy, LeaseKeepsBinding,
            Matches, BindWaits, CloseWaits, StreamWaits, CloserWaits
<1> USE NobodyHolds
<1>u. UNCHANGED <<lease, records, binding>> => LeaseKeepsBinding'
  OBVIOUS
<1>1. ASSUME NEW c \in Conns, Open(c) PROVE LeaseKeepsBinding'
  BY <1>1 DEF Open
<1>2. ASSUME NEW q \in Requests, RequestEnds(q) PROVE LeaseKeepsBinding'
  BY <1>2 DEF RequestEnds
<1>3. ASSUME NEW q \in Requests, NEW c \in Conns, Acquire(q, c) PROVE LeaseKeepsBinding'
  BY <1>3 DEF Acquire
<1>4. ASSUME NEW b \in Binds, Commit(b) PROVE LeaseKeepsBinding'
  <2>1. \A c \in {conn[b]} \cup Preempted(b) : ~Busy(c)
    BY <1>4 DEF Commit, Drained, Preempted
  <2>2. /\ UNCHANGED <<records, lease>>
        /\ \A c \in Conns \ ({conn[b]} \cup Preempted(b)) : binding'[c] = binding[c]
    BY <1>4 DEF Commit, Rebind
  <2>3. ASSUME NEW q \in Requests, lease[q] # Nobody PROVE Matches(lease[q][1], lease[q][2])'
    <3>1. lease[q][1] \in Conns /\ Busy(lease[q][1])
      BY <2>3, LeaseIsBusy
    <3> HIDE DEF Busy
    <3> QED BY <2>1, <2>2, <2>3, <3>1
  <2> QED BY <2>2, <2>3
<1>5. ASSUME NEW b \in Binds, AttemptClosed(b) PROVE LeaseKeepsBinding'
  <2>1. \A c \in {victim[b]} : ~Busy(c)
    BY <1>5 DEF AttemptClosed, Drained
  <2>2. /\ UNCHANGED lease /\ \A c \in records \ {victim[b]} : c \in records'
        /\ \A c \in Conns \ {victim[b]} : binding'[c] = binding[c]
    BY <1>5 DEF AttemptClosed, Remove
  <2>3. ASSUME NEW q \in Requests, lease[q] # Nobody PROVE Matches(lease[q][1], lease[q][2])'
    <3>1. lease[q][1] \in Conns /\ Busy(lease[q][1])
      BY <2>3, LeaseIsBusy
    <3> HIDE DEF Busy
    <3> QED BY <2>1, <2>2, <2>3, <3>1
  <2> QED BY <2>2, <2>3
<1>6. ASSUME NEW b \in Binds, StreamClosed(b) PROVE LeaseKeepsBinding'
  <2>1. \A c \in {conn[b]} : ~Busy(c)
    BY <1>6 DEF StreamClosed, Drained
  <2>2. /\ UNCHANGED lease /\ \A c \in records \ {conn[b]} : c \in records'
        /\ \A c \in Conns \ {conn[b]} : binding'[c] = binding[c]
    BY <1>6 DEF StreamClosed, Remove, Return
  <2>3. ASSUME NEW q \in Requests, lease[q] # Nobody PROVE Matches(lease[q][1], lease[q][2])'
    <3>1. lease[q][1] \in Conns /\ Busy(lease[q][1])
      BY <2>3, LeaseIsBusy
    <3> HIDE DEF Busy
    <3> QED BY <2>1, <2>2, <2>3, <3>1
  <2> QED BY <2>2, <2>3
<1>7. ASSUME NEW c \in Conns, CloserClosed(c) PROVE LeaseKeepsBinding'
  <2>1. \A d \in {c} : ~Busy(d)
    BY <1>7 DEF CloserClosed, Drained
  <2>2. /\ UNCHANGED lease /\ \A d \in records \ {c} : d \in records'
        /\ \A d \in Conns \ {c} : binding'[d] = binding[d]
    BY <1>7 DEF CloserClosed, Remove
  <2>3. ASSUME NEW q \in Requests, lease[q] # Nobody PROVE Matches(lease[q][1], lease[q][2])'
    <3>1. lease[q][1] \in Conns /\ Busy(lease[q][1])
      BY <2>3, LeaseIsBusy
    <3> HIDE DEF Busy
    <3> QED BY <2>1, <2>2, <2>3, <3>1
  <2> QED BY <2>2, <2>3
<1>8. ASSUME CloserClosedAll PROVE LeaseKeepsBinding'
  <2>1. \A c \in records : ~Busy(c)
    BY <1>8 DEF CloserClosedAll, Drained
  <2>2. /\ UNCHANGED lease /\ \A c \in records \ records : c \in records'
        /\ \A c \in Conns \ records : binding'[c] = binding[c]
    BY <1>8 DEF CloserClosedAll, Remove
  <2>3. ASSUME NEW q \in Requests, lease[q] # Nobody PROVE Matches(lease[q][1], lease[q][2])'
    <3>1. lease[q][1] \in Conns /\ Busy(lease[q][1])
      BY <2>3, LeaseIsBusy
    <3> HIDE DEF Busy
    <3> QED BY <2>1, <2>2, <2>3, <3>1
  <2> QED BY <2>2, <2>3
<1>9. ASSUME NEW c \in Conns, ForwarderLags(c) \/ StreamDropped(c) \/ TransitionBegins(c) \/
            TransitionDrained(c) \/ CloserCloses(c) \/ CloserFindsClosed(c) PROVE
            LeaseKeepsBinding'
  BY <1>9, <1>u DEF ForwarderLags, RequestClose, StreamDropped, Unbound, TransitionBegins,
     TransitionDrained, CloserCloses, Receive, CloseEnters, Enter, CloserFindsClosed
<1>10. ASSUME NEW b \in Binds, NEW c \in Conns, NEW r \in Roots, Ask(b, c, r) PROVE
            LeaseKeepsBinding'
  BY <1>10, <1>u DEF Ask, Becomes
<1>11. ASSUME NEW b \in Binds, Prepare(b) \/ PrepareFails(b) \/ BindNoOp(b) \/
            BindRefused(b) \/ BindBegins(b) \/ BindAborted(b) \/ StartForwarder(b) \/
            SpawnFails(b) \/ AttemptCloses(b) PROVE LeaseKeepsBinding'
  BY <1>11, <1>u DEF Prepare, Expects, Becomes, PrepareFails, Release, Forgets, BindNoOp,
     BindRefused, BindBegins, Enter, BindAborted, Drained, Leave, StartForwarder, Forwards,
     SpawnFails, AttemptCloses, CloseEnters
<1>12. ASSUME NEW b \in Binds, AttemptFindsClosed(b) \/ StillBound(b) \/ NoLongerBound(b) \/
            Idle(b) \/ Forward(b) \/ ForwardFails(b) \/ StreamCloses(b) \/
            StreamFindsClosed(b) PROVE LeaseKeepsBinding'
  BY <1>12, <1>u DEF AttemptFindsClosed, AfterClose, Becomes, StillBound, Forwards,
     NoLongerBound, Matches, Return, Idle, Forward, ForwardFails, StreamCloses, CloseEnters,
     Enter, StreamFindsClosed
<1>13. ASSUME NEW r \in Roots, Publish(r) \/ SessionCloses(r) PROVE LeaseKeepsBinding'
  BY <1>13, <1>u DEF Publish, SessionCloses
<1>14. CASE CloserClosesAll \/ CloserStops \/ CloseAdmission \/ RequestCloseAll \/ DrainEnds
            \/ UNCHANGED vars
  BY <1>14, <1>u DEF CloserClosesAll, Receive, CloseEnters, Enter, CloserStops,
     CloseAdmission, RequestCloseAll, DrainEnds, vars
<1> QED BY <1>u, <1>1, <1>2, <1>3, <1>4, <1>5, <1>6, <1>7, <1>8, <1>9, <1>10, <1>11, <1>12,
       <1>13, <1>14 DEF Next, AttemptStep, StreamStep, GateStep, CloserStep, MainStep

LEMMA NextBindWaits == Typed /\ Bindings /\ Leases /\ [Next]_vars => BindWaits'
<1> SUFFICES ASSUME Typed, Bindings, Leases, [Next]_vars PROVE BindWaits'
  OBVIOUS
<1> USE DEF Typed, RegistryTyped, AttemptTyped, RequestTyped, ProjectTyped, Bindings, Asked,
            Asking, Made, Placed, Holding, Leases, Waits, Gated, Busy, BindWaits
<1> USE NobodyHolds
<1>u. UNCHANGED <<transaction, gates, transitioning, lease, conn, owner_by_root, root>> =>
  BindWaits'
  OBVIOUS
<1>1. ASSUME NEW q \in Requests, RequestEnds(q) PROVE BindWaits'
  <2>1. \A d \in Conns : Gated(d) => Gated(d)'
    BY <1>1, EndKeepsGates
  <2> HIDE DEF Gated, Busy
  <2> QED BY <1>1, <2>1 DEF RequestEnds
<1>2. ASSUME NEW q \in Requests, NEW c \in Conns, Acquire(q, c) PROVE BindWaits'
  <2>1. \A d \in Conns : Gated(d) => Gated(d)'
    BY <1>2, AcquireKeepsGates
  <2> HIDE DEF Gated, Busy
  <2> QED BY <1>2, <2>1 DEF Acquire
<1>3. ASSUME NEW b \in Binds, NEW c \in Conns, NEW r \in Roots, Ask(b, c, r) PROVE BindWaits'
  BY <1>3 DEF Ask, Becomes
<1>4. ASSUME NEW b \in Binds, PrepareFails(b) PROVE BindWaits'
  BY <1>4 DEF PrepareFails, Release, Forgets, Becomes
<1>5. ASSUME NEW b \in Binds, BindNoOp(b) PROVE BindWaits'
  BY <1>5 DEF BindNoOp, Release, Forgets, Becomes
<1>6. ASSUME NEW b \in Binds, BindRefused(b) PROVE BindWaits'
  BY <1>6 DEF BindRefused, Release, Forgets, Becomes
<1>7. ASSUME NEW b \in Binds, BindBegins(b) PROVE BindWaits'
  BY <1>7 DEF BindBegins, Enter, Becomes
<1>8. ASSUME NEW b \in Binds, BindAborted(b) PROVE BindWaits'
  BY <1>8 DEF BindAborted, Drained, Leave, Release, Forgets, Becomes
<1>9. ASSUME NEW b \in Binds, Commit(b) PROVE BindWaits'
  BY <1>9 DEF Commit, Drained, Leave, CanBind, Fresh, Preempted, Rebind, Forgets, Becomes
<1>10. ASSUME NEW b \in Binds, AttemptCloses(b) PROVE BindWaits'
  BY <1>10 DEF AttemptCloses, CloseEnters, Enter
<1>11. ASSUME NEW b \in Binds, AttemptClosed(b) PROVE BindWaits'
  BY <1>11 DEF AttemptClosed, AfterClose, Drained, Remove, Leave, Becomes
<1>12. ASSUME NEW b \in Binds, NoLongerBound(b) PROVE BindWaits'
  <2>1. transaction # <<"bind", b>>
    BY <1>12 DEF NoLongerBound
  <2> QED BY <1>12, <2>1 DEF NoLongerBound, Return
<1>13. ASSUME NEW b \in Binds, StreamCloses(b) PROVE BindWaits'
  BY <1>13 DEF StreamCloses, Matches, CloseEnters, Enter, Forwards
<1>14. ASSUME NEW b \in Binds, StreamFindsClosed(b) PROVE BindWaits'
  BY <1>14 DEF StreamFindsClosed, Matches, Return, Forwards
<1>15. ASSUME NEW b \in Binds, StreamClosed(b) PROVE BindWaits'
  BY <1>15 DEF StreamClosed, Drained, Remove, Leave, Return, Forwards
<1>16. ASSUME NEW c \in Conns, TransitionBegins(c) PROVE BindWaits'
  BY <1>16 DEF TransitionBegins
<1>17. ASSUME NEW c \in Conns, TransitionDrained(c) PROVE BindWaits'
  BY <1>17 DEF TransitionDrained
<1>18. ASSUME NEW c \in Conns, CloserCloses(c) PROVE BindWaits'
  BY <1>18 DEF CloserCloses, Receive, CloseEnters, Enter
<1>19. ASSUME NEW c \in Conns, CloserClosed(c) PROVE BindWaits'
  BY <1>19 DEF CloserClosed, Drained, Remove, Leave
<1>20. ASSUME CloserClosesAll PROVE BindWaits'
  BY <1>20 DEF CloserClosesAll, Receive, CloseEnters, Enter
<1>21. ASSUME CloserClosedAll PROVE BindWaits'
  BY <1>21 DEF CloserClosedAll, Drained, Remove, Leave
<1>22. ASSUME NEW c \in Conns, Open(c) \/ ForwarderLags(c) \/ StreamDropped(c) \/
            CloserFindsClosed(c) PROVE BindWaits'
  BY <1>22, <1>u DEF Open, ForwarderLags, RequestClose, StreamDropped, Unbound,
     CloserFindsClosed, Receive
<1>23. ASSUME NEW b \in Binds, Prepare(b) \/ StartForwarder(b) \/ SpawnFails(b) \/
            AttemptFindsClosed(b) PROVE BindWaits'
  BY <1>23, <1>u DEF Prepare, Expects, Becomes, StartForwarder, Forwards, SpawnFails,
     AttemptFindsClosed, AfterClose
<1>24. ASSUME NEW b \in Binds, StillBound(b) \/ Idle(b) \/ Forward(b) \/ ForwardFails(b)
            PROVE BindWaits'
  BY <1>24, <1>u DEF StillBound, Forwards, Idle, Forward, ForwardFails
<1>25. ASSUME NEW r \in Roots, Publish(r) \/ SessionCloses(r) PROVE BindWaits'
  BY <1>25, <1>u DEF Publish, SessionCloses
<1>26. CASE CloserStops \/ CloseAdmission \/ RequestCloseAll \/ DrainEnds \/ UNCHANGED vars
  BY <1>26, <1>u DEF CloserStops, Receive, CloseAdmission, RequestCloseAll, DrainEnds, vars
<1> QED BY <1>u, <1>1, <1>2, <1>3, <1>4, <1>5, <1>6, <1>7, <1>8, <1>9, <1>10, <1>11, <1>12,
       <1>13, <1>14, <1>15, <1>16, <1>17, <1>18, <1>19, <1>20, <1>21, <1>22, <1>23, <1>24,
       <1>25, <1>26 DEF Next, AttemptStep, StreamStep, GateStep, CloserStep, MainStep

LEMMA NextCloseWaits == Typed /\ Bindings /\ Leases /\ [Next]_vars => CloseWaits'
<1> SUFFICES ASSUME Typed, Bindings, Leases, [Next]_vars PROVE CloseWaits'
  OBVIOUS
<1> USE DEF Typed, RegistryTyped, AttemptTyped, RequestTyped, ProjectTyped, Bindings, Asked,
            Asking, Made, Placed, Holding, Leases, Waits, Gated, Busy, CloseWaits
<1> USE NobodyHolds
<1>u. UNCHANGED <<transaction, gates, transitioning, lease, victim>> => CloseWaits'
  OBVIOUS
<1>1. ASSUME NEW q \in Requests, RequestEnds(q) PROVE CloseWaits'
  <2>1. \A d \in Conns : Gated(d) => Gated(d)'
    BY <1>1, EndKeepsGates
  <2> HIDE DEF Gated, Busy
  <2> QED BY <1>1, <2>1 DEF RequestEnds
<1>2. ASSUME NEW q \in Requests, NEW c \in Conns, Acquire(q, c) PROVE CloseWaits'
  <2>1. \A d \in Conns : Gated(d) => Gated(d)'
    BY <1>2, AcquireKeepsGates
  <2> HIDE DEF Gated, Busy
  <2> QED BY <1>2, <2>1 DEF Acquire
<1>3. ASSUME NEW b \in Binds, BindBegins(b) PROVE CloseWaits'
  BY <1>3 DEF BindBegins, Enter, Becomes
<1>4. ASSUME NEW b \in Binds, BindAborted(b) PROVE CloseWaits'
  BY <1>4 DEF BindAborted, Drained, Leave, Release, Forgets, Becomes
<1>5. ASSUME NEW b \in Binds, Commit(b) PROVE CloseWaits'
  BY <1>5 DEF Commit, Drained, Leave, CanBind, Fresh, Preempted, Rebind, Forgets, Becomes
<1>6. ASSUME NEW b \in Binds, SpawnFails(b) PROVE CloseWaits'
  BY <1>6 DEF SpawnFails, Becomes
<1>7. ASSUME NEW b \in Binds, AttemptCloses(b) PROVE CloseWaits'
  BY <1>7 DEF AttemptCloses, CloseEnters, Enter
<1>8. ASSUME NEW b \in Binds, AttemptClosed(b) PROVE CloseWaits'
  BY <1>8 DEF AttemptClosed, AfterClose, Drained, Remove, Leave, Becomes
<1>9. ASSUME NEW b \in Binds, StreamCloses(b) PROVE CloseWaits'
  BY <1>9 DEF StreamCloses, Matches, CloseEnters, Enter, Forwards
<1>10. ASSUME NEW b \in Binds, StreamClosed(b) PROVE CloseWaits'
  BY <1>10 DEF StreamClosed, Drained, Remove, Leave, Return, Forwards
<1>11. ASSUME NEW c \in Conns, TransitionBegins(c) PROVE CloseWaits'
  BY <1>11 DEF TransitionBegins
<1>12. ASSUME NEW c \in Conns, TransitionDrained(c) PROVE CloseWaits'
  BY <1>12 DEF TransitionDrained
<1>13. ASSUME NEW c \in Conns, CloserCloses(c) PROVE CloseWaits'
  BY <1>13 DEF CloserCloses, Receive, CloseEnters, Enter
<1>14. ASSUME NEW c \in Conns, CloserClosed(c) PROVE CloseWaits'
  BY <1>14 DEF CloserClosed, Drained, Remove, Leave
<1>15. ASSUME CloserClosesAll PROVE CloseWaits'
  BY <1>15 DEF CloserClosesAll, Receive, CloseEnters, Enter
<1>16. ASSUME CloserClosedAll PROVE CloseWaits'
  BY <1>16 DEF CloserClosedAll, Drained, Remove, Leave
<1>17. ASSUME NEW c \in Conns, Open(c) \/ ForwarderLags(c) \/ StreamDropped(c) \/
            CloserFindsClosed(c) PROVE CloseWaits'
  BY <1>17, <1>u DEF Open, ForwarderLags, RequestClose, StreamDropped, Unbound,
     CloserFindsClosed, Receive
<1>18. ASSUME NEW b \in Binds, NEW c \in Conns, NEW r \in Roots, Ask(b, c, r) PROVE
            CloseWaits'
  BY <1>18, <1>u DEF Ask, Becomes
<1>19. ASSUME NEW b \in Binds, Prepare(b) \/ PrepareFails(b) \/ BindNoOp(b) \/
            BindRefused(b) \/ StartForwarder(b) \/ AttemptFindsClosed(b) PROVE CloseWaits'
  BY <1>19, <1>u DEF Prepare, Expects, Becomes, PrepareFails, Release, Forgets, BindNoOp,
     BindRefused, StartForwarder, Forwards, AttemptFindsClosed, AfterClose
<1>20. ASSUME NEW b \in Binds, StillBound(b) \/ NoLongerBound(b) \/ Idle(b) \/ Forward(b) \/
            ForwardFails(b) \/ StreamFindsClosed(b) PROVE CloseWaits'
  BY <1>20, <1>u DEF StillBound, Forwards, NoLongerBound, Matches, Return, Idle, Forward,
     ForwardFails, StreamFindsClosed
<1>21. ASSUME NEW r \in Roots, Publish(r) \/ SessionCloses(r) PROVE CloseWaits'
  BY <1>21, <1>u DEF Publish, SessionCloses
<1>22. CASE CloserStops \/ CloseAdmission \/ RequestCloseAll \/ DrainEnds \/ UNCHANGED vars
  BY <1>22, <1>u DEF CloserStops, Receive, CloseAdmission, RequestCloseAll, DrainEnds, vars
<1> QED BY <1>u, <1>1, <1>2, <1>3, <1>4, <1>5, <1>6, <1>7, <1>8, <1>9, <1>10, <1>11, <1>12,
       <1>13, <1>14, <1>15, <1>16, <1>17, <1>18, <1>19, <1>20, <1>21, <1>22 DEF Next,
       AttemptStep, StreamStep, GateStep, CloserStep, MainStep

LEMMA NextStreamWaits == Typed /\ Bindings /\ Leases /\ [Next]_vars => StreamWaits'
<1> SUFFICES ASSUME Typed, Bindings, Leases, [Next]_vars PROVE StreamWaits'
  OBVIOUS
<1> USE DEF Typed, RegistryTyped, AttemptTyped, RequestTyped, ProjectTyped, Bindings, Asked,
            Asking, Made, Placed, Holding, Leases, Waits, Gated, Busy, StreamWaits
<1> USE NobodyHolds
<1>u. UNCHANGED <<transaction, gates, transitioning, lease, conn>> => StreamWaits'
  OBVIOUS
<1>1. ASSUME NEW q \in Requests, RequestEnds(q) PROVE StreamWaits'
  <2>1. \A d \in Conns : Gated(d) => Gated(d)'
    BY <1>1, EndKeepsGates
  <2> HIDE DEF Gated, Busy
  <2> QED BY <1>1, <2>1 DEF RequestEnds
<1>2. ASSUME NEW q \in Requests, NEW c \in Conns, Acquire(q, c) PROVE StreamWaits'
  <2>1. \A d \in Conns : Gated(d) => Gated(d)'
    BY <1>2, AcquireKeepsGates
  <2> HIDE DEF Gated, Busy
  <2> QED BY <1>2, <2>1 DEF Acquire
<1>3. ASSUME NEW b \in Binds, NEW c \in Conns, NEW r \in Roots, Ask(b, c, r) PROVE StreamWaits'
  <2>1. transaction # <<"stream", b>>
    BY <1>3 DEF Ask
  <2> QED BY <1>3, <2>1 DEF Ask, Becomes
<1>4. ASSUME NEW b \in Binds, PrepareFails(b) PROVE StreamWaits'
  <2>1. transaction # <<"stream", b>>
    BY <1>4 DEF PrepareFails
  <2> QED BY <1>4, <2>1 DEF PrepareFails, Release
<1>5. ASSUME NEW b \in Binds, BindNoOp(b) PROVE StreamWaits'
  <2>1. transaction # <<"stream", b>>
    BY <1>5 DEF BindNoOp
  <2> QED BY <1>5, <2>1 DEF BindNoOp, Release
<1>6. ASSUME NEW b \in Binds, BindRefused(b) PROVE StreamWaits'
  <2>1. transaction # <<"stream", b>>
    BY <1>6 DEF BindRefused
  <2> QED BY <1>6, <2>1 DEF BindRefused, Release
<1>7. ASSUME NEW b \in Binds, BindBegins(b) PROVE StreamWaits'
  BY <1>7 DEF BindBegins, Enter, Becomes
<1>8. ASSUME NEW b \in Binds, BindAborted(b) PROVE StreamWaits'
  BY <1>8 DEF BindAborted, Drained, Leave, Release, Forgets, Becomes
<1>9. ASSUME NEW b \in Binds, Commit(b) PROVE StreamWaits'
  BY <1>9 DEF Commit, Drained, Leave, CanBind, Fresh, Preempted, Rebind, Forgets, Becomes
<1>10. ASSUME NEW b \in Binds, AttemptCloses(b) PROVE StreamWaits'
  BY <1>10 DEF AttemptCloses, CloseEnters, Enter
<1>11. ASSUME NEW b \in Binds, AttemptClosed(b) PROVE StreamWaits'
  BY <1>11 DEF AttemptClosed, AfterClose, Drained, Remove, Leave, Becomes
<1>12. ASSUME NEW b \in Binds, NoLongerBound(b) PROVE StreamWaits'
  BY <1>12 DEF NoLongerBound, Matches, Return, Forwards
<1>13. ASSUME NEW b \in Binds, StreamCloses(b) PROVE StreamWaits'
  BY <1>13 DEF StreamCloses, Matches, CloseEnters, Enter, Forwards
<1>14. ASSUME NEW b \in Binds, StreamFindsClosed(b) PROVE StreamWaits'
  BY <1>14 DEF StreamFindsClosed, Matches, Return, Forwards
<1>15. ASSUME NEW b \in Binds, StreamClosed(b) PROVE StreamWaits'
  BY <1>15 DEF StreamClosed, Drained, Remove, Leave, Return, Forwards
<1>16. ASSUME NEW c \in Conns, TransitionBegins(c) PROVE StreamWaits'
  BY <1>16 DEF TransitionBegins
<1>17. ASSUME NEW c \in Conns, TransitionDrained(c) PROVE StreamWaits'
  BY <1>17 DEF TransitionDrained
<1>18. ASSUME NEW c \in Conns, CloserCloses(c) PROVE StreamWaits'
  BY <1>18 DEF CloserCloses, Receive, CloseEnters, Enter
<1>19. ASSUME NEW c \in Conns, CloserClosed(c) PROVE StreamWaits'
  BY <1>19 DEF CloserClosed, Drained, Remove, Leave
<1>20. ASSUME CloserClosesAll PROVE StreamWaits'
  BY <1>20 DEF CloserClosesAll, Receive, CloseEnters, Enter
<1>21. ASSUME CloserClosedAll PROVE StreamWaits'
  BY <1>21 DEF CloserClosedAll, Drained, Remove, Leave
<1>22. ASSUME NEW c \in Conns, Open(c) \/ ForwarderLags(c) \/ StreamDropped(c) \/
            CloserFindsClosed(c) PROVE StreamWaits'
  BY <1>22, <1>u DEF Open, ForwarderLags, RequestClose, StreamDropped, Unbound,
     CloserFindsClosed, Receive
<1>23. ASSUME NEW b \in Binds, Prepare(b) \/ StartForwarder(b) \/ SpawnFails(b) \/
            AttemptFindsClosed(b) PROVE StreamWaits'
  BY <1>23, <1>u DEF Prepare, Expects, Becomes, StartForwarder, Forwards, SpawnFails,
     AttemptFindsClosed, AfterClose
<1>24. ASSUME NEW b \in Binds, StillBound(b) \/ Idle(b) \/ Forward(b) \/ ForwardFails(b)
            PROVE StreamWaits'
  BY <1>24, <1>u DEF StillBound, Forwards, Idle, Forward, ForwardFails
<1>25. ASSUME NEW r \in Roots, Publish(r) \/ SessionCloses(r) PROVE StreamWaits'
  BY <1>25, <1>u DEF Publish, SessionCloses
<1>26. CASE CloserStops \/ CloseAdmission \/ RequestCloseAll \/ DrainEnds \/ UNCHANGED vars
  BY <1>26, <1>u DEF CloserStops, Receive, CloseAdmission, RequestCloseAll, DrainEnds, vars
<1> QED BY <1>u, <1>1, <1>2, <1>3, <1>4, <1>5, <1>6, <1>7, <1>8, <1>9, <1>10, <1>11, <1>12,
       <1>13, <1>14, <1>15, <1>16, <1>17, <1>18, <1>19, <1>20, <1>21, <1>22, <1>23, <1>24,
       <1>25, <1>26 DEF Next, AttemptStep, StreamStep, GateStep, CloserStep, MainStep

LEMMA NextCloserWaits == Typed /\ Bindings /\ Leases /\ [Next]_vars => CloserWaits'
<1> SUFFICES ASSUME Typed, Bindings, Leases, [Next]_vars PROVE CloserWaits'
  OBVIOUS
<1> USE DEF Typed, RegistryTyped, AttemptTyped, RequestTyped, ProjectTyped, Bindings, Asked,
            Asking, Made, Placed, Holding, Leases, Waits, Gated, Busy, CommandsTyped,
            Command, CloserWaits, Commanded
<1> USE NobodyHolds
<1>u. UNCHANGED <<transaction, gates, transitioning, lease, records, admission>> =>
  CloserWaits'
  OBVIOUS
<1>1. ASSUME NEW c \in Conns, Open(c) PROVE CloserWaits'
  BY <1>1 DEF Open
<1>2. ASSUME NEW q \in Requests, RequestEnds(q) PROVE CloserWaits'
  <2>1. \A d \in Conns : Gated(d) => Gated(d)'
    BY <1>2, EndKeepsGates
  <2> HIDE DEF Gated, Busy
  <2> QED BY <1>2, <2>1 DEF RequestEnds
<1>3. ASSUME NEW q \in Requests, NEW c \in Conns, Acquire(q, c) PROVE CloserWaits'
  <2>1. \A d \in Conns : Gated(d) => Gated(d)'
    BY <1>3, AcquireKeepsGates
  <2> HIDE DEF Gated, Busy
  <2> QED BY <1>3, <2>1 DEF Acquire
<1>4. ASSUME NEW b \in Binds, BindBegins(b) PROVE CloserWaits'
  BY <1>4 DEF BindBegins, Enter, Becomes
<1>5. ASSUME NEW b \in Binds, BindAborted(b) PROVE CloserWaits'
  BY <1>5 DEF BindAborted, Drained, Leave, Release, Forgets, Becomes
<1>6. ASSUME NEW b \in Binds, Commit(b) PROVE CloserWaits'
  BY <1>6 DEF Commit, Drained, Leave, CanBind, Fresh, Preempted, Rebind, Forgets, Becomes
<1>7. ASSUME NEW b \in Binds, AttemptCloses(b) PROVE CloserWaits'
  BY <1>7 DEF AttemptCloses, CloseEnters, Enter
<1>8. ASSUME NEW b \in Binds, AttemptClosed(b) PROVE CloserWaits'
  BY <1>8 DEF AttemptClosed, AfterClose, Drained, Remove, Leave, Becomes
<1>9. ASSUME NEW b \in Binds, StreamCloses(b) PROVE CloserWaits'
  BY <1>9 DEF StreamCloses, Matches, CloseEnters, Enter, Forwards
<1>10. ASSUME NEW b \in Binds, StreamClosed(b) PROVE CloserWaits'
  BY <1>10 DEF StreamClosed, Drained, Remove, Leave, Return, Forwards
<1>11. ASSUME NEW c \in Conns, TransitionBegins(c) PROVE CloserWaits'
  BY <1>11 DEF TransitionBegins
<1>12. ASSUME NEW c \in Conns, TransitionDrained(c) PROVE CloserWaits'
  BY <1>12 DEF TransitionDrained
<1>13. ASSUME NEW c \in Conns, CloserCloses(c) PROVE CloserWaits'
  BY <1>13 DEF CloserCloses, Receive, CloseEnters, Enter
<1>14. ASSUME NEW c \in Conns, CloserClosed(c) PROVE CloserWaits'
  BY <1>14 DEF CloserClosed, Drained, Remove, Leave
<1>15. ASSUME CloserClosesAll PROVE CloserWaits'
  <2>1. ~admission
    <3>1. 1 \in 1..Len(commands) /\ commands[1][1] = "all"
      BY <1>15 DEF CloserClosesAll, Receive
    <3> QED BY <3>1
  <2> QED BY <1>15, <2>1 DEF CloserClosesAll, CloseEnters, Enter
<1>16. ASSUME CloserClosedAll PROVE CloserWaits'
  BY <1>16 DEF CloserClosedAll, Drained, Remove, Leave
<1>17. ASSUME CloseAdmission PROVE CloserWaits'
  BY <1>17 DEF CloseAdmission
<1>18. ASSUME NEW c \in Conns, ForwarderLags(c) \/ StreamDropped(c) \/ CloserFindsClosed(c)
            PROVE CloserWaits'
  BY <1>18, <1>u DEF ForwarderLags, RequestClose, StreamDropped, Unbound, CloserFindsClosed,
     Receive
<1>19. ASSUME NEW b \in Binds, NEW c \in Conns, NEW r \in Roots, Ask(b, c, r) PROVE
            CloserWaits'
  BY <1>19, <1>u DEF Ask, Becomes
<1>20. ASSUME NEW b \in Binds, Prepare(b) \/ PrepareFails(b) \/ BindNoOp(b) \/
            BindRefused(b) \/ StartForwarder(b) \/ SpawnFails(b) \/ AttemptFindsClosed(b)
            PROVE CloserWaits'
  BY <1>20, <1>u DEF Prepare, Expects, Becomes, PrepareFails, Release, Forgets, BindNoOp,
     BindRefused, StartForwarder, Forwards, SpawnFails, AttemptFindsClosed, AfterClose
<1>21. ASSUME NEW b \in Binds, StillBound(b) \/ NoLongerBound(b) \/ Idle(b) \/ Forward(b) \/
            ForwardFails(b) \/ StreamFindsClosed(b) PROVE CloserWaits'
  BY <1>21, <1>u DEF StillBound, Forwards, NoLongerBound, Matches, Return, Idle, Forward,
     ForwardFails, StreamFindsClosed
<1>22. ASSUME NEW r \in Roots, Publish(r) \/ SessionCloses(r) PROVE CloserWaits'
  BY <1>22, <1>u DEF Publish, SessionCloses
<1>23. CASE CloserStops \/ RequestCloseAll \/ DrainEnds \/ UNCHANGED vars
  BY <1>23, <1>u DEF CloserStops, Receive, RequestCloseAll, DrainEnds, vars
<1> QED BY <1>u, <1>1, <1>2, <1>3, <1>4, <1>5, <1>6, <1>7, <1>8, <1>9, <1>10, <1>11, <1>12,
       <1>13, <1>14, <1>15, <1>16, <1>17, <1>18, <1>19, <1>20, <1>21, <1>22, <1>23 DEF Next,
       AttemptStep, StreamStep, GateStep, CloserStep, MainStep

LEMMA NextCommanded == Typed /\ Bindings /\ Leases /\ [Next]_vars => Commanded'
<1> SUFFICES ASSUME Typed, Bindings, Leases, [Next]_vars PROVE Commanded'
  OBVIOUS
<1> USE DEF Typed, RegistryTyped, AttemptTyped, RequestTyped, ProjectTyped, Bindings, Asked,
            Asking, Made, Placed, Holding, Leases, Waits, Gated, Busy, CommandsTyped,
            Command, Commanded
<1> USE NobodyHolds
<1>u. UNCHANGED <<admission, main, commands>> => Commanded'
  OBVIOUS
<1>1. ASSUME NEW c \in Conns, ForwarderLags(c) PROVE Commanded'
  <2>1. \A i \in 1..Len(commands') :
           commands'[i][1] = "all" => i \in 1..Len(commands) /\ commands'[i] = commands[i]
    <3>1. CASE commands' = commands
      BY <3>1
    <3>2. CASE commands' = Append(commands, <<"connection", c>>)
      BY <3>2
    <3> QED BY <1>1, <3>1, <3>2 DEF ForwarderLags, RequestClose
  <2>2. main' = main /\ (admission' => admission)
    BY <1>1 DEF ForwarderLags, RequestClose
  <2>3. admission' => main' = "serving"
    BY <2>2
  <2>4. ASSUME NEW i \in 1..Len(commands'), commands'[i][1] = "all" PROVE ~admission'
    <3>1. i \in 1..Len(commands) /\ commands[i][1] = "all"
      BY <2>1, <2>4
    <3>2. ~admission
      BY <3>1
    <3> QED BY <2>2, <3>2
  <2> QED BY <2>3, <2>4
<1>2. ASSUME NEW c \in Conns, StreamDropped(c) PROVE Commanded'
  <2>1. \A i \in 1..Len(commands') :
           commands'[i][1] = "all" => i \in 1..Len(commands) /\ commands'[i] = commands[i]
    <3>1. CASE commands' = commands
      BY <3>1
    <3>2. CASE commands' = Append(commands, <<"connection", c>>)
      BY <3>2
    <3> QED BY <1>2, <3>1, <3>2 DEF StreamDropped, RequestClose
  <2>2. main' = main /\ (admission' => admission)
    BY <1>2 DEF StreamDropped, RequestClose
  <2>3. admission' => main' = "serving"
    BY <2>2
  <2>4. ASSUME NEW i \in 1..Len(commands'), commands'[i][1] = "all" PROVE ~admission'
    <3>1. i \in 1..Len(commands) /\ commands[i][1] = "all"
      BY <2>1, <2>4
    <3>2. ~admission
      BY <3>1
    <3> QED BY <2>2, <3>2
  <2> QED BY <2>3, <2>4
<1>3. ASSUME NEW c \in Conns, CloserCloses(c) PROVE Commanded'
  BY <1>3 DEF CloserCloses, Receive, CloseEnters, Enter
<1>4. ASSUME NEW c \in Conns, CloserFindsClosed(c) PROVE Commanded'
  BY <1>4 DEF CloserFindsClosed, Receive
<1>5. ASSUME CloserClosesAll PROVE Commanded'
  BY <1>5 DEF CloserClosesAll, Receive, CloseEnters, Enter
<1>6. ASSUME CloserStops PROVE Commanded'
  BY <1>6 DEF CloserStops, Receive
<1>7. ASSUME CloseAdmission PROVE Commanded'
  BY <1>7 DEF CloseAdmission
<1>8. ASSUME RequestCloseAll PROVE Commanded'
  BY <1>8 DEF RequestCloseAll
<1>9. ASSUME DrainEnds PROVE Commanded'
  BY <1>9 DEF DrainEnds
<1>10. ASSUME NEW c \in Conns, Open(c) \/ TransitionBegins(c) \/ TransitionDrained(c) \/
            CloserClosed(c) PROVE Commanded'
  BY <1>10, <1>u DEF Open, TransitionBegins, TransitionDrained, CloserClosed, Drained,
     Remove, Leave
<1>11. ASSUME NEW q \in Requests, RequestEnds(q) PROVE Commanded'
  BY <1>11, <1>u DEF RequestEnds
<1>12. ASSUME NEW q \in Requests, NEW c \in Conns, Acquire(q, c) PROVE Commanded'
  BY <1>12, <1>u DEF Acquire
<1>13. ASSUME NEW b \in Binds, NEW c \in Conns, NEW r \in Roots, Ask(b, c, r) PROVE
            Commanded'
  BY <1>13, <1>u DEF Ask, Becomes
<1>14. ASSUME NEW b \in Binds, Prepare(b) \/ PrepareFails(b) \/ BindNoOp(b) \/
            BindRefused(b) \/ BindBegins(b) \/ BindAborted(b) \/ Commit(b) \/
            StartForwarder(b) \/ SpawnFails(b) \/ AttemptCloses(b) PROVE Commanded'
  BY <1>14, <1>u DEF Prepare, Expects, Becomes, PrepareFails, Release, Forgets, BindNoOp,
     BindRefused, BindBegins, Enter, BindAborted, Drained, Leave, Commit, CanBind, Fresh,
     Preempted, Rebind, StartForwarder, Forwards, SpawnFails, AttemptCloses, CloseEnters
<1>15. ASSUME NEW b \in Binds, AttemptFindsClosed(b) \/ AttemptClosed(b) \/ StillBound(b) \/
            NoLongerBound(b) \/ Idle(b) \/ Forward(b) \/ ForwardFails(b) \/ StreamCloses(b)
            \/ StreamFindsClosed(b) \/ StreamClosed(b) PROVE Commanded'
  BY <1>15, <1>u DEF AttemptFindsClosed, AfterClose, Becomes, AttemptClosed, Drained,
     Remove, Leave, StillBound, Forwards, NoLongerBound, Matches, Return, Idle, Forward,
     ForwardFails, StreamCloses, CloseEnters, Enter, StreamFindsClosed, StreamClosed
<1>16. ASSUME NEW r \in Roots, Publish(r) \/ SessionCloses(r) PROVE Commanded'
  BY <1>16, <1>u DEF Publish, SessionCloses
<1>17. CASE CloserClosedAll \/ UNCHANGED vars
  BY <1>17, <1>u DEF CloserClosedAll, Drained, Remove, Leave, vars
<1> QED BY <1>u, <1>1, <1>2, <1>3, <1>4, <1>5, <1>6, <1>7, <1>8, <1>9, <1>10, <1>11, <1>12,
       <1>13, <1>14, <1>15, <1>16, <1>17 DEF Next, AttemptStep, StreamStep, GateStep,
       CloserStep, MainStep

-----------------------------------------------------------------------------
(* The streams. *)
LEMMA FollowsKept ==
  ASSUME NEW b \in Binds, NEW n, Follows(b, n), queue'[b] = queue[b], root'[b] = root[b],
         b \in observers' => b \in observers, UNCHANGED revision
  PROVE  Follows(b, n)'
BY DEF Follows

\* Reading the head of a queue that goes on from m leaves one that goes on from m + 1.
LEMMA TailFollows ==
  ASSUME NEW b \in Binds, NEW m \in Nat, Follows(b, m), queue[b] \in Seq(Nat), queue[b] # <<>>,
         queue'[b] = Tail(queue[b]), UNCHANGED <<observers, revision, root>>
  PROVE  Follows(b, m + 1)'
<1> DEFINE q == queue[b]
<1>1. Len(q) \in Nat \ {0} /\ Len(Tail(q)) = Len(q) - 1
  OBVIOUS
<1>2. ASSUME NEW i \in 1..Len(Tail(q)) PROVE Tail(q)[i] = (m + 1) + i
  <2>1. i + 1 \in 1..Len(q) /\ Tail(q)[i] = q[i + 1]
    BY <1>1
  <2>2. q[i + 1] = m + (i + 1)
    BY <2>1 DEF Follows
  <2> QED BY <2>1, <2>2
<1>3. ASSUME b \in observers PROVE (m + 1) + Len(Tail(q)) = revision[root[b]]
  <2>1. m + Len(q) = revision[root[b]]
    BY <1>3 DEF Follows
  <2> QED BY <1>1, <2>1
<1> QED BY <1>2, <1>3 DEF Follows

\* An event goes to every subscription that is not full, and detaches the others.
LEMMA PublishFollows ==
  ASSUME ProjectTyped, Rooted, NEW r \in Roots, Publish(r), NEW b \in Binds, NEW n \in Nat,
         Follows(b, n)
  PROVE  Follows(b, n)'
<1>1. root' = root /\ revision' = [revision EXCEPT ![r] = revision[r] + 1]
  BY DEF Publish
<1>2. CASE b \in observers' /\ root[b] = r
  <2>1. b \in observers /\ queue'[b] = Append(queue[b], revision[r] + 1)
    BY <1>2 DEF Publish
  <2>2. queue[b] \in Seq(Nat) /\ Len(queue[b]) \in Nat /\ revision[r] \in Nat
    BY DEF ProjectTyped
  <2>3. n + Len(queue[b]) = revision[r]
    BY <1>2, <2>1 DEF Follows
  <2>4. Len(queue'[b]) = Len(queue[b]) + 1
    BY <2>1, <2>2
  <2>5. ASSUME NEW i \in 1..Len(queue'[b]) PROVE queue'[b][i] = n + i
    <3>1. CASE i \in 1..Len(queue[b])
      BY <2>1, <2>2, <3>1 DEF Follows
    <3>2. CASE i = Len(queue[b]) + 1
      BY <2>1, <2>2, <2>3, <3>2
    <3> QED BY <2>2, <2>4, <3>1, <3>2
  <2>6. n + Len(queue'[b]) = revision'[root'[b]]
    BY <1>1, <1>2, <2>2, <2>3, <2>4 DEF ProjectTyped
  <2> QED BY <2>5, <2>6 DEF Follows
<1>3. CASE b \notin observers'
  <2>1. queue'[b] = queue[b]
    BY <1>3 DEF Publish
  <2> QED BY <1>3, <2>1 DEF Follows
<1>4. CASE b \in observers' /\ root[b] # r
  <2>1. queue'[b] = queue[b] /\ b \in observers
    BY <1>4 DEF Publish
  <2>2. revision'[root[b]] = revision[root[b]]
    BY <1>1, <1>4, <2>1 DEF Rooted, ProjectTyped
  <2> QED BY <1>1, <2>1, <2>2 DEF Follows
<1> QED BY <1>2, <1>3, <1>4

\* The subscriptions of a session that closes end with it.
LEMMA CloseFollows ==
  ASSUME ProjectTyped, Rooted, NEW r \in Roots, SessionCloses(r), NEW b \in Binds, NEW n,
         Follows(b, n)
  PROVE  Follows(b, n)'
<1>1. root' = root /\ queue' = queue /\ revision' = [revision EXCEPT ![r] = 1]
  BY DEF SessionCloses
<1>2. b \in observers' => b \in observers /\ root[b] # r
  BY DEF SessionCloses
<1>3. b \in observers' => revision'[root[b]] = revision[root[b]]
  BY <1>1, <1>2 DEF Rooted, ProjectTyped
<1> QED BY <1>1, <1>2, <1>3 DEF Follows

LEMMA NextQuiet == Typed /\ Bindings /\ Streams /\ [Next]_vars => Quiet'
<1> SUFFICES ASSUME Typed, Bindings, Streams, [Next]_vars PROVE Quiet'
  OBVIOUS
<1> USE DEF Typed, RegistryTyped, AttemptTyped, ClientTyped, ProjectTyped, Bindings, Asked,
            Asking, Placed, Holding, Streams, Quiet
<1> USE NobodyHolds
<1>u. UNCHANGED <<pc, queue, observers>> => Quiet'
  OBVIOUS
<1>1. ASSUME NEW b \in Binds, NEW c \in Conns, NEW r \in Roots, Ask(b, c, r) PROVE Quiet'
  BY <1>1 DEF Ask, Becomes
<1>2. ASSUME NEW b \in Binds, Prepare(b) PROVE Quiet'
  BY <1>2 DEF Prepare, Expects, Becomes
<1>3. ASSUME NEW b \in Binds, PrepareFails(b) PROVE Quiet'
  BY <1>3 DEF PrepareFails, Release, Forgets, Becomes
<1>4. ASSUME NEW b \in Binds, BindNoOp(b) PROVE Quiet'
  BY <1>4 DEF BindNoOp, Release, Forgets, Becomes
<1>5. ASSUME NEW b \in Binds, BindRefused(b) PROVE Quiet'
  BY <1>5 DEF BindRefused, Release, Forgets, Becomes
<1>6. ASSUME NEW b \in Binds, BindBegins(b) PROVE Quiet'
  BY <1>6 DEF BindBegins, Enter, Becomes
<1>7. ASSUME NEW b \in Binds, BindAborted(b) PROVE Quiet'
  BY <1>7 DEF BindAborted, Drained, Leave, Release, Forgets, Becomes
<1>8. ASSUME NEW b \in Binds, Commit(b) PROVE Quiet'
  BY <1>8 DEF Commit, Drained, Leave, CanBind, Fresh, Preempted, Rebind, Forgets, Becomes
<1>9. ASSUME NEW b \in Binds, StartForwarder(b) PROVE Quiet'
  BY <1>9 DEF StartForwarder, Becomes, Forwards
<1>10. ASSUME NEW b \in Binds, SpawnFails(b) PROVE Quiet'
  BY <1>10 DEF SpawnFails, Becomes
<1>11. ASSUME NEW b \in Binds, AttemptFindsClosed(b) PROVE Quiet'
  BY <1>11 DEF AttemptFindsClosed, AfterClose, Becomes
<1>12. ASSUME NEW b \in Binds, AttemptClosed(b) PROVE Quiet'
  BY <1>12 DEF AttemptClosed, AfterClose, Drained, Remove, Leave, Becomes
<1>13. ASSUME NEW b \in Binds, NoLongerBound(b) PROVE Quiet'
  BY <1>13 DEF NoLongerBound, Matches, Return, Forwards
<1>14. ASSUME NEW b \in Binds, Forward(b) PROVE Quiet'
  BY <1>14 DEF Forward, Forwards
<1>15. ASSUME NEW b \in Binds, StreamFindsClosed(b) PROVE Quiet'
  BY <1>15 DEF StreamFindsClosed, Matches, Return, Forwards
<1>16. ASSUME NEW b \in Binds, StreamClosed(b) PROVE Quiet'
  BY <1>16 DEF StreamClosed, Drained, Remove, Leave, Return, Forwards
<1>17. ASSUME NEW r \in Roots, Publish(r) PROVE Quiet'
  BY <1>17 DEF Publish
<1>18. ASSUME NEW r \in Roots, SessionCloses(r) PROVE Quiet'
  BY <1>18 DEF SessionCloses
<1>19. ASSUME NEW c \in Conns, Open(c) \/ ForwarderLags(c) \/ StreamDropped(c) \/
            TransitionBegins(c) \/ TransitionDrained(c) \/ CloserCloses(c) \/
            CloserFindsClosed(c) \/ CloserClosed(c) PROVE Quiet'
  BY <1>19, <1>u DEF Open, ForwarderLags, RequestClose, StreamDropped, Unbound,
     TransitionBegins, TransitionDrained, CloserCloses, Receive, CloseEnters, Enter,
     CloserFindsClosed, CloserClosed, Drained, Remove, Leave
<1>20. ASSUME NEW q \in Requests, RequestEnds(q) PROVE Quiet'
  BY <1>20, <1>u DEF RequestEnds
<1>21. ASSUME NEW q \in Requests, NEW c \in Conns, Acquire(q, c) PROVE Quiet'
  BY <1>21, <1>u DEF Acquire
<1>22. ASSUME NEW b \in Binds, AttemptCloses(b) \/ StillBound(b) \/ Idle(b) \/
            ForwardFails(b) \/ StreamCloses(b) PROVE Quiet'
  BY <1>22, <1>u DEF AttemptCloses, CloseEnters, Enter, StillBound, Forwards, Idle,
     ForwardFails, StreamCloses, Matches
<1>23. CASE CloserClosesAll \/ CloserClosedAll \/ CloserStops \/ CloseAdmission \/
            RequestCloseAll \/ DrainEnds \/ UNCHANGED vars
  BY <1>23, <1>u DEF CloserClosesAll, Receive, CloseEnters, Enter, CloserClosedAll, Drained,
     Remove, Leave, CloserStops, CloseAdmission, RequestCloseAll, DrainEnds, vars
<1> QED BY <1>u, <1>1, <1>2, <1>3, <1>4, <1>5, <1>6, <1>7, <1>8, <1>9, <1>10, <1>11, <1>12,
       <1>13, <1>14, <1>15, <1>16, <1>17, <1>18, <1>19, <1>20, <1>21, <1>22, <1>23 DEF Next,
       AttemptStep, StreamStep, GateStep, CloserStep, MainStep

LEMMA NextBegun == Typed /\ Bindings /\ Streams /\ [Next]_vars => Begun'
<1> SUFFICES ASSUME Typed, Bindings, Streams, [Next]_vars PROVE Begun'
  OBVIOUS
<1> USE DEF Typed, RegistryTyped, AttemptTyped, ClientTyped, ProjectTyped, Bindings, Asked,
            Asking, Placed, Holding, Streams, Quiet, Begun, Rooted, Follows
<1> USE NobodyHolds
<1>u. UNCHANGED <<pc, queue, observers, snapshot, revision, root>> => Begun'
  OBVIOUS
<1>1. ASSUME NEW b \in Binds, NEW c \in Conns, NEW r \in Roots, Ask(b, c, r) PROVE Begun'
  BY <1>1 DEF Ask, Becomes
<1>2. ASSUME NEW b \in Binds, Prepare(b) PROVE Begun'
  BY <1>2 DEF Prepare, Expects, Becomes
<1>3. ASSUME NEW b \in Binds, PrepareFails(b) PROVE Begun'
  BY <1>3 DEF PrepareFails, Release, Forgets, Becomes
<1>4. ASSUME NEW b \in Binds, BindNoOp(b) PROVE Begun'
  BY <1>4 DEF BindNoOp, Release, Forgets, Becomes
<1>5. ASSUME NEW b \in Binds, BindRefused(b) PROVE Begun'
  BY <1>5 DEF BindRefused, Release, Forgets, Becomes
<1>6. ASSUME NEW b \in Binds, BindBegins(b) PROVE Begun'
  BY <1>6 DEF BindBegins, Enter, Becomes
<1>7. ASSUME NEW b \in Binds, BindAborted(b) PROVE Begun'
  BY <1>7 DEF BindAborted, Drained, Leave, Release, Forgets, Becomes
<1>8. ASSUME NEW b \in Binds, Commit(b) PROVE Begun'
  <2>1. pc[b] = "drain" /\ pc'[b] \in {"bound", "displace"}
    BY <1>8 DEF Commit, Drained, Becomes
  <2>2. \A d \in Binds : d # b => pc'[d] = pc[d] /\ snapshot'[d] = snapshot[d]
    BY <1>8 DEF Commit, Becomes, Forgets
  <2>3. UNCHANGED <<queue, observers, revision, root>>
    BY <1>8 DEF Commit
  <2>4. ASSUME NEW d \in Binds, NEW n, Follows(d, n) PROVE Follows(d, n)'
    BY <2>3, <2>4, FollowsKept
  <2> HIDE DEF Typed, Bindings, Follows
  <2> QED BY <2>1, <2>2, <2>4 DEF Streams, Begun
<1>9. ASSUME NEW b \in Binds, StartForwarder(b) PROVE Begun'
  BY <1>9 DEF StartForwarder, Becomes, Forwards
<1>10. ASSUME NEW b \in Binds, SpawnFails(b) PROVE Begun'
  BY <1>10 DEF SpawnFails, Becomes
<1>11. ASSUME NEW b \in Binds, AttemptFindsClosed(b) PROVE Begun'
  BY <1>11 DEF AttemptFindsClosed, AfterClose, Becomes
<1>12. ASSUME NEW b \in Binds, AttemptClosed(b) PROVE Begun'
  BY <1>12 DEF AttemptClosed, AfterClose, Drained, Remove, Leave, Becomes
<1>13. ASSUME NEW b \in Binds, NoLongerBound(b) PROVE Begun'
  <2>1. pc[b] = "streaming" /\ UNCHANGED <<pc, snapshot, revision>>
    BY <1>13 DEF NoLongerBound, Return
  <2>2. \A d \in Binds : d # b => queue'[d] = queue[d] /\ root'[d] = root[d]
    BY <1>13 DEF NoLongerBound, Return
  <2>3. observers' \subseteq observers
    BY <1>13 DEF NoLongerBound, Return
  <2>4. ASSUME NEW d \in Binds, d # b, NEW n, Follows(d, n) PROVE Follows(d, n)'
    BY <2>1, <2>2, <2>3, <2>4, FollowsKept
  <2> HIDE DEF Typed, Bindings, Follows
  <2> QED BY <2>1, <2>4 DEF Streams, Begun
<1>14. ASSUME NEW b \in Binds, Forward(b) PROVE Begun'
  <2>1. pc[b] = "streaming" /\ queue' = [queue EXCEPT ![b] = Tail(queue[b])]
    BY <1>14 DEF Forward
  <2>2. UNCHANGED <<pc, observers, snapshot, revision, root>>
    BY <1>14 DEF Forward
  <2>3. ASSUME NEW d \in Binds, pc[d] \in {"prepared", "drain"}, NEW n, n = snapshot[d]
        PROVE  Follows(d, n)'
    <3>1. Follows(d, n) /\ queue'[d] = queue[d]
      BY <2>1, <2>3
    <3> QED BY <2>2, <3>1
  <2> HIDE DEF Typed, Bindings, Streams, Follows
  <2> QED BY <2>2, <2>3 DEF Begun
<1>15. ASSUME NEW b \in Binds, StreamFindsClosed(b) PROVE Begun'
  <2>1. pc[b] = "streaming" /\ UNCHANGED <<pc, snapshot, revision>>
    BY <1>15 DEF StreamFindsClosed, Return
  <2>2. \A d \in Binds : d # b => queue'[d] = queue[d] /\ root'[d] = root[d]
    BY <1>15 DEF StreamFindsClosed, Return
  <2>3. observers' \subseteq observers
    BY <1>15 DEF StreamFindsClosed, Return
  <2>4. ASSUME NEW d \in Binds, d # b, NEW n, Follows(d, n) PROVE Follows(d, n)'
    BY <2>1, <2>2, <2>3, <2>4, FollowsKept
  <2> HIDE DEF Typed, Bindings, Follows
  <2> QED BY <2>1, <2>4 DEF Streams, Begun
<1>16. ASSUME NEW b \in Binds, StreamClosed(b) PROVE Begun'
  <2>1. pc[b] = "streaming" /\ UNCHANGED <<pc, snapshot, revision>>
    BY <1>16 DEF StreamClosed, Return, Drained, Holding
  <2>2. \A d \in Binds : d # b => queue'[d] = queue[d] /\ root'[d] = root[d]
    BY <1>16 DEF StreamClosed, Return
  <2>3. observers' \subseteq observers
    BY <1>16 DEF StreamClosed, Return
  <2>4. ASSUME NEW d \in Binds, d # b, NEW n, Follows(d, n) PROVE Follows(d, n)'
    BY <2>1, <2>2, <2>3, <2>4, FollowsKept
  <2> HIDE DEF Typed, Bindings, Follows
  <2> QED BY <2>1, <2>4 DEF Streams, Begun
<1>17. ASSUME NEW r \in Roots, Publish(r) PROVE Begun'
  <2>1. UNCHANGED <<pc, snapshot, root>>
    BY <1>17 DEF Publish
  <2>2. ASSUME NEW d \in Binds, NEW n \in Nat, Follows(d, n) PROVE Follows(d, n)'
    BY <1>17, <2>2, PublishFollows
  <2>3. \A d \in Binds : snapshot[d] \in Nat
    OBVIOUS
  <2> HIDE DEF Typed, Bindings, Follows
  <2> QED BY <2>1, <2>2, <2>3 DEF Streams, Begun
<1>18. ASSUME NEW r \in Roots, SessionCloses(r) PROVE Begun'
  <2>1. UNCHANGED <<pc, snapshot>>
    BY <1>18 DEF SessionCloses
  <2>2. ASSUME NEW d \in Binds, NEW n \in Nat, Follows(d, n) PROVE Follows(d, n)'
    BY <1>18, <2>2, CloseFollows
  <2>3. \A d \in Binds : snapshot[d] \in Nat
    OBVIOUS
  <2> HIDE DEF Typed, Bindings, Follows
  <2> QED BY <2>1, <2>2, <2>3 DEF Streams, Begun
<1>19. ASSUME NEW c \in Conns, Open(c) \/ ForwarderLags(c) \/ StreamDropped(c) \/
            TransitionBegins(c) \/ TransitionDrained(c) \/ CloserCloses(c) \/
            CloserFindsClosed(c) \/ CloserClosed(c) PROVE Begun'
  BY <1>19, <1>u DEF Open, ForwarderLags, RequestClose, StreamDropped, Unbound,
     TransitionBegins, TransitionDrained, CloserCloses, Receive, CloseEnters, Enter,
     CloserFindsClosed, CloserClosed, Drained, Remove, Leave
<1>20. ASSUME NEW q \in Requests, RequestEnds(q) PROVE Begun'
  BY <1>20, <1>u DEF RequestEnds
<1>21. ASSUME NEW q \in Requests, NEW c \in Conns, Acquire(q, c) PROVE Begun'
  BY <1>21, <1>u DEF Acquire
<1>22. ASSUME NEW b \in Binds, AttemptCloses(b) \/ StillBound(b) \/ Idle(b) \/
            ForwardFails(b) \/ StreamCloses(b) PROVE Begun'
  BY <1>22, <1>u DEF AttemptCloses, CloseEnters, Enter, StillBound, Forwards, Idle,
     ForwardFails, StreamCloses, Matches
<1>23. CASE CloserClosesAll \/ CloserClosedAll \/ CloserStops \/ CloseAdmission \/
            RequestCloseAll \/ DrainEnds \/ UNCHANGED vars
  BY <1>23, <1>u DEF CloserClosesAll, Receive, CloseEnters, Enter, CloserClosedAll, Drained,
     Remove, Leave, CloserStops, CloseAdmission, RequestCloseAll, DrainEnds, vars
<1> QED BY <1>u, <1>1, <1>2, <1>3, <1>4, <1>5, <1>6, <1>7, <1>8, <1>9, <1>10, <1>11, <1>12,
       <1>13, <1>14, <1>15, <1>16, <1>17, <1>18, <1>19, <1>20, <1>21, <1>22, <1>23 DEF Next,
       AttemptStep, StreamStep, GateStep, CloserStep, MainStep

LEMMA NextRooted == Typed /\ Bindings /\ Streams /\ [Next]_vars => Rooted'
<1> SUFFICES ASSUME Typed, Bindings, Streams, [Next]_vars PROVE Rooted'
  OBVIOUS
<1> USE DEF Typed, RegistryTyped, AttemptTyped, ClientTyped, ProjectTyped, Bindings, Asked,
            Asking, Placed, Holding, Streams, Quiet, Rooted
<1> USE NobodyHolds
<1>u. UNCHANGED <<observers, root>> => Rooted'
  OBVIOUS
<1>1. ASSUME NEW b \in Binds, NEW c \in Conns, NEW r \in Roots, Ask(b, c, r) PROVE Rooted'
  BY <1>1 DEF Ask, Becomes
<1>2. ASSUME NEW b \in Binds, Prepare(b) PROVE Rooted'
  BY <1>2 DEF Prepare, Expects, Becomes
<1>3. ASSUME NEW b \in Binds, PrepareFails(b) PROVE Rooted'
  BY <1>3 DEF PrepareFails, Release, Forgets, Becomes
<1>4. ASSUME NEW b \in Binds, BindNoOp(b) PROVE Rooted'
  BY <1>4 DEF BindNoOp, Release, Forgets, Becomes
<1>5. ASSUME NEW b \in Binds, BindRefused(b) PROVE Rooted'
  BY <1>5 DEF BindRefused, Release, Forgets, Becomes
<1>6. ASSUME NEW b \in Binds, BindAborted(b) PROVE Rooted'
  BY <1>6 DEF BindAborted, Drained, Leave, Release, Forgets, Becomes
<1>7. ASSUME NEW b \in Binds, SpawnFails(b) PROVE Rooted'
  BY <1>7 DEF SpawnFails, Becomes
<1>8. ASSUME NEW b \in Binds, NoLongerBound(b) PROVE Rooted'
  BY <1>8 DEF NoLongerBound, Matches, Return, Forwards
<1>9. ASSUME NEW b \in Binds, StreamFindsClosed(b) PROVE Rooted'
  BY <1>9 DEF StreamFindsClosed, Matches, Return, Forwards
<1>10. ASSUME NEW b \in Binds, StreamClosed(b) PROVE Rooted'
  BY <1>10 DEF StreamClosed, Drained, Remove, Leave, Return, Forwards
<1>11. ASSUME NEW r \in Roots, Publish(r) PROVE Rooted'
  BY <1>11 DEF Publish
<1>12. ASSUME NEW r \in Roots, SessionCloses(r) PROVE Rooted'
  BY <1>12 DEF SessionCloses
<1>13. ASSUME NEW c \in Conns, Open(c) \/ ForwarderLags(c) \/ StreamDropped(c) \/
            TransitionBegins(c) \/ TransitionDrained(c) \/ CloserCloses(c) \/
            CloserFindsClosed(c) \/ CloserClosed(c) PROVE Rooted'
  BY <1>13, <1>u DEF Open, ForwarderLags, RequestClose, StreamDropped, Unbound,
     TransitionBegins, TransitionDrained, CloserCloses, Receive, CloseEnters, Enter,
     CloserFindsClosed, CloserClosed, Drained, Remove, Leave
<1>14. ASSUME NEW q \in Requests, RequestEnds(q) PROVE Rooted'
  BY <1>14, <1>u DEF RequestEnds
<1>15. ASSUME NEW q \in Requests, NEW c \in Conns, Acquire(q, c) PROVE Rooted'
  BY <1>15, <1>u DEF Acquire
<1>16. ASSUME NEW b \in Binds, BindBegins(b) \/ Commit(b) \/ StartForwarder(b) \/
            AttemptCloses(b) \/ AttemptFindsClosed(b) \/ AttemptClosed(b) PROVE Rooted'
  BY <1>16, <1>u DEF BindBegins, Enter, Becomes, Commit, Drained, Leave, CanBind, Fresh,
     Preempted, Rebind, Forgets, StartForwarder, Forwards, AttemptCloses, CloseEnters,
     AttemptFindsClosed, AfterClose, AttemptClosed, Remove
<1>17. ASSUME NEW b \in Binds, StillBound(b) \/ Idle(b) \/ Forward(b) \/ ForwardFails(b) \/
            StreamCloses(b) PROVE Rooted'
  BY <1>17, <1>u DEF StillBound, Forwards, Idle, Forward, ForwardFails, StreamCloses,
     Matches, CloseEnters, Enter
<1>18. CASE CloserClosesAll \/ CloserClosedAll \/ CloserStops \/ CloseAdmission \/
            RequestCloseAll \/ DrainEnds \/ UNCHANGED vars
  BY <1>18, <1>u DEF CloserClosesAll, Receive, CloseEnters, Enter, CloserClosedAll, Drained,
     Remove, Leave, CloserStops, CloseAdmission, RequestCloseAll, DrainEnds, vars
<1> QED BY <1>u, <1>1, <1>2, <1>3, <1>4, <1>5, <1>6, <1>7, <1>8, <1>9, <1>10, <1>11, <1>12,
       <1>13, <1>14, <1>15, <1>16, <1>17, <1>18 DEF Next, AttemptStep, StreamStep, GateStep,
       CloserStep, MainStep

LEMMA NextShown == Typed /\ Bindings /\ Streams /\ [Next]_vars => Shown'
<1> SUFFICES ASSUME Typed, Bindings, Streams, [Next]_vars PROVE Shown'
  OBVIOUS
<1> USE DEF Typed, RegistryTyped, AttemptTyped, ClientTyped, ProjectTyped, Bindings, Asked,
            Asking, Placed, Holding, Streams, Shown
<1> USE NobodyHolds
<1>u. UNCHANGED <<client, pc>> => Shown'
  OBVIOUS
<1>1. ASSUME NEW c \in Conns, Open(c) PROVE Shown'
  BY <1>1 DEF Open, Unbound
<1>2. ASSUME NEW c \in Conns, StreamDropped(c) PROVE Shown'
  BY <1>2 DEF StreamDropped, RequestClose, Unbound
<1>3. ASSUME NEW b \in Binds, NEW c \in Conns, NEW r \in Roots, Ask(b, c, r) PROVE Shown'
  BY <1>3 DEF Ask, Becomes
<1>4. ASSUME NEW b \in Binds, Prepare(b) PROVE Shown'
  BY <1>4 DEF Prepare, Expects, Becomes
<1>5. ASSUME NEW b \in Binds, PrepareFails(b) PROVE Shown'
  BY <1>5 DEF PrepareFails, Release, Forgets, Becomes
<1>6. ASSUME NEW b \in Binds, BindNoOp(b) PROVE Shown'
  BY <1>6 DEF BindNoOp, Release, Forgets, Becomes
<1>7. ASSUME NEW b \in Binds, BindRefused(b) PROVE Shown'
  BY <1>7 DEF BindRefused, Release, Forgets, Becomes
<1>8. ASSUME NEW b \in Binds, BindBegins(b) PROVE Shown'
  BY <1>8 DEF BindBegins, Enter, Becomes
<1>9. ASSUME NEW b \in Binds, BindAborted(b) PROVE Shown'
  BY <1>9 DEF BindAborted, Drained, Leave, Release, Forgets, Becomes
<1>10. ASSUME NEW b \in Binds, Commit(b) PROVE Shown'
  <2>h. PICK told \in SUBSET {c \in Preempted(b) : Reads(c)} : Rebind(b, told)
    BY <1>10 DEF Commit
  <2>1. pc[b] = "drain" /\ conn[b] \in Conns /\ client'[conn[b]] = AcceptBound(b)
    BY <1>10, <2>h DEF Commit, Drained, Rebind
  <2>2. ASSUME NEW c \in Conns, c # conn[b]
        PROVE  /\ client'[c].binding = client[c].binding
               /\ client'[c] = client[c] \/ client'[c].status = "detached"
    BY <2>h, <2>2, PreemptedClient DEF Rebind
  <2>3. \E stage \in {"bound", "displace"} : pc' = [pc EXCEPT ![b] = stage]
    BY <1>10 DEF Commit, Becomes
  <2>4. client'[conn[b]].binding = b
    BY <2>1 DEF AcceptBound
  <2>5. ASSUME NEW c \in Conns, c # conn[b], NEW d, d = client[c].binding, d # Nobody
        PROVE  pc'[d] \notin {"idle", "asked", "prepared", "drain"}
    <3>1. d # b /\ d \in Binds
      BY <2>1, <2>5
    <3> QED BY <2>3, <2>5, <3>1
  <2>6. pc'[b] \notin {"idle", "asked", "prepared", "drain"}
    BY <2>3
  <2> HIDE DEF Typed, Bindings, Streams
  <2> QED BY <2>2, <2>4, <2>5, <2>6 DEF Shown
<1>11. ASSUME NEW b \in Binds, StartForwarder(b) PROVE Shown'
  BY <1>11 DEF StartForwarder, Becomes, Forwards
<1>12. ASSUME NEW b \in Binds, SpawnFails(b) PROVE Shown'
  BY <1>12 DEF SpawnFails, Becomes
<1>13. ASSUME NEW b \in Binds, AttemptFindsClosed(b) PROVE Shown'
  BY <1>13 DEF AttemptFindsClosed, AfterClose, Becomes
<1>14. ASSUME NEW b \in Binds, AttemptClosed(b) PROVE Shown'
  BY <1>14 DEF AttemptClosed, AfterClose, Drained, Remove, Leave, Becomes
<1>15. ASSUME NEW b \in Binds, Forward(b) PROVE Shown'
  <2>1. conn[b] \in Conns /\ Head(queue[b]) \in Nat /\ queue[b] # <<>> /\ pc[b] = "streaming"
    BY <1>15 DEF Forward
  <2>2. /\ client' = [client EXCEPT ![conn[b]] = AcceptEvent(conn[b], b, Head(queue[b]))]
        /\ queue' = [queue EXCEPT ![b] = Tail(queue[b])]
        /\ UNCHANGED <<pc, conn, observers, revision, root, snapshot>>
    BY <1>15 DEF Forward
  <2>3. \A c \in Conns : client'[c].binding = client[c].binding
    BY <2>1, <2>2, EventClient
  <2> QED BY <2>2, <2>3
<1>16. ASSUME NEW c \in Conns, ForwarderLags(c) \/ TransitionBegins(c) \/
            TransitionDrained(c) \/ CloserCloses(c) \/ CloserFindsClosed(c) \/
            CloserClosed(c) PROVE Shown'
  BY <1>16, <1>u DEF ForwarderLags, RequestClose, TransitionBegins, TransitionDrained,
     CloserCloses, Receive, CloseEnters, Enter, CloserFindsClosed, CloserClosed, Drained,
     Remove, Leave
<1>17. ASSUME NEW q \in Requests, RequestEnds(q) PROVE Shown'
  BY <1>17, <1>u DEF RequestEnds
<1>18. ASSUME NEW q \in Requests, NEW c \in Conns, Acquire(q, c) PROVE Shown'
  BY <1>18, <1>u DEF Acquire
<1>19. ASSUME NEW b \in Binds, AttemptCloses(b) \/ StillBound(b) \/ NoLongerBound(b) \/
            Idle(b) PROVE Shown'
  BY <1>19, <1>u DEF AttemptCloses, CloseEnters, Enter, StillBound, Forwards, NoLongerBound,
     Matches, Return, Idle
<1>20. ASSUME NEW b \in Binds, ForwardFails(b) \/ StreamCloses(b) \/ StreamFindsClosed(b) \/
            StreamClosed(b) PROVE Shown'
  BY <1>20, <1>u DEF ForwardFails, Forwards, StreamCloses, Matches, CloseEnters, Enter,
     StreamFindsClosed, Return, StreamClosed, Drained, Remove, Leave
<1>21. ASSUME NEW r \in Roots, Publish(r) \/ SessionCloses(r) PROVE Shown'
  BY <1>21, <1>u DEF Publish, SessionCloses
<1>22. CASE CloserClosesAll \/ CloserClosedAll \/ CloserStops \/ CloseAdmission \/
            RequestCloseAll \/ DrainEnds \/ UNCHANGED vars
  BY <1>22, <1>u DEF CloserClosesAll, Receive, CloseEnters, Enter, CloserClosedAll, Drained,
     Remove, Leave, CloserStops, CloseAdmission, RequestCloseAll, DrainEnds, vars
<1> QED BY <1>u, <1>1, <1>2, <1>3, <1>4, <1>5, <1>6, <1>7, <1>8, <1>9, <1>10, <1>11, <1>12,
       <1>13, <1>14, <1>15, <1>16, <1>17, <1>18, <1>19, <1>20, <1>21, <1>22 DEF Next,
       AttemptStep, StreamStep, GateStep, CloserStep, MainStep

LEMMA NextCurrent == Typed /\ Bindings /\ Streams /\ [Next]_vars => Current'
<1> SUFFICES ASSUME Typed, Bindings, Streams, [Next]_vars PROVE Current'
  OBVIOUS
<1> USE DEF Typed, RegistryTyped, AttemptTyped, ClientTyped, ProjectTyped, Bindings, Asked,
            Asking, Placed, Holding, Streams, Quiet, Begun, Rooted, Shown, Current, Follows
<1> USE NobodyHolds
<1>u. UNCHANGED <<client, conn, queue, observers, revision, root>> => Current'
  OBVIOUS
<1>1. ASSUME NEW c \in Conns, Open(c) PROVE Current'
  <2>1. client'[c].binding = Nobody /\ \A d \in Conns \ {c} : client'[d] = client[d]
    BY <1>1 DEF Open, Unbound
  <2>2. UNCHANGED <<conn, queue, observers, revision, root>>
    BY <1>1 DEF Open
  <2>3. ASSUME NEW d \in Conns \ {c}, NEW e, e = client[d].binding, NEW n, n = client[d].revision,
               client[d].status = "bound", e # Nobody, conn[e] = d
        PROVE  Follows(e, n)'
    <3>1. Follows(e, n)
      BY <2>3
    <3> QED BY <2>2, <3>1
  <2> HIDE DEF Typed, Bindings, Streams, Follows
  <2> QED BY <2>1, <2>2, <2>3 DEF Current
<1>2. ASSUME NEW c \in Conns, StreamDropped(c) PROVE Current'
  BY <1>2 DEF StreamDropped, RequestClose, Unbound
<1>3. ASSUME NEW b \in Binds, NEW c \in Conns, NEW r \in Roots, Ask(b, c, r) PROVE Current'
  BY <1>3 DEF Ask, Becomes
<1>4. ASSUME NEW b \in Binds, Prepare(b) PROVE Current'
  <2>1. UNCHANGED <<client, conn, queue, root, revision>> /\ observers' = observers \cup {b}
    BY <1>4 DEF Prepare
  <2>2. \A c \in Conns : client[c].binding # b /\ client[c].binding \in Binds \cup {Nobody}
    BY <1>4 DEF Prepare
  <2>3. ASSUME NEW d \in Binds, d # b, NEW n, Follows(d, n) PROVE Follows(d, n)'
    BY <2>1, <2>3, FollowsKept
  <2> HIDE DEF Typed, Bindings, Follows
  <2> QED BY <2>1, <2>2, <2>3 DEF Streams, Current
<1>5. ASSUME NEW b \in Binds, PrepareFails(b) PROVE Current'
  <2>1. conn' = [conn EXCEPT ![b] = Nobody] /\ UNCHANGED <<client, revision>>
    BY <1>5 DEF PrepareFails, Release
  <2>2. \A d \in Binds : d # b => queue'[d] = queue[d] /\ root'[d] = root[d]
    BY <1>5 DEF PrepareFails, Release
  <2>3. observers' \subseteq observers
    BY <1>5 DEF PrepareFails, Release
  <2>4. ASSUME NEW d \in Binds, d # b, NEW n, Follows(d, n) PROVE Follows(d, n)'
    BY <2>1, <2>2, <2>3, <2>4, FollowsKept
  <2>5. \A c \in Conns : c # Nobody /\ client[c].binding \in Binds \cup {Nobody}
    OBVIOUS
  <2>6. conn'[b] = Nobody /\ \A d \in Binds : d # b => conn'[d] = conn[d]
    BY <2>1
  <2> HIDE DEF Typed, Bindings, Follows
  <2> QED BY <2>1, <2>4, <2>5, <2>6 DEF Streams, Current
<1>6. ASSUME NEW b \in Binds, BindNoOp(b) PROVE Current'
  <2>1. conn' = [conn EXCEPT ![b] = Nobody] /\ UNCHANGED <<client, revision>>
    BY <1>6 DEF BindNoOp, Release
  <2>2. \A d \in Binds : d # b => queue'[d] = queue[d] /\ root'[d] = root[d]
    BY <1>6 DEF BindNoOp, Release
  <2>3. observers' \subseteq observers
    BY <1>6 DEF BindNoOp, Release
  <2>4. ASSUME NEW d \in Binds, d # b, NEW n, Follows(d, n) PROVE Follows(d, n)'
    BY <2>1, <2>2, <2>3, <2>4, FollowsKept
  <2>5. \A c \in Conns : c # Nobody /\ client[c].binding \in Binds \cup {Nobody}
    OBVIOUS
  <2>6. conn'[b] = Nobody /\ \A d \in Binds : d # b => conn'[d] = conn[d]
    BY <2>1
  <2> HIDE DEF Typed, Bindings, Follows
  <2> QED BY <2>1, <2>4, <2>5, <2>6 DEF Streams, Current
<1>7. ASSUME NEW b \in Binds, BindRefused(b) PROVE Current'
  <2>1. conn' = [conn EXCEPT ![b] = Nobody] /\ UNCHANGED <<client, revision>>
    BY <1>7 DEF BindRefused, Release
  <2>2. \A d \in Binds : d # b => queue'[d] = queue[d] /\ root'[d] = root[d]
    BY <1>7 DEF BindRefused, Release
  <2>3. observers' \subseteq observers
    BY <1>7 DEF BindRefused, Release
  <2>4. ASSUME NEW d \in Binds, d # b, NEW n, Follows(d, n) PROVE Follows(d, n)'
    BY <2>1, <2>2, <2>3, <2>4, FollowsKept
  <2>5. \A c \in Conns : c # Nobody /\ client[c].binding \in Binds \cup {Nobody}
    OBVIOUS
  <2>6. conn'[b] = Nobody /\ \A d \in Binds : d # b => conn'[d] = conn[d]
    BY <2>1
  <2> HIDE DEF Typed, Bindings, Follows
  <2> QED BY <2>1, <2>4, <2>5, <2>6 DEF Streams, Current
<1>8. ASSUME NEW b \in Binds, BindAborted(b) PROVE Current'
  <2>1. conn' = [conn EXCEPT ![b] = Nobody] /\ UNCHANGED <<client, revision>>
    BY <1>8 DEF BindAborted, Release
  <2>2. \A d \in Binds : d # b => queue'[d] = queue[d] /\ root'[d] = root[d]
    BY <1>8 DEF BindAborted, Release
  <2>3. observers' \subseteq observers
    BY <1>8 DEF BindAborted, Release
  <2>4. ASSUME NEW d \in Binds, d # b, NEW n, Follows(d, n) PROVE Follows(d, n)'
    BY <2>1, <2>2, <2>3, <2>4, FollowsKept
  <2>5. \A c \in Conns : c # Nobody /\ client[c].binding \in Binds \cup {Nobody}
    OBVIOUS
  <2>6. conn'[b] = Nobody /\ \A d \in Binds : d # b => conn'[d] = conn[d]
    BY <2>1
  <2> HIDE DEF Typed, Bindings, Follows
  <2> QED BY <2>1, <2>4, <2>5, <2>6 DEF Streams, Current
<1>9. ASSUME NEW b \in Binds, Commit(b) PROVE Current'
  <2>h. PICK told \in SUBSET {c \in Preempted(b) : Reads(c)} : Rebind(b, told)
    BY <1>9 DEF Commit
  <2>1. pc[b] = "drain" /\ conn[b] \in Conns /\ client'[conn[b]] = AcceptBound(b)
    BY <1>9, <2>h DEF Commit, Drained, Rebind
  <2>2. ASSUME NEW c \in Conns, c # conn[b]
        PROVE  /\ client'[c].binding = client[c].binding
               /\ client'[c] = client[c] \/ client'[c].status = "detached"
    BY <2>h, <2>2, PreemptedClient DEF Rebind
  <2>3. UNCHANGED <<conn, queue, observers, revision, root>>
    BY <1>9 DEF Commit
  <2>4. ASSUME NEW n, n = client'[conn[b]].revision
        PROVE  Follows(b, n)' /\ client'[conn[b]].binding = b
    BY <2>1, <2>3, <2>4 DEF AcceptBound
  <2>5. ASSUME NEW c \in Conns, c # conn[b], client'[c].status = "bound"
        PROVE  client'[c] = client[c]
    BY <2>2, <2>5
  <2>6. ASSUME NEW c \in Conns, c # conn[b], NEW e, e = client[c].binding, NEW n, n = client[c].revision,
               client[c].status = "bound", e # Nobody, conn[e] = c
        PROVE  Follows(e, n)'
    <3>1. Follows(e, n)
      <4> HIDE DEF Typed, Bindings, Follows
      <4> QED BY <2>6 DEF Streams, Current
    <3> QED BY <2>3, <3>1
  <2> HIDE DEF Typed, Bindings, Streams, Follows
  <2> QED BY <2>1, <2>3, <2>4, <2>5, <2>6 DEF Current
<1>10. ASSUME NEW b \in Binds, SpawnFails(b) PROVE Current'
  <2>1. /\ UNCHANGED <<client, conn, root, revision>> /\ observers' = observers \ {b}
        /\ queue' = [queue EXCEPT ![b] = <<>>]
    BY <1>10 DEF SpawnFails
  <2>2. \A c \in Conns : client[c].binding \in Binds \cup {Nobody}
    OBVIOUS
  <2>3. ASSUME NEW d \in Binds, d # b, NEW n, Follows(d, n) PROVE Follows(d, n)'
    BY <2>1, <2>3, FollowsKept
  <2>4. ASSUME NEW n PROVE Follows(b, n)'
    BY <2>1 DEF Follows
  <2> HIDE DEF Typed, Bindings, Follows
  <2> QED BY <2>1, <2>2, <2>3, <2>4 DEF Streams, Current
<1>11. ASSUME NEW b \in Binds, NoLongerBound(b) PROVE Current'
  <2>1. conn' = [conn EXCEPT ![b] = Nobody] /\ UNCHANGED <<client, revision>>
    BY <1>11 DEF NoLongerBound, Return
  <2>2. \A d \in Binds : d # b => queue'[d] = queue[d] /\ root'[d] = root[d]
    BY <1>11 DEF NoLongerBound, Return
  <2>3. observers' \subseteq observers
    BY <1>11 DEF NoLongerBound, Return
  <2>4. ASSUME NEW d \in Binds, d # b, NEW n, Follows(d, n) PROVE Follows(d, n)'
    BY <2>1, <2>2, <2>3, <2>4, FollowsKept
  <2>5. \A c \in Conns : c # Nobody /\ client[c].binding \in Binds \cup {Nobody}
    OBVIOUS
  <2>6. conn'[b] = Nobody /\ \A d \in Binds : d # b => conn'[d] = conn[d]
    BY <2>1
  <2> HIDE DEF Typed, Bindings, Follows
  <2> QED BY <2>1, <2>4, <2>5, <2>6 DEF Streams, Current
<1>12. ASSUME NEW b \in Binds, Forward(b) PROVE Current'
  <2>1. conn[b] \in Conns /\ Head(queue[b]) \in Nat /\ queue[b] # <<>> /\ pc[b] = "streaming"
    BY <1>12 DEF Forward
  <2>2. /\ client' = [client EXCEPT ![conn[b]] = AcceptEvent(conn[b], b, Head(queue[b]))]
        /\ queue' = [queue EXCEPT ![b] = Tail(queue[b])]
        /\ UNCHANGED <<pc, conn, observers, revision, root, snapshot>>
    BY <1>12 DEF Forward
  <2>3. ASSUME NEW c \in Conns, c # conn[b], client[c].status = "bound",
               NEW d \in Binds, d = client[c].binding, conn[d] = c,
               NEW n, n = client[c].revision
        PROVE  Follows(d, n)'
    <3>1. d # b
      BY <2>1, <2>3
    <3>2. Follows(d, n)
      <4> HIDE DEF Typed, Bindings, Follows
      <4> QED BY <2>3 DEF Streams, Current
    <3> QED BY <2>2, <2>3, <3>1, <3>2
  <2>4. ASSUME client'[conn[b]].status = "bound", NEW n, n = client'[conn[b]].revision
        PROVE  Follows(b, n)' /\ client'[conn[b]].binding = b
    <3>1. /\ client[conn[b]].status = "bound" /\ client[conn[b]].binding = b
          /\ client'[conn[b]].binding = b /\ n = client[conn[b]].revision + 1
      BY <2>1, <2>2, <2>4, EventClient
    <3>2. Follows(b, client[conn[b]].revision)
      <4> HIDE DEF Typed, Bindings, Follows
      <4> QED BY <2>1, <3>1 DEF Streams, Current
    <3>3. client[conn[b]].revision \in Nat /\ queue[b] \in Seq(Nat)
      BY <2>1
    <3>4. queue'[b] = Tail(queue[b])
      BY <2>2
    <3>5. n = client[conn[b]].revision + 1
      BY <3>1
    <3>6. Follows(b, n)'
      <4>1. UNCHANGED <<observers, revision, root>>
        BY <2>2
      <4>2. queue[b] # <<>>
        BY <2>1
      <4> HIDE DEF Typed, Bindings, Streams
      <4> QED BY <4>1, <4>2, <3>2, <3>3, <3>4, <3>5, TailFollows
    <3> QED BY <3>1, <3>6
  <2>5. \A c \in Conns : c # conn[b] => client'[c] = client[c]
    BY <2>2
  <2>6. \A c \in Conns : client[c].binding \in Binds \cup {Nobody}
    OBVIOUS
  <2>7. conn' = conn
    BY <2>2
  <2> HIDE DEF Typed, Bindings, Streams, Follows
  <2> QED BY <2>1, <2>3, <2>4, <2>5, <2>6, <2>7 DEF Current
<1>13. ASSUME NEW b \in Binds, StreamFindsClosed(b) PROVE Current'
  <2>1. conn' = [conn EXCEPT ![b] = Nobody] /\ UNCHANGED <<client, revision>>
    BY <1>13 DEF StreamFindsClosed, Return
  <2>2. \A d \in Binds : d # b => queue'[d] = queue[d] /\ root'[d] = root[d]
    BY <1>13 DEF StreamFindsClosed, Return
  <2>3. observers' \subseteq observers
    BY <1>13 DEF StreamFindsClosed, Return
  <2>4. ASSUME NEW d \in Binds, d # b, NEW n, Follows(d, n) PROVE Follows(d, n)'
    BY <2>1, <2>2, <2>3, <2>4, FollowsKept
  <2>5. \A c \in Conns : c # Nobody /\ client[c].binding \in Binds \cup {Nobody}
    OBVIOUS
  <2>6. conn'[b] = Nobody /\ \A d \in Binds : d # b => conn'[d] = conn[d]
    BY <2>1
  <2> HIDE DEF Typed, Bindings, Follows
  <2> QED BY <2>1, <2>4, <2>5, <2>6 DEF Streams, Current
<1>14. ASSUME NEW b \in Binds, StreamClosed(b) PROVE Current'
  <2>1. conn' = [conn EXCEPT ![b] = Nobody] /\ UNCHANGED <<client, revision>>
    BY <1>14 DEF StreamClosed, Return
  <2>2. \A d \in Binds : d # b => queue'[d] = queue[d] /\ root'[d] = root[d]
    BY <1>14 DEF StreamClosed, Return
  <2>3. observers' \subseteq observers
    BY <1>14 DEF StreamClosed, Return
  <2>4. ASSUME NEW d \in Binds, d # b, NEW n, Follows(d, n) PROVE Follows(d, n)'
    BY <2>1, <2>2, <2>3, <2>4, FollowsKept
  <2>5. \A c \in Conns : c # Nobody /\ client[c].binding \in Binds \cup {Nobody}
    OBVIOUS
  <2>6. conn'[b] = Nobody /\ \A d \in Binds : d # b => conn'[d] = conn[d]
    BY <2>1
  <2> HIDE DEF Typed, Bindings, Follows
  <2> QED BY <2>1, <2>4, <2>5, <2>6 DEF Streams, Current
<1>15. ASSUME NEW r \in Roots, Publish(r) PROVE Current'
  <2>1. UNCHANGED <<client, conn>>
    BY <1>15 DEF Publish
  <2>2. ASSUME NEW d \in Binds, NEW n \in Nat, Follows(d, n) PROVE Follows(d, n)'
    BY <1>15, <2>2, PublishFollows
  <2>3. \A c \in Conns : client[c].revision \in Nat /\ client[c].binding \in Binds \cup {Nobody}
    OBVIOUS
  <2> HIDE DEF Typed, Bindings, Follows
  <2> QED BY <2>1, <2>2, <2>3 DEF Streams, Current
<1>16. ASSUME NEW r \in Roots, SessionCloses(r) PROVE Current'
  <2>1. UNCHANGED <<client, conn>>
    BY <1>16 DEF SessionCloses
  <2>2. ASSUME NEW d \in Binds, NEW n \in Nat, Follows(d, n) PROVE Follows(d, n)'
    BY <1>16, <2>2, CloseFollows
  <2>3. \A c \in Conns : client[c].revision \in Nat /\ client[c].binding \in Binds \cup {Nobody}
    OBVIOUS
  <2> HIDE DEF Typed, Bindings, Follows
  <2> QED BY <2>1, <2>2, <2>3 DEF Streams, Current
<1>17. ASSUME NEW c \in Conns, ForwarderLags(c) \/ TransitionBegins(c) \/
            TransitionDrained(c) \/ CloserCloses(c) \/ CloserFindsClosed(c) \/
            CloserClosed(c) PROVE Current'
  BY <1>17, <1>u DEF ForwarderLags, RequestClose, TransitionBegins, TransitionDrained,
     CloserCloses, Receive, CloseEnters, Enter, CloserFindsClosed, CloserClosed, Drained,
     Remove, Leave
<1>18. ASSUME NEW q \in Requests, RequestEnds(q) PROVE Current'
  BY <1>18, <1>u DEF RequestEnds
<1>19. ASSUME NEW q \in Requests, NEW c \in Conns, Acquire(q, c) PROVE Current'
  BY <1>19, <1>u DEF Acquire
<1>20. ASSUME NEW b \in Binds, BindBegins(b) \/ StartForwarder(b) \/ AttemptCloses(b) \/
            AttemptFindsClosed(b) \/ AttemptClosed(b) PROVE Current'
  BY <1>20, <1>u DEF BindBegins, Enter, Becomes, StartForwarder, Forwards, AttemptCloses,
     CloseEnters, AttemptFindsClosed, AfterClose, AttemptClosed, Drained, Remove, Leave
<1>21. ASSUME NEW b \in Binds, StillBound(b) \/ Idle(b) \/ ForwardFails(b) \/
            StreamCloses(b) PROVE Current'
  BY <1>21, <1>u DEF StillBound, Forwards, Idle, ForwardFails, StreamCloses, Matches,
     CloseEnters, Enter
<1>22. CASE CloserClosesAll \/ CloserClosedAll \/ CloserStops \/ CloseAdmission \/
            RequestCloseAll \/ DrainEnds \/ UNCHANGED vars
  BY <1>22, <1>u DEF CloserClosesAll, Receive, CloseEnters, Enter, CloserClosedAll, Drained,
     Remove, Leave, CloserStops, CloseAdmission, RequestCloseAll, DrainEnds, vars
<1> QED BY <1>u, <1>1, <1>2, <1>3, <1>4, <1>5, <1>6, <1>7, <1>8, <1>9, <1>10, <1>11, <1>12,
       <1>13, <1>14, <1>15, <1>16, <1>17, <1>18, <1>19, <1>20, <1>21, <1>22 DEF Next,
       AttemptStep, StreamStep, GateStep, CloserStep, MainStep

LEMMA NextNoGap == Typed /\ Bindings /\ Streams /\ [Next]_vars => NoGap'
<1> SUFFICES ASSUME Typed, Bindings, Streams, [Next]_vars PROVE NoGap'
  OBVIOUS
<1> USE DEF Typed, RegistryTyped, AttemptTyped, ClientTyped, ProjectTyped, Bindings, Asked,
            Asking, Placed, Holding, Streams, Begun, Current, NoGap, Follows
<1> USE NobodyHolds
<1>u. UNCHANGED <<client>> => NoGap'
  OBVIOUS
<1>1. ASSUME NEW c \in Conns, Open(c) PROVE NoGap'
  BY <1>1 DEF Open, Unbound
<1>2. ASSUME NEW c \in Conns, StreamDropped(c) PROVE NoGap'
  BY <1>2 DEF StreamDropped, RequestClose, Unbound
<1>3. ASSUME NEW b \in Binds, Commit(b) PROVE NoGap'
  <2>h. PICK told \in SUBSET {c \in Preempted(b) : Reads(c)} : Rebind(b, told)
    BY <1>3 DEF Commit
  <2>1. pc[b] = "drain" /\ conn[b] \in Conns /\ client'[conn[b]] = AcceptBound(b)
    BY <1>3, <2>h DEF Commit, Drained, Rebind
  <2>2. ASSUME NEW c \in Conns, c # conn[b]
        PROVE  /\ client'[c].binding = client[c].binding
               /\ client'[c] = client[c] \/ client'[c].status = "detached"
    BY <2>h, <2>2, PreemptedClient DEF Rebind
  <2>3. client'[conn[b]].status = "bound"
    BY <2>1 DEF AcceptBound
  <2> HIDE DEF Typed, Bindings, Streams
  <2> QED BY <2>1, <2>2, <2>3 DEF Streams, NoGap
<1>4. ASSUME NEW b \in Binds, Forward(b) PROVE NoGap'
  <2>1. conn[b] \in Conns /\ Head(queue[b]) \in Nat /\ queue[b] # <<>> /\ pc[b] = "streaming"
    BY <1>4 DEF Forward
  <2>2. /\ client' = [client EXCEPT ![conn[b]] = AcceptEvent(conn[b], b, Head(queue[b]))]
        /\ queue' = [queue EXCEPT ![b] = Tail(queue[b])]
        /\ UNCHANGED <<pc, conn, observers, revision, root, snapshot>>
    BY <1>4 DEF Forward
  <2>3. ASSUME client[conn[b]].status = "bound", client[conn[b]].binding = b
        PROVE  Head(queue[b]) = client[conn[b]].revision + 1
    <3>1. 1 \in 1..Len(queue[b]) /\ Head(queue[b]) = queue[b][1]
      BY <2>1
    <3>2. Follows(b, client[conn[b]].revision)
      <4> HIDE DEF Typed, Bindings, Follows
      <4> QED BY <2>1, <2>3 DEF Streams, Current
    <3> QED BY <3>1, <3>2
  <2>4. client'[conn[b]].status # "gap"
    BY <2>1, <2>2, <2>3, EventClient
  <2> QED BY <2>2, <2>4
<1>5. ASSUME NEW c \in Conns, ForwarderLags(c) \/ TransitionBegins(c) \/
            TransitionDrained(c) \/ CloserCloses(c) \/ CloserFindsClosed(c) \/
            CloserClosed(c) PROVE NoGap'
  BY <1>5, <1>u DEF ForwarderLags, RequestClose, TransitionBegins, TransitionDrained,
     CloserCloses, Receive, CloseEnters, Enter, CloserFindsClosed, CloserClosed, Drained,
     Remove, Leave
<1>6. ASSUME NEW q \in Requests, RequestEnds(q) PROVE NoGap'
  BY <1>6, <1>u DEF RequestEnds
<1>7. ASSUME NEW q \in Requests, NEW c \in Conns, Acquire(q, c) PROVE NoGap'
  BY <1>7, <1>u DEF Acquire
<1>8. ASSUME NEW b \in Binds, NEW c \in Conns, NEW r \in Roots, Ask(b, c, r) PROVE NoGap'
  BY <1>8, <1>u DEF Ask, Becomes
<1>9. ASSUME NEW b \in Binds, Prepare(b) \/ PrepareFails(b) \/ BindNoOp(b) \/ BindRefused(b)
            \/ BindBegins(b) \/ BindAborted(b) \/ StartForwarder(b) \/ SpawnFails(b) \/
            AttemptCloses(b) PROVE NoGap'
  BY <1>9, <1>u DEF Prepare, Expects, Becomes, PrepareFails, Release, Forgets, BindNoOp,
     BindRefused, BindBegins, Enter, BindAborted, Drained, Leave, StartForwarder, Forwards,
     SpawnFails, AttemptCloses, CloseEnters
<1>10. ASSUME NEW b \in Binds, AttemptFindsClosed(b) \/ AttemptClosed(b) \/ StillBound(b) \/
            NoLongerBound(b) \/ Idle(b) \/ ForwardFails(b) \/ StreamCloses(b) \/
            StreamFindsClosed(b) \/ StreamClosed(b) PROVE NoGap'
  BY <1>10, <1>u DEF AttemptFindsClosed, AfterClose, Becomes, AttemptClosed, Drained,
     Remove, Leave, StillBound, Forwards, NoLongerBound, Matches, Return, Idle,
     ForwardFails, StreamCloses, CloseEnters, Enter, StreamFindsClosed, StreamClosed
<1>11. ASSUME NEW r \in Roots, Publish(r) \/ SessionCloses(r) PROVE NoGap'
  BY <1>11, <1>u DEF Publish, SessionCloses
<1>12. CASE CloserClosesAll \/ CloserClosedAll \/ CloserStops \/ CloseAdmission \/
            RequestCloseAll \/ DrainEnds \/ UNCHANGED vars
  BY <1>12, <1>u DEF CloserClosesAll, Receive, CloseEnters, Enter, CloserClosedAll, Drained,
     Remove, Leave, CloserStops, CloseAdmission, RequestCloseAll, DrainEnds, vars
<1> QED BY <1>u, <1>1, <1>2, <1>3, <1>4, <1>5, <1>6, <1>7, <1>8, <1>9, <1>10, <1>11, <1>12
       DEF Next, AttemptStep, StreamStep, GateStep, CloserStep, MainStep

-----------------------------------------------------------------------------
LEMMA InitTyped == Init => Typed
BY DEF Init, Typed, RegistryTyped, AttemptTyped, ProjectTyped, ClientTyped, RequestTyped,
       CommandsTyped, Command, Stages, Threads, Statuses, Unbound

LEMMA InitBindings == Init => Bindings
BY NobodyHolds DEF Init, Bindings, Owners, Owned, Expecting, Asked, Asking, Made, Placed, Holding,
       Opened

LEMMA InitLeases == Init => Leases
BY NobodyHolds DEF Init, Leases, LeaseKeepsBinding, Waits, BindWaits, CloseWaits, StreamWaits,
       CloserWaits, Commanded

LEMMA InitStreams == Init => Streams
BY DEF Init, Streams, Quiet, Begun, Rooted, Shown, Current, NoGap, Unbound

LEMMA NextTyped == Typed /\ Bindings /\ [Next]_vars => Typed'
BY NextRegistryTyped, NextAttemptTyped, NextProjectTyped, NextClientTyped, NextRequestTyped,
   NextCommandsTyped DEF Typed, Bindings

LEMMA NextBindings == Typed /\ Bindings /\ [Next]_vars => Bindings'
BY NextOwners, NextOwned, NextExpecting, NextAsked, NextMade, NextPlaced, NextHolding, NextOpened
   DEF Bindings

LEMMA NextLeased == Typed /\ Bindings /\ Leases /\ [Next]_vars => Leases'
BY NextLeases, NextBindWaits, NextCloseWaits, NextStreamWaits, NextCloserWaits, NextCommanded
   DEF Leases, Waits

LEMMA NextStreams == Typed /\ Bindings /\ Streams /\ [Next]_vars => Streams'
BY NextQuiet, NextBegun, NextRooted, NextShown, NextCurrent, NextNoGap DEF Streams

LEMMA Invariant == Spec => [](Typed /\ Bindings)
BY InitTyped, InitBindings, NextTyped, NextBindings, PTL DEF Spec

-----------------------------------------------------------------------------
\* The owner index, the bindings and the generations agree: a Project has at most one
\* Workbench, no lookup of an owner finds a connection that is gone, and a generation that was
\* read names one binding.
THEOREM BindingsAlwaysAgree == Spec => []BindingsAgree
<1>1. Bindings => BindingsAgree
  BY DEF Bindings, Owners, Owned, Expecting, Asking, BindingsAgree
<1> QED BY <1>1, Invariant, PTL

\* A request runs to its end under the binding it was admitted for: every change of a binding
\* and every removal of a connection waits for the requests of the connections it concerns.
THEOREM LeasesKeepBindings == Spec => []LeaseKeepsBinding
<1>1. Spec => []Leases
  BY Invariant, InitLeases, NextLeased, PTL DEF Spec
<1>2. Leases => LeaseKeepsBinding
  BY DEF Leases
<1> QED BY <1>1, <1>2, PTL

\* A client never misses an event of the Project it shows, whatever the capacity of the
\* subscriptions is and whenever its snapshot was taken.
THEOREM ClientsMissNothing == Spec => []NoGap
<1>1. Spec => []Streams
  BY Invariant, InitStreams, NextStreams, PTL DEF Spec
<1>2. Streams => NoGap
  BY DEF Streams
<1> QED BY <1>1, <1>2, PTL
=============================================================================

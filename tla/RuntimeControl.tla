--------------------------- MODULE RuntimeControl ---------------------------
(***************************************************************************)
(* The lifecycle of the Runtime process (control/server.rs): startup,      *)
(* admission of Product work, activation, and the three Product            *)
(* transitions that compete for it (update, quit and removal), together    *)
(* with the Control connections that are told how it ends.                 *)
(*                                                                         *)
(* The lifecycle mutex is held for one action at a time.  The              *)
(* product_transition lock is held across actions: its writer is a         *)
(* variable, and its readers are the activations in progress.  A thread    *)
(* that takes the write lock only to decide at once holds it for one       *)
(* action, whose guard is that the lock is free.                           *)
(***************************************************************************)
EXTENDS Integers, FiniteSets

CONSTANTS
  Workers,         \* admitted mutations and transfers of any kind
  Updates,         \* applications of a Product update, over HTTP
  ControlRemovers, \* Product removals asked for on a Control connection
  HttpRemovers,    \* Product removals asked for over HTTP
  Quitters,        \* callers of Product Quit
  Activations,     \* callers of activate_intent
  Connections,     \* Control connections
  Nobody           \* no holder of the lock, no transaction

Removers == ControlRemovers \cup HttpRemovers
Holders == Workers \cup Updates \cup Removers

ASSUME ThreadAssumption ==
  /\ Nobody \notin Updates \cup Removers
  /\ Workers \cap Updates = {}
  /\ Workers \cap Removers = {}
  /\ Updates \cap Removers = {}

VARIABLES
  main,        \* has the main thread called finish_startup?
  lifecycle,   \* RuntimeLifecycle
  transaction, \* the transaction id in UpdatePreparing and Replacing
  writer,      \* who holds product_transition for writing
  permits,     \* the holders of a RuntimeWorkPermit
  active,      \* active_product_work
  update,      \* program counter of an update: its handler, then its thread
  removal,     \* program counter of the handler of a removal
  drain,       \* program counter of the drain thread of a removal
  launched,    \* removals whose detached finalizer was started
  quit,        \* program counter of a caller of Product Quit
  activation,  \* program counter of a caller of activate_intent
  connection,  \* state of each Control connection
  told         \* connections the closing event was queued for

ending == <<lifecycle, transaction, writer>>
removing == <<removal, drain, launched>>
clients == <<connection, told>>
work == <<permits, active>>
vars == <<main, ending, work, update, removing, quit, activation, clients>>

Stopping == {"exiting", "replacing", "removing"}
Lifecycle == Stopping \cup {"starting", "ready", "updatePreparing", "removalPreparing"}
UpdatePc ==
  {"idle", "asked", "accepted", "lock", "drain", "check", "commit", "broadcast", "done"}
DrainPc == {"none", "lock", "drain", "check", "broadcast", "done"}

TypeOK ==
  /\ main \in {"starting", "running"}
  /\ lifecycle \in Lifecycle
  /\ transaction \in Updates \cup {Nobody}
  /\ writer \in Updates \cup Removers \cup {Nobody}
  /\ permits \in SUBSET Holders
  /\ active \in Nat
  /\ update \in [Updates -> UpdatePc]
  /\ removal \in [Removers -> {"idle", "admitted", "prepared", "accepted", "answered"}]
  /\ drain \in [Removers -> DrainPc]
  /\ launched \in SUBSET Removers
  /\ quit \in [Quitters -> {"idle", "waiting", "broadcast"}]
  /\ activation \in [Activations -> {"idle", "waiting", "active"}]
  /\ connection \in [Connections -> {"none", "open", "closed"}]
  /\ told \in SUBSET Connections

Init ==
  /\ main = "starting"
  /\ lifecycle = "starting"
  /\ transaction = Nobody
  /\ writer = Nobody
  /\ permits = {}
  /\ active = 0
  /\ update = [u \in Updates |-> "idle"]
  /\ removal = [r \in Removers |-> "idle"]
  /\ drain = [r \in Removers |-> "none"]
  /\ launched = {}
  /\ quit = [q \in Quitters |-> "idle"]
  /\ activation = [a \in Activations |-> "idle"]
  /\ connection = [c \in Connections |-> "none"]
  /\ told = {}

-----------------------------------------------------------------------------
(* The lifecycle, and the locks and counters around it.                    *)

\* RuntimeLifecycle::status: update preparation is publicly Ready.
PubliclyReady == lifecycle \in {"ready", "updatePreparing"}

\* Mutant: work is admitted by the public status.
AdmitsByStatus == PubliclyReady
\* begin_product_work returns a permit.
AdmitsWork == lifecycle = "ready"

\* Mutant: a writer does not wait for the readers.
FreeOfWriters == writer = Nobody
\* lock_product_transition returns.
TransitionFree == writer = Nobody /\ \A a \in Activations : activation[a] # "active"

\* wait_for_product_work_to_drain returns.
Drained == active = 0

Admit(h) ==
  /\ permits' = permits \cup {h}
  /\ active' = active + 1

\* The counter after Drop of the permit h has, if it has one.
Dropped(h) == IF h \in permits THEN active - 1 ELSE active

Release(h) ==
  /\ permits' = permits \ {h}
  /\ active' = Dropped(h)

StartupOutcome == IF lifecycle = "starting" THEN "ready" ELSE lifecycle

FinishStartup ==
  /\ main = "starting"
  /\ main' = "running"
  /\ lifecycle' = StartupOutcome
  /\ UNCHANGED <<transaction, writer, work, update, removing, quit, activation, clients>>

\* broadcast_event_with_flush_budget: every registered connection has the event
\* queued, or is closed because its queue is full or its flush is late.
Broadcast(lost) ==
  LET open == {c \in Connections : connection[c] = "open"} IN
  /\ lost \subseteq open
  /\ told' = told \cup (open \ lost)
  /\ connection' = [c \in Connections |-> IF c \in lost THEN "closed" ELSE connection[c]]

-----------------------------------------------------------------------------
(* Product work, and activation.                                           *)

WorkBegin(w) ==
  /\ w \notin permits
  /\ AdmitsWork
  /\ Admit(w)
  /\ UNCHANGED <<main, ending, update, removing, quit, activation, clients>>

WorkEnd(w) ==
  /\ w \in permits
  /\ Release(w)
  /\ UNCHANGED <<main, ending, update, removing, quit, activation, clients>>

ActivationAsk(a) ==
  /\ activation[a] = "idle"
  /\ activation' = [activation EXCEPT ![a] = "waiting"]
  /\ UNCHANGED <<main, ending, work, update, removing, quit, clients>>

\* Under the read lock, which an admitted activation keeps until it returns.
ActivationBegin(a) ==
  /\ activation[a] = "waiting"
  /\ writer = Nobody
  /\ activation' = [activation EXCEPT ![a] = IF lifecycle = "ready" THEN "active" ELSE "idle"]
  /\ UNCHANGED <<main, ending, work, update, removing, quit, clients>>

ActivationEnd(a) ==
  /\ activation[a] = "active"
  /\ activation' = [activation EXCEPT ![a] = "idle"]
  /\ UNCHANGED <<main, ending, work, update, removing, quit, clients>>

-----------------------------------------------------------------------------
(* Product update.                                                         *)

\* The handler of the update is itself an admitted mutation.
UpdateAdmit(u) ==
  /\ update[u] = "idle"
  /\ u \notin permits
  /\ AdmitsWork
  /\ Admit(u)
  /\ update' = [update EXCEPT ![u] = "asked"]
  /\ UNCHANGED <<main, ending, removing, quit, activation, clients>>

\* request_product_update wins, under the lifecycle mutex alone, or is refused.
UpdateRequest(u) ==
  /\ update[u] = "asked"
  /\ IF lifecycle = "ready"
     THEN /\ lifecycle' = "updatePreparing"
          /\ transaction' = u
          /\ update' = [update EXCEPT ![u] = "accepted"]
     ELSE /\ update' = [update EXCEPT ![u] = "idle"]
          /\ UNCHANGED <<lifecycle, transaction>>
  /\ UNCHANGED <<main, writer, work, removing, quit, activation, clients>>

UpdateSpawned(u) ==
  /\ update[u] = "accepted"
  /\ update' = [update EXCEPT ![u] = "lock"]
  /\ UNCHANGED <<main, ending, work, removing, quit, activation, clients>>

\* Mutant: a thread that cannot be started leaves its preparation behind.
UpdateSpawnFailsQuietly(u) ==
  /\ update[u] = "accepted"
  /\ update' = [update EXCEPT ![u] = "idle"]
  /\ UNCHANGED <<main, ending, work, removing, quit, activation, clients>>
UpdateSpawnFails(u) ==
  /\ update[u] = "accepted"
  /\ update' = [update EXCEPT ![u] = "idle"]
  /\ lifecycle' = "ready"
  /\ transaction' = Nobody
  /\ UNCHANGED <<main, writer, work, removing, quit, activation, clients>>

\* The handler's response is complete: its permit is dropped.
UpdateReturn(u) ==
  /\ u \in permits
  /\ update[u] \notin {"asked", "accepted"}
  /\ Release(u)
  /\ UNCHANGED <<main, ending, update, removing, quit, activation, clients>>

UpdateLock(u) ==
  /\ update[u] = "lock"
  /\ TransitionFree
  /\ writer' = u
  /\ update' = [update EXCEPT ![u] = "drain"]
  /\ UNCHANGED <<main, lifecycle, transaction, work, removing, quit, activation, clients>>

UpdateDrained(u) ==
  /\ update[u] = "drain"
  /\ Drained
  /\ update' = [update EXCEPT ![u] = "check"]
  /\ UNCHANGED <<main, ending, work, removing, quit, activation, clients>>

\* The preparation must still be this one; otherwise on_cancel.
UpdateCheck(u) ==
  /\ update[u] = "check"
  /\ IF lifecycle = "updatePreparing" /\ transaction = u
     THEN /\ update' = [update EXCEPT ![u] = "commit"]
          /\ UNCHANGED writer
     ELSE /\ update' = [update EXCEPT ![u] = "idle"]
          /\ writer' = Nobody
  /\ UNCHANGED <<main, lifecycle, transaction, work, removing, quit, activation, clients>>

\* The commit fails before its forward-only boundary.
UpdateReverts(u) ==
  /\ update[u] = "commit"
  /\ lifecycle' = "ready"
  /\ transaction' = Nobody
  /\ writer' = Nobody
  /\ update' = [update EXCEPT ![u] = "idle"]
  /\ UNCHANGED <<main, work, removing, quit, activation, clients>>

\* The commit succeeds, or fails beyond the boundary: the Runtime is replaced.
UpdateReplaces(u) ==
  /\ update[u] = "commit"
  /\ lifecycle' = "replacing"
  /\ writer' = Nobody
  /\ update' = [update EXCEPT ![u] = "broadcast"]
  /\ UNCHANGED <<main, transaction, work, removing, quit, activation, clients>>

UpdateBroadcast(u) ==
  /\ update[u] = "broadcast"
  /\ \E lost \in SUBSET Connections : Broadcast(lost)
  /\ update' = [update EXCEPT ![u] = "done"]
  /\ UNCHANGED <<main, ending, work, removing, quit, activation>>

-----------------------------------------------------------------------------
(* Product removal: its handler, and the thread that drains the work.      *)

\* Over Control the handler goes on without a permit when none is given; over
\* HTTP the request is then refused.
RemovalAdmit(r) ==
  /\ removal[r] = "idle"
  /\ r \in HttpRemovers => AdmitsWork
  /\ IF AdmitsWork THEN Admit(r) ELSE UNCHANGED work
  /\ removal' = [removal EXCEPT ![r] = "admitted"]
  /\ UNCHANGED <<main, ending, update, drain, launched, quit, activation, clients>>

\* response_for looks at the public status; prepare_removal may refuse.
RemovalPrepare(r) ==
  /\ removal[r] = "admitted"
  /\ \/ /\ r \in HttpRemovers \/ PubliclyReady
        /\ removal' = [removal EXCEPT ![r] = "prepared"]
     \/ removal' = [removal EXCEPT ![r] = "answered"]
  /\ UNCHANGED <<main, ending, work, update, drain, launched, quit, activation, clients>>

RemovalMayWin == lifecycle = "ready"

\* request_product_removal launches the finalizer under both locks ...
RemovalAccept(r) ==
  /\ removal[r] = "prepared"
  /\ TransitionFree
  /\ RemovalMayWin
  /\ lifecycle' = "removalPreparing"
  /\ launched' = launched \cup {r}
  /\ drain' = [drain EXCEPT ![r] = "lock"]
  /\ removal' = [removal EXCEPT ![r] = "accepted"]
  /\ UNCHANGED <<main, transaction, writer, work, update, quit, activation, clients>>

\* ... or refuses, because another transition won or the launch failed; what
\* was staged is then removed.
RemovalRefuse(r) ==
  /\ removal[r] = "prepared"
  /\ TransitionFree
  /\ removal' = [removal EXCEPT ![r] = "answered"]
  /\ UNCHANGED <<main, ending, work, update, drain, launched, quit, activation, clients>>

\* The acceptance is flushed to the client, or its connection is closed.
RemovalDeliver(r) ==
  /\ removal[r] = "accepted"
  /\ removal' = [removal EXCEPT ![r] = "answered"]
  /\ UNCHANGED <<main, ending, work, update, drain, launched, quit, activation, clients>>

RemovalReturn(r) ==
  /\ removal[r] = "answered"
  /\ removal' = [removal EXCEPT ![r] = "idle"]
  /\ Release(r)
  /\ UNCHANGED <<main, ending, update, drain, launched, quit, activation, clients>>

DrainLock(r) ==
  /\ drain[r] = "lock"
  /\ TransitionFree
  /\ writer' = r
  /\ drain' = [drain EXCEPT ![r] = "drain"]
  /\ UNCHANGED <<main, lifecycle, transaction, work, update, removal, launched, quit,
                 activation, clients>>

DrainDrained(r) ==
  /\ drain[r] = "drain"
  /\ Drained
  /\ drain' = [drain EXCEPT ![r] = "check"]
  /\ UNCHANGED <<main, ending, work, update, removal, launched, quit, activation, clients>>

DrainCheck(r) ==
  /\ drain[r] = "check"
  /\ IF lifecycle = "removalPreparing"
     THEN /\ lifecycle' = "removing"
          /\ drain' = [drain EXCEPT ![r] = "broadcast"]
          /\ UNCHANGED writer
     ELSE /\ writer' = Nobody
          /\ drain' = [drain EXCEPT ![r] = "done"]
          /\ UNCHANGED lifecycle
  /\ UNCHANGED <<main, transaction, work, update, removal, launched, quit, activation, clients>>

DrainBroadcast(r) ==
  /\ drain[r] = "broadcast"
  /\ \E lost \in SUBSET Connections : Broadcast(lost)
  /\ writer' = Nobody
  /\ drain' = [drain EXCEPT ![r] = "done"]
  /\ UNCHANGED <<main, lifecycle, transaction, work, update, removal, launched, quit, activation>>

-----------------------------------------------------------------------------
(* Product Quit, and the Control connections.                              *)

QuitAsk(q) ==
  /\ quit[q] = "idle"
  /\ quit' = [quit EXCEPT ![q] = "waiting"]
  /\ UNCHANGED <<main, ending, work, update, removing, activation, clients>>

\* begin_product_quit: QuitAdmission::Started.
QuitStarts == lifecycle \in {"starting", "ready"}

QuitDecide(q) ==
  /\ quit[q] = "waiting"
  /\ TransitionFree
  /\ IF QuitStarts
     THEN /\ lifecycle' = "exiting"
          /\ quit' = [quit EXCEPT ![q] = "broadcast"]
     ELSE /\ quit' = [quit EXCEPT ![q] = "idle"]
          /\ UNCHANGED lifecycle
  /\ UNCHANGED <<main, transaction, writer, work, update, removing, activation, clients>>

QuitBroadcast(q) ==
  /\ quit[q] = "broadcast"
  /\ \E lost \in SUBSET Connections : Broadcast(lost)
  /\ quit' = [quit EXCEPT ![q] = "idle"]
  /\ UNCHANGED <<main, ending, work, update, removing, activation>>

\* Mutant: registration forgets one of the stopping states.
RegistersBefore == lifecycle \notin {"exiting", "replacing"}
Registers == lifecycle \notin Stopping

\* register_connection, under the lifecycle mutex: the handshake is accepted,
\* rejected because the Runtime stops, or fails.
Connect(c) ==
  /\ connection[c] = "none"
  /\ \/ Registers /\ connection' = [connection EXCEPT ![c] = "open"]
     \/ connection' = [connection EXCEPT ![c] = "closed"]
  /\ UNCHANGED <<main, ending, work, update, removing, quit, activation, told>>

Disconnect(c) ==
  /\ connection[c] = "open"
  /\ connection' = [connection EXCEPT ![c] = "closed"]
  /\ UNCHANGED <<main, ending, work, update, removing, quit, activation, told>>

-----------------------------------------------------------------------------
UpdateHandler(u) == UpdateRequest(u) \/ UpdateSpawned(u) \/ UpdateSpawnFails(u) \/ UpdateReturn(u)

UpdateThread(u) ==
  \/ UpdateLock(u) \/ UpdateDrained(u) \/ UpdateCheck(u)
  \/ UpdateReverts(u) \/ UpdateReplaces(u) \/ UpdateBroadcast(u)

RemovalHandler(r) ==
  \/ RemovalPrepare(r) \/ RemovalAccept(r) \/ RemovalRefuse(r)
  \/ RemovalDeliver(r) \/ RemovalReturn(r)

DrainThread(r) == DrainLock(r) \/ DrainDrained(r) \/ DrainCheck(r) \/ DrainBroadcast(r)

QuitStep(q) == QuitDecide(q) \/ QuitBroadcast(q)

ActivationStep(a) == ActivationBegin(a) \/ ActivationEnd(a)

Next ==
  \/ FinishStartup
  \/ \E w \in Workers : WorkBegin(w) \/ WorkEnd(w)
  \/ \E u \in Updates : UpdateAdmit(u) \/ UpdateHandler(u) \/ UpdateThread(u)
  \/ \E r \in Removers : RemovalAdmit(r) \/ RemovalHandler(r) \/ DrainThread(r)
  \/ \E q \in Quitters : QuitAsk(q) \/ QuitStep(q)
  \/ \E a \in Activations : ActivationAsk(a) \/ ActivationStep(a)
  \/ \E c \in Connections : Connect(c) \/ Disconnect(c)

Spec == Init /\ [][Next]_vars

-----------------------------------------------------------------------------
(* Properties.                                                             *)

\* The forward-only commit of an update runs with no admitted work and no
\* activation in flight, on behalf of the preparation that owns the lifecycle
\* (request_product_update, wait_for_product_work_to_drain).
CommitRunsAlone ==
  \A u \in Updates : update[u] = "commit" =>
    /\ permits = {}
    /\ \A a \in Activations : activation[a] # "active"
    /\ lifecycle = "updatePreparing"
    /\ transaction = u

\* Once the Runtime stops, or has accepted its removal, neither startup nor a
\* competing transition brings it back or ends it another way.
EndingIsFinal ==
  [][/\ lifecycle \in Stopping => lifecycle' = lifecycle
     /\ lifecycle = "removalPreparing" => lifecycle' \in {"removalPreparing", "removing"}]_vars

\* At most one finalizer is ever launched, and from then on the Runtime can
\* only go on to be removed: the finalizer deletes what an update would select.
OneRemovalWins ==
  /\ \A r, s \in launched : r = s
  /\ launched # {} => lifecycle \in {"removalPreparing", "removing"}

\* The Runtime is Removing only after the admitted work has drained, and none
\* is admitted again.
RemovingHasNoWork == lifecycle = "removing" => permits = {}

\* When the closing event has been broadcast, every connection that is still
\* open had it queued: none slips in between the decision and the broadcast.
EveryConnectionHears ==
  (/\ lifecycle \in Stopping
   /\ \A u \in Updates : update[u] # "broadcast"
   /\ \A r \in Removers : drain[r] # "broadcast"
   /\ \A q \in Quitters : quit[q] # "broadcast")
    => \A c \in Connections : connection[c] = "open" => c \in told

\* The hazard of the lock order: a removal that holds a permit waits for the
\* lock, whose holder waits for the permits to drain.
PermitWaitsForLock ==
  /\ (\E u \in Updates : update[u] = "drain") \/ (\E r \in Removers : drain[r] = "drain")
  /\ \E r \in Removers \cap permits : removal[r] = "prepared"
=============================================================================

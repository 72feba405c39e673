------------------------ MODULE RuntimeControlProofs ------------------------
(***************************************************************************)
(* Proofs about RuntimeControl, and about ProductRemoval which composes it  *)
(* with the finalizer, for any number of threads of each kind.              *)
(***************************************************************************)
EXTENDS ProductRemoval, FiniteSetTheorems, TLAPS

\* active_product_work counts the permits that exist.
Counted == IsFiniteSet(permits) /\ active = Cardinality(permits)

\* A removal that is not in progress has no permit.
IdleHoldsNothing == \A r \in Removers : removal[r] = "idle" => r \notin permits

Typed == TypeOK /\ Counted /\ IdleHoldsNothing

USE DEF Removers, Holders, ending, work, removing, clients

LEMMA AdmitCounts ==
  ASSUME Typed, NEW h \in Holders, h \notin permits, Admit(h)
  PROVE  /\ permits' \in SUBSET Holders
         /\ active' \in Nat
         /\ Counted'
<1>1. /\ IsFiniteSet(permits')
      /\ Cardinality(permits') = Cardinality(permits) + 1
  BY FS_AddElement DEF Admit, Typed, Counted
<1>2. permits' \in SUBSET Holders /\ active' = active + 1
  BY DEF Admit, Typed, TypeOK
<1> QED BY <1>1, <1>2 DEF Typed, Counted, TypeOK

LEMMA ReleaseCounts ==
  ASSUME Typed, NEW h \in Holders, Release(h)
  PROVE  /\ permits' \in SUBSET Holders
         /\ active' \in Nat
         /\ Counted'
<1>1. permits' \in SUBSET Holders /\ permits' = permits \ {h}
  BY DEF Release, Typed, TypeOK
<1>2. /\ IsFiniteSet(permits')
      /\ Cardinality(permits') = IF h \in permits THEN Cardinality(permits) - 1
                                                  ELSE Cardinality(permits)
  BY <1>1, FS_RemoveElement DEF Typed, Counted
<1>3. Cardinality(permits') \in Nat
  BY <1>2, FS_CardinalityType
<1>4. active' = Cardinality(permits')
  BY <1>2 DEF Release, Dropped, Typed, Counted
<1> QED BY <1>1, <1>2, <1>3, <1>4 DEF Counted

\* The permits are all dropped exactly when the counter is back to zero.
LEMMA DrainedMeansNoPermit ==
  ASSUME Typed
  PROVE  Drained <=> permits = {}
BY FS_EmptySet DEF Drained, Typed, Counted

LEMMA BroadcastTyped ==
  ASSUME TypeOK, NEW lost \in SUBSET Connections, Broadcast(lost)
  PROVE  /\ told' \in SUBSET Connections
         /\ connection' \in [Connections -> {"none", "open", "closed"}]
BY DEF Broadcast, TypeOK

LEMMA InitTyped == Init => Typed
BY ThreadAssumption, FS_EmptySet DEF Init, Typed, TypeOK, Counted, IdleHoldsNothing, Lifecycle, UpdatePc,
   DrainPc

\* Work is only ever added by an admission; the steps of the threads keep it.
LEMMA NextTyped ==
  ASSUME Typed, [Next]_vars
  PROVE  Typed'
<1> USE ThreadAssumption DEF Typed, TypeOK, IdleHoldsNothing
<1>1. CASE FinishStartup
  BY <1>1 DEF FinishStartup, StartupOutcome, Lifecycle, Counted
<1>2. ASSUME NEW w \in Workers, WorkBegin(w) \/ WorkEnd(w)
      PROVE  Typed'
  <2>1. CASE WorkBegin(w)
    BY <2>1, AdmitCounts DEF WorkBegin, Admit
  <2>2. CASE WorkEnd(w)
    BY <2>2, ReleaseCounts DEF WorkEnd, Release
  <2> QED BY <1>2, <2>1, <2>2
<1>3. ASSUME NEW u \in Updates, UpdateAdmit(u) \/ UpdateHandler(u) \/ UpdateThread(u)
      PROVE  Typed'
  <2>1. CASE UpdateAdmit(u)
    BY <2>1, AdmitCounts DEF UpdateAdmit, Admit, UpdatePc
  <2>2. CASE UpdateReturn(u)
    BY <2>2, ReleaseCounts DEF UpdateReturn, Release
  <2>3. CASE UpdateRequest(u) \/ UpdateSpawned(u) \/ UpdateSpawnFails(u)
    BY <2>3 DEF UpdateRequest, UpdateSpawned, UpdateSpawnFails, UpdatePc, Lifecycle, Counted
  <2>4. CASE UpdateLock(u) \/ UpdateDrained(u) \/ UpdateCheck(u)
    BY <2>4 DEF UpdateLock, UpdateDrained, UpdateCheck, UpdatePc, Counted
  <2>5. CASE UpdateReverts(u) \/ UpdateReplaces(u)
    BY <2>5 DEF UpdateReverts, UpdateReplaces, UpdatePc, Lifecycle, Stopping, Counted
  <2>6. CASE UpdateBroadcast(u)
    BY <2>6, BroadcastTyped DEF UpdateBroadcast, UpdatePc, Counted
  <2> QED BY <1>3, <2>1, <2>2, <2>3, <2>4, <2>5, <2>6 DEF UpdateHandler, UpdateThread
<1>4. ASSUME NEW r \in Removers, RemovalAdmit(r) \/ RemovalHandler(r) \/ DrainThread(r)
      PROVE  Typed'
  <2>1. CASE RemovalAdmit(r) /\ r \notin permits
    BY <2>1, AdmitCounts DEF RemovalAdmit, Admit, Counted
  <2>2. CASE RemovalAdmit(r) /\ r \in permits
    BY <2>2 DEF RemovalAdmit
  <2>3. CASE RemovalReturn(r)
    BY <2>3, ReleaseCounts DEF RemovalReturn, Release
  <2>4. CASE RemovalPrepare(r) \/ RemovalRefuse(r) \/ RemovalDeliver(r)
    BY <2>4 DEF RemovalPrepare, RemovalRefuse, RemovalDeliver, Counted
  <2>5. CASE RemovalAccept(r)
    BY <2>5 DEF RemovalAccept, Lifecycle, DrainPc, Counted
  <2>6. CASE DrainLock(r) \/ DrainDrained(r) \/ DrainCheck(r)
    BY <2>6 DEF DrainLock, DrainDrained, DrainCheck, Lifecycle, Stopping, DrainPc, Counted
  <2>7. CASE DrainBroadcast(r)
    BY <2>7, BroadcastTyped DEF DrainBroadcast, DrainPc, Counted
  <2> QED BY <1>4, <2>1, <2>2, <2>3, <2>4, <2>5, <2>6, <2>7 DEF RemovalHandler, DrainThread
<1>5. ASSUME NEW q \in Quitters, QuitAsk(q) \/ QuitStep(q)
      PROVE  Typed'
  <2>1. CASE QuitAsk(q) \/ QuitDecide(q)
    BY <2>1 DEF QuitAsk, QuitDecide, Lifecycle, Stopping, Counted
  <2>2. CASE QuitBroadcast(q)
    BY <2>2, BroadcastTyped DEF QuitBroadcast, Counted
  <2> QED BY <1>5, <2>1, <2>2 DEF QuitStep
<1>6. ASSUME NEW a \in Activations, ActivationAsk(a) \/ ActivationStep(a)
      PROVE  Typed'
  BY <1>6 DEF ActivationAsk, ActivationStep, ActivationBegin, ActivationEnd, Counted
<1>7. ASSUME NEW c \in Connections, Connect(c) \/ Disconnect(c)
      PROVE  Typed'
  BY <1>7 DEF Connect, Disconnect, Counted
<1>8. CASE UNCHANGED vars
  BY <1>8 DEF vars, Counted
<1> QED BY <1>1, <1>2, <1>3, <1>4, <1>5, <1>6, <1>7, <1>8 DEF Next

\* Every variable keeps its type, and the counter of Runtime work permits never
\* underflows: a permit is dropped once, by the handler it was given to.
THEOREM TypeCorrect == Spec => []TypeOK
<1>1. Init => Typed
  BY InitTyped
<1>2. Typed /\ [Next]_vars => Typed'
  BY NextTyped
<1>3. Typed => TypeOK
  BY DEF Typed
<1> QED BY <1>1, <1>2, <1>3, PTL DEF Spec

-----------------------------------------------------------------------------
(* Who owns the lifecycle, the transition lock and the drained work.       *)

\* An update in progress is the preparation that the lifecycle names.
PreparationOwned ==
  \A u \in Updates : update[u] \in {"accepted", "lock", "drain", "check", "commit"} =>
    lifecycle = "updatePreparing" /\ transaction = u

\* The write lock has one holder, and no reader beside it.
LockOwned ==
  /\ \A u \in Updates : update[u] \in {"drain", "check", "commit"} => writer = u
  /\ \A r \in Removers : drain[r] \in {"drain", "check", "broadcast"} => writer = r
  /\ writer # Nobody => \A a \in Activations : activation[a] # "active"

\* Nothing is admitted between the drain and what it was awaited for.
WorkStaysDrained ==
  /\ \A u \in Updates : update[u] \in {"check", "commit"} => permits = {}
  /\ \A r \in Removers : drain[r] = "check" => permits = {}
  /\ RemovingHasNoWork

\* A finalizer is launched by the removal that the drain then works for.
RemovalOwned ==
  /\ OneRemovalWins
  /\ \A r \in Removers : drain[r] # "none" => r \in launched
  /\ \A r \in Removers : drain[r] \in {"lock", "drain", "check"} => lifecycle = "removalPreparing"

Owned == PreparationOwned /\ LockOwned /\ WorkStaysDrained /\ RemovalOwned

LEMMA InitOwned == Init => Owned
BY DEF Init, Owned, PreparationOwned, LockOwned, WorkStaysDrained, RemovingHasNoWork,
       RemovalOwned, OneRemovalWins

LEMMA NextOwned ==
  ASSUME Typed, Owned, [Next]_vars
  PROVE  Owned'
<1> USE ThreadAssumption DEF Owned, PreparationOwned, LockOwned, WorkStaysDrained,
        RemovingHasNoWork, RemovalOwned, OneRemovalWins
<1>0. TypeOK /\ (Drained <=> permits = {})
  BY DrainedMeansNoPermit DEF Typed
<1> USE DEF TypeOK
<1>1. CASE FinishStartup
  BY <1>0, <1>1 DEF FinishStartup, StartupOutcome
<1>2. ASSUME NEW w \in Workers, WorkBegin(w) \/ WorkEnd(w)
      PROVE  Owned'
  BY <1>0, <1>2 DEF WorkBegin, WorkEnd, AdmitsWork, Admit, Release
<1>3. ASSUME NEW u \in Updates, UpdateAdmit(u) \/ UpdateHandler(u) \/ UpdateThread(u)
      PROVE  Owned'
  <2>1. CASE UpdateAdmit(u)
    BY <1>0, <2>1 DEF UpdateAdmit, AdmitsWork, Admit
  <2>2. CASE UpdateRequest(u)
    BY <1>0, <2>2 DEF UpdateRequest
  <2>3. CASE UpdateSpawned(u) \/ UpdateSpawnFails(u)
    BY <1>0, <2>3 DEF UpdateSpawned, UpdateSpawnFails
  <2>4. CASE UpdateReturn(u)
    BY <1>0, <2>4 DEF UpdateReturn, Release
  <2>5. CASE UpdateLock(u)
    BY <1>0, <2>5 DEF UpdateLock, TransitionFree
  <2>6. CASE UpdateDrained(u)
    BY <1>0, <2>6 DEF UpdateDrained
  <2>7. CASE UpdateCheck(u)
    BY <1>0, <2>7 DEF UpdateCheck
  <2>8. CASE UpdateReverts(u) \/ UpdateReplaces(u)
    BY <1>0, <2>8 DEF UpdateReverts, UpdateReplaces
  <2>9. CASE UpdateBroadcast(u)
    BY <1>0, <2>9 DEF UpdateBroadcast
  <2> QED BY <1>3, <2>1, <2>2, <2>3, <2>4, <2>5, <2>6, <2>7, <2>8, <2>9
          DEF UpdateHandler, UpdateThread
<1>4. ASSUME NEW r \in Removers, RemovalAdmit(r) \/ RemovalHandler(r) \/ DrainThread(r)
      PROVE  Owned'
  <2>1. CASE RemovalAdmit(r)
    BY <1>0, <2>1 DEF RemovalAdmit, AdmitsWork, Admit
  <2>2. CASE RemovalPrepare(r) \/ RemovalRefuse(r) \/ RemovalDeliver(r)
    BY <1>0, <2>2 DEF RemovalPrepare, RemovalRefuse, RemovalDeliver
  <2>3. CASE RemovalAccept(r)
    BY <1>0, <2>3 DEF RemovalAccept, RemovalMayWin, TransitionFree
  <2>4. CASE RemovalReturn(r)
    BY <1>0, <2>4 DEF RemovalReturn, Release
  <2>5. CASE DrainLock(r)
    BY <1>0, <2>5 DEF DrainLock, TransitionFree
  <2>6. CASE DrainDrained(r)
    BY <1>0, <2>6 DEF DrainDrained
  <2>7. CASE DrainCheck(r)
    BY <1>0, <2>7 DEF DrainCheck
  <2>8. CASE DrainBroadcast(r)
    BY <1>0, <2>8 DEF DrainBroadcast
  <2> QED BY <1>4, <2>1, <2>2, <2>3, <2>4, <2>5, <2>6, <2>7, <2>8 DEF RemovalHandler, DrainThread
<1>5. ASSUME NEW q \in Quitters, QuitAsk(q) \/ QuitStep(q)
      PROVE  Owned'
  <2>1. CASE QuitAsk(q) \/ QuitBroadcast(q)
    BY <1>0, <2>1 DEF QuitAsk, QuitBroadcast
  <2>2. CASE QuitDecide(q)
    BY <1>0, <2>2 DEF QuitDecide, QuitStarts
  <2> QED BY <1>5, <2>1, <2>2 DEF QuitStep
<1>6. ASSUME NEW a \in Activations, ActivationAsk(a) \/ ActivationStep(a)
      PROVE  Owned'
  BY <1>0, <1>6 DEF ActivationAsk, ActivationStep, ActivationBegin, ActivationEnd
<1>7. ASSUME NEW c \in Connections, Connect(c) \/ Disconnect(c)
      PROVE  Owned'
  BY <1>0, <1>7 DEF Connect, Disconnect
<1>8. CASE UNCHANGED vars
  BY <1>8 DEF vars
<1> QED BY <1>1, <1>2, <1>3, <1>4, <1>5, <1>6, <1>7, <1>8 DEF Next

LEMMA OwnedIsInvariant == Spec => [](Typed /\ Owned)
<1>1. Init => Typed /\ Owned
  BY InitTyped, InitOwned
<1>2. Typed /\ Owned /\ [Next]_vars => (Typed /\ Owned)'
  BY NextTyped, NextOwned
<1> QED BY <1>1, <1>2, PTL DEF Spec

\* request_product_update: the forward-only commit of an update runs with no
\* admitted work and no activation in flight, whatever else was asked for.
THEOREM CommitIsExclusive == Spec => []CommitRunsAlone
<1>1. Typed /\ Owned => CommitRunsAlone
  BY ThreadAssumption DEF Owned, PreparationOwned, LockOwned, WorkStaysDrained, CommitRunsAlone
<1> QED BY <1>1, OwnedIsInvariant, PTL

\* request_product_removal: one finalizer at most, launched for good, and a
\* Runtime that is Removing has no admitted work left.
THEOREM RemovalIsExclusive == Spec => [](OneRemovalWins /\ RemovingHasNoWork)
<1>1. Typed /\ Owned => OneRemovalWins /\ RemovingHasNoWork
  BY DEF Owned, WorkStaysDrained, RemovalOwned
<1> QED BY <1>1, OwnedIsInvariant, PTL

\* finish_startup and the transitions: what ends the Runtime is not undone.
THEOREM EndingStays == Spec => EndingIsFinal
<1> DEFINE Final ==
      /\ lifecycle \in Stopping => lifecycle' = lifecycle
      /\ lifecycle = "removalPreparing" => lifecycle' \in {"removalPreparing", "removing"}
<1>1. ASSUME Typed, Owned, [Next]_vars
      PROVE  Final
  <2> USE <1>1 DEF Stopping
  <2>1. CASE lifecycle' = lifecycle
    BY <2>1
  <2>2. CASE FinishStartup
    BY <2>2 DEF FinishStartup, StartupOutcome
  <2>3. ASSUME NEW u \in Updates,
               UpdateRequest(u) \/ UpdateSpawnFails(u) \/ UpdateReverts(u) \/ UpdateReplaces(u)
        PROVE  Final
    BY <2>3 DEF UpdateRequest, UpdateSpawnFails, UpdateReverts, UpdateReplaces, Owned,
                PreparationOwned
  <2>4. ASSUME NEW r \in Removers, RemovalAccept(r) \/ DrainCheck(r)
        PROVE  Final
    BY <2>4 DEF RemovalAccept, RemovalMayWin, DrainCheck
  <2>5. ASSUME NEW q \in Quitters, QuitDecide(q)
        PROVE  Final
    BY <2>5 DEF QuitDecide, QuitStarts
  <2>6. \/ lifecycle' = lifecycle
        \/ FinishStartup
        \/ \E u \in Updates :
             UpdateRequest(u) \/ UpdateSpawnFails(u) \/ UpdateReverts(u) \/ UpdateReplaces(u)
        \/ \E r \in Removers : RemovalAccept(r) \/ DrainCheck(r)
        \/ \E q \in Quitters : QuitDecide(q)
    BY DEF Next, vars, WorkBegin, WorkEnd, UpdateHandler, UpdateThread, UpdateAdmit,
           UpdateSpawned, UpdateReturn, UpdateLock, UpdateDrained, UpdateCheck,
           UpdateBroadcast, RemovalAdmit, RemovalHandler, RemovalPrepare, RemovalRefuse,
           RemovalDeliver, RemovalReturn, DrainThread, DrainLock, DrainDrained,
           DrainBroadcast, QuitAsk, QuitStep, QuitBroadcast, ActivationAsk, ActivationStep,
           ActivationBegin, ActivationEnd, Connect, Disconnect
  <2> QED BY <2>1, <2>2, <2>3, <2>4, <2>5, <2>6
<1>2. Typed /\ Owned /\ [Next]_vars => [Final]_vars
  BY <1>1
<1> QED BY <1>2, OwnedIsInvariant, PTL DEF Spec, EndingIsFinal

LEMMA InitHears == Init => EveryConnectionHears
BY DEF Init, EveryConnectionHears, Stopping

\* After the event is queued or its connection closed, nothing is left untold.
LEMMA BroadcastHears ==
  ASSUME TypeOK, \E lost \in SUBSET Connections : Broadcast(lost)
  PROVE  EveryConnectionHears'
BY DEF Broadcast, TypeOK, EveryConnectionHears

\* A step that neither opens a connection nor ends a broadcast.
LEMMA QuietHears ==
  ASSUME EveryConnectionHears,
         UNCHANGED <<update, drain, quit, clients>>, lifecycle' \in Stopping => lifecycle \in Stopping
  PROVE  EveryConnectionHears'
BY DEF EveryConnectionHears

LEMMA NextHears ==
  ASSUME Typed, EveryConnectionHears, [Next]_vars
  PROVE  EveryConnectionHears'
<1> USE DEF Typed, TypeOK
<1>1. CASE FinishStartup
  BY <1>1, QuietHears DEF FinishStartup, StartupOutcome, Stopping
<1>2. ASSUME NEW w \in Workers, WorkBegin(w) \/ WorkEnd(w)
      PROVE  EveryConnectionHears'
  BY <1>2, QuietHears DEF WorkBegin, WorkEnd
<1>3. ASSUME NEW u \in Updates, UpdateAdmit(u) \/ UpdateHandler(u) \/ UpdateThread(u)
      PROVE  EveryConnectionHears'
  <2>1. CASE UpdateReplaces(u)
    BY <2>1 DEF UpdateReplaces, EveryConnectionHears
  <2>2. CASE UpdateBroadcast(u)
    BY <2>2, BroadcastHears DEF UpdateBroadcast
  <2>3. CASE UpdateReturn(u)
    BY <2>3, QuietHears DEF UpdateReturn
  <2>4. CASE UpdateRequest(u) \/ UpdateSpawnFails(u) \/ UpdateReverts(u)
    BY <2>4 DEF UpdateRequest, UpdateSpawnFails, UpdateReverts, EveryConnectionHears, Stopping
  <2>5. CASE UpdateAdmit(u) \/ UpdateSpawned(u) \/ UpdateLock(u) \/ UpdateDrained(u) \/ UpdateCheck(u)
    BY <2>5 DEF UpdateAdmit, UpdateSpawned, UpdateLock, UpdateDrained, UpdateCheck, EveryConnectionHears
  <2> QED BY <1>3, <2>1, <2>2, <2>3, <2>4, <2>5 DEF UpdateHandler, UpdateThread
<1>4. ASSUME NEW r \in Removers, RemovalAdmit(r) \/ RemovalHandler(r) \/ DrainThread(r)
      PROVE  EveryConnectionHears'
  <2>1. CASE RemovalAdmit(r) \/ RemovalPrepare(r) \/ RemovalRefuse(r) \/ RemovalDeliver(r)
             \/ RemovalReturn(r)
    BY <2>1, QuietHears DEF RemovalAdmit, RemovalPrepare, RemovalRefuse, RemovalDeliver, RemovalReturn
  <2>2. CASE RemovalAccept(r)
    BY <2>2 DEF RemovalAccept, EveryConnectionHears, Stopping
  <2>3. CASE DrainLock(r) \/ DrainDrained(r) \/ DrainCheck(r)
    BY <2>3 DEF DrainLock, DrainDrained, DrainCheck, EveryConnectionHears
  <2>4. CASE DrainBroadcast(r)
    BY <2>4, BroadcastHears DEF DrainBroadcast
  <2> QED BY <1>4, <2>1, <2>2, <2>3, <2>4 DEF RemovalHandler, DrainThread
<1>5. ASSUME NEW q \in Quitters, QuitAsk(q) \/ QuitStep(q)
      PROVE  EveryConnectionHears'
  <2>1. CASE QuitAsk(q) \/ QuitDecide(q)
    BY <2>1 DEF QuitAsk, QuitDecide, EveryConnectionHears
  <2>2. CASE QuitBroadcast(q)
    BY <2>2, BroadcastHears DEF QuitBroadcast
  <2> QED BY <1>5, <2>1, <2>2 DEF QuitStep
<1>6. ASSUME NEW a \in Activations, ActivationAsk(a) \/ ActivationStep(a)
      PROVE  EveryConnectionHears'
  BY <1>6, QuietHears DEF ActivationAsk, ActivationStep, ActivationBegin, ActivationEnd
<1>7. ASSUME NEW c \in Connections, Connect(c) \/ Disconnect(c)
      PROVE  EveryConnectionHears'
  BY <1>7 DEF Connect, Disconnect, Registers, EveryConnectionHears
<1>8. CASE UNCHANGED vars
  BY <1>8, QuietHears DEF vars
<1> QED BY <1>1, <1>2, <1>3, <1>4, <1>5, <1>6, <1>7, <1>8 DEF Next

\* register_connection and broadcast_event_with_flush_budget: when the broadcast of the
\* closing event is over, each connection that is still open has it queued; none can
\* be registered between the decision and the broadcast.
THEOREM ClosingIsHeard == Spec => []EveryConnectionHears
<1>1. EveryConnectionHears /\ Typed /\ [Next]_vars => EveryConnectionHears'
  BY NextHears
<1>2. Typed /\ Owned => Typed
  OBVIOUS
<1> QED BY <1>1, <1>2, InitHears, OwnedIsInvariant, PTL DEF Spec

-----------------------------------------------------------------------------
(* The composition with the finalizer.                                      *)

\* The finalizer was launched for one removal, and every one of them for good.
Launches ==
  /\ launched \in SUBSET Removers
  /\ \A r, s \in launched : r = s
  /\ \A r \in Removers : finalizer[r] # "none" <=> r \in launched
  /\ finalizer \in [Removers -> {"none", "wait", "projections", "home", "restore",
                                 "retained", "staging", "desktop", "done", "failed"}]

\* While the Runtime is up its own invariants hold, and the removal that launched a
\* finalizer prepares nothing again: the staging of its first preparation stays.
Lives ==
  /\ process = "up" => Typed /\ Owned /\ EveryConnectionHears
  /\ process # "up" => lifecycle = "starting" /\ \A u \in Updates : update[u] = "idle"

PreparesOnce ==
  process = "up" => \A r \in launched :
    /\ removal[r] # "prepared"
    /\ r \in HttpRemovers => removal[r] # "admitted"

\* The Product is touched by a launched finalizer that has seen the Runtime gone; a
\* Runtime that was cut short had launched none.
Waited ==
  /\ \A r \in Removers :
       finalizer[r] \notin {"none", "wait", "failed"} => process = "exited"
  /\ home # "whole" \/ removed # {} => process = "exited" /\ launched # {}
  /\ cut => process = "exited" /\ launched = {}

\* The configuration that is to be kept is staged until it is back in its place.
Staged ==
  /\ process = "up" => \A r \in Removers :
       removal[r] = "prepared" /\ kept[r] => staging[r] = "config"
  /\ kept \in [Removers -> BOOLEAN]
  /\ staging \in [Removers -> {"none", "plan", "config"}]

Retained ==
  \A r \in launched : kept[r] =>
    /\ finalizer[r] \in {"wait", "projections", "home", "restore", "retained"} =>
         staging[r] = "config"
    /\ finalizer[r] \in {"wait", "projections"} => home = "whole"
    /\ finalizer[r] \in {"retained", "staging", "desktop", "done"} => home = "config"
    /\ finalizer[r] = "failed" => home \in {"whole", "config"} \/ staging[r] = "config"

Finalized == Launches /\ Lives /\ PreparesOnce /\ Waited /\ Staged /\ Retained

LEMMA InitFinalized == RemovalInit => Finalized
<1> SUFFICES ASSUME RemovalInit PROVE Finalized
  OBVIOUS
<1>1. Typed /\ Owned /\ EveryConnectionHears
  BY InitTyped, InitOwned, InitHears DEF RemovalInit
<1> USE DEF RemovalInit, Init
<1>2. Launches /\ Lives
  BY <1>1 DEF Launches, Lives
<1>3. PreparesOnce /\ Waited /\ Retained
  BY DEF PreparesOnce, Waited, Retained
<1>4. Staged
  BY DEF Staged
<1> QED BY <1>2, <1>3, <1>4 DEF Finalized

\* What a step of the Runtime does to the removals.
LEMMA RemovalMoves ==
  ASSUME Next
  PROVE  \/ UNCHANGED <<removal, launched>>
         \/ \E r \in Removers :
              \/ RemovalAdmit(r) \/ RemovalPrepare(r) \/ RemovalAccept(r)
              \/ RemovalRefuse(r) \/ RemovalDeliver(r) \/ RemovalReturn(r)
BY DEF Next, FinishStartup, WorkBegin, WorkEnd, UpdateHandler, UpdateThread, UpdateAdmit,
       UpdateRequest, UpdateSpawned, UpdateSpawnFails, UpdateReturn, UpdateLock, UpdateDrained,
       UpdateCheck, UpdateReverts, UpdateReplaces, UpdateBroadcast, RemovalHandler, DrainThread,
       DrainLock, DrainDrained, DrainCheck, DrainBroadcast, QuitAsk, QuitStep, QuitDecide,
       QuitBroadcast, ActivationAsk, ActivationStep, ActivationBegin, ActivationEnd, Connect,
       Disconnect

\* A removal comes to "prepared" from "admitted" only, and is launched from "prepared".
LEMMA RemovalPath ==
  ASSUME Typed, Next, NEW s \in Removers
  PROVE  /\ removal'[s] = "prepared" => removal[s] \in {"admitted", "prepared"}
         /\ s \in launched' /\ s \notin launched =>
              removal[s] = "prepared" /\ removal'[s] = "accepted"
         /\ s \in launched => s \in launched'
BY RemovalMoves DEF RemovalAdmit, RemovalPrepare, RemovalAccept, RemovalRefuse, RemovalDeliver,
                    RemovalReturn, Typed, TypeOK

\* A removal whose finalizer was launched is never prepared, nor cancelled, again.
LEMMA LaunchedOnce ==
  ASSUME Typed, Owned, PreparesOnce, process = "up", Next, NEW s \in launched
  PROVE  /\ removal'[s] # "prepared"
         /\ s \in HttpRemovers => removal'[s] # "admitted"
<1>1. lifecycle \in {"removalPreparing", "removing"}
  BY DEF Owned, RemovalOwned, OneRemovalWins
<1>2. removal[s] # "prepared" /\ (s \in HttpRemovers => removal[s] # "admitted")
  BY DEF PreparesOnce
<1>3. CASE UNCHANGED <<removal, launched>>
  BY <1>2, <1>3
<1>4. ASSUME NEW r \in Removers,
             \/ RemovalAdmit(r) \/ RemovalPrepare(r) \/ RemovalAccept(r)
             \/ RemovalRefuse(r) \/ RemovalDeliver(r) \/ RemovalReturn(r)
      PROVE  /\ removal'[s] # "prepared"
             /\ s \in HttpRemovers => removal'[s] # "admitted"
  BY <1>1, <1>2, <1>4
     DEF RemovalAdmit, RemovalPrepare, RemovalAccept, RemovalRefuse, RemovalDeliver,
         RemovalReturn, PubliclyReady, AdmitsWork, Typed, TypeOK
<1> QED BY <1>3, <1>4, RemovalMoves

LEMMA RunsFinalized ==
  ASSUME Finalized, Runs(Next)
  PROVE  Finalized'
<1>0. /\ process = "up" /\ Typed /\ Owned /\ EveryConnectionHears /\ Next
      /\ UNCHANGED <<process, home, removed, cut, faults>>
  BY DEF Finalized, Lives, Runs
<1>1. Typed' /\ Owned' /\ EveryConnectionHears'
  BY <1>0, NextTyped, NextOwned, NextHears
<1>2. PreparesOnce /\ PreparesOnce'
  <2>1. ASSUME NEW s \in launched'
        PROVE  removal'[s] # "prepared" /\ (s \in HttpRemovers => removal'[s] # "admitted")
    BY <1>0, <1>1, <2>1, LaunchedOnce, RemovalPath DEF Finalized, Typed, TypeOK
  <2> QED BY <2>1 DEF PreparesOnce, Finalized
<1>3. \A s \in launched : ~Prepares(s) /\ ~Cancels(s)
  BY <1>0, <1>2, LaunchedOnce DEF Prepares, Cancels, PreparesOnce
<1>4. home = "whole" /\ removed = {} /\ cut = FALSE
      /\ \A r \in Removers : finalizer[r] \in {"none", "wait", "failed"}
  BY <1>0 DEF Finalized, Waited
<1>5. Launches'
  <2>1. finalizer' = [r \in Removers |-> IF r \in launched' \ launched THEN "wait" ELSE finalizer[r]]
    BY DEF Runs
  <2>2. launched' \in SUBSET Removers /\ \A r, s \in launched' : r = s
    BY <1>1 DEF Typed, TypeOK, Owned, RemovalOwned, OneRemovalWins
  <2>3. \A s \in Removers : s \in launched => s \in launched'
    BY <1>0, RemovalPath
  <2> QED BY <2>1, <2>2, <2>3 DEF Finalized, Launches
<1>6. Lives'
  BY <1>0, <1>1 DEF Lives
<1>7. Waited'
  BY <1>0, <1>4 DEF Runs, Waited
<1>8. Staged'
  <2>1. kept' \in [Removers -> BOOLEAN] /\ staging' \in [Removers -> {"none", "plan", "config"}]
    BY DEF Runs, Finalized, Staged
  <2>2. ASSUME NEW s \in Removers, removal'[s] = "prepared", kept'[s]
        PROVE  staging'[s] = "config"
    <3>1. CASE removal[s] = "admitted"
      <4>1. Prepares(s)
        BY <2>2, <3>1 DEF Prepares
      <4> QED BY <2>2, <4>1 DEF Runs
    <3>2. CASE removal[s] = "prepared"
      <4>1. ~Prepares(s) /\ ~Cancels(s)
        BY <2>2, <3>2 DEF Prepares, Cancels
      <4>2. kept[s] /\ staging'[s] = staging[s]
        BY <2>2, <4>1 DEF Runs
      <4> QED BY <1>0, <3>2, <4>2 DEF Finalized, Staged
    <3> QED BY <1>0, <2>2, <3>1, <3>2, RemovalPath
  <2> QED BY <2>1, <2>2 DEF Staged
<1>9. Retained'
  <2> SUFFICES ASSUME NEW s \in launched', kept'[s]
               PROVE  /\ home' = "whole" /\ finalizer'[s] \in {"wait", "failed"}
                      /\ finalizer'[s] = "wait" => staging'[s] = "config"
    BY DEF Retained
  <2>1. s \in Removers
    BY <1>1 DEF Typed, TypeOK
  <2>2. CASE s \in launched
    <3>1. kept[s] /\ staging'[s] = staging[s] /\ finalizer'[s] = finalizer[s]
      BY <1>3, <2>1, <2>2 DEF Runs
    <3> QED BY <1>0, <1>4, <2>1, <2>2, <3>1 DEF Finalized, Retained, Launches
  <2>3. CASE s \notin launched
    <3>1. removal[s] = "prepared" /\ removal'[s] = "accepted"
      BY <1>0, <2>1, <2>3, RemovalPath
    <3>2. ~Prepares(s) /\ ~Cancels(s)
      BY <3>1 DEF Prepares, Cancels
    <3>3. kept[s] /\ staging'[s] = staging[s] /\ finalizer'[s] = "wait"
      BY <2>1, <2>3, <3>2 DEF Runs
    <3> QED BY <1>0, <1>4, <2>1, <3>1, <3>3 DEF Finalized, Staged
  <2> QED BY <2>2, <2>3
<1> QED BY <1>2, <1>5, <1>6, <1>7, <1>8, <1>9 DEF Finalized

\* The end of the process: what it had in memory is gone, the rest stays.
LEMMA EndsFinalized ==
  ASSUME Finalized, Exits \/ Crashes
  PROVE  Finalized'
<1>0. /\ process = "up" /\ process' = "exited" /\ lifecycle' = "starting"
      /\ update' = [u \in Updates |-> "idle"]
      /\ UNCHANGED <<launched, kept, staging, finalizer, home, removed>>
  BY DEF Exits, Crashes, Ends, finalization
<1>1. Typed /\ Owned
  BY <1>0 DEF Finalized, Lives
<1>2. cut' => launched = {}
  <2>1. CASE Exits
    <3>1. permits # {} /\ lifecycle \in Stopping => launched = {}
      BY <1>1 DEF Owned, WorkStaysDrained, RemovingHasNoWork, RemovalOwned, OneRemovalWins, Stopping
    <3> QED BY <2>1, <3>1 DEF Exits
  <2>2. CASE Crashes
    BY <1>0, <2>2 DEF Crashes, Finalized, Waited
  <2> QED BY <2>1, <2>2
<1>3. Launches' /\ Retained'
  BY <1>0 DEF Finalized, Launches, Retained
<1>4. Lives' /\ PreparesOnce' /\ Staged'
  BY <1>0 DEF Lives, PreparesOnce, Finalized, Staged
<1>5. Waited'
  BY <1>0, <1>2 DEF Finalized, Waited
<1> QED BY <1>3, <1>4, <1>5 DEF Finalized

\* A step of a finalizer leaves the Runtime alone.
LEMMA OutsideFinalized ==
  ASSUME Finalized, UNCHANGED <<vars, process, kept>>
  PROVE  /\ Lives' /\ PreparesOnce'
         /\ process = "exited" \/ UNCHANGED staging
              => (staging' \in [Removers -> {"none", "plan", "config"}] => Staged')
<1>1. [Next]_vars
  OBVIOUS
<1>2. Typed /\ Owned /\ EveryConnectionHears => Typed' /\ Owned' /\ EveryConnectionHears'
  BY <1>1, NextTyped, NextOwned, NextHears
<1>3. UNCHANGED <<lifecycle, update, removal, launched, process>>
  BY DEF vars
<1> QED BY <1>2, <1>3 DEF Finalized, Lives, PreparesOnce, Staged

\* The steps of a finalizer are those of the only one there is.
LEMMA FinalizerFinalized ==
  ASSUME Finalized, NEW r \in Removers, FinalizerStep(r) \/ WaitTimesOut(r) \/ FinalizerFails(r)
  PROVE  Finalized'
<1>0. UNCHANGED <<vars, process, kept, cut>> /\ UNCHANGED launched
  BY DEF FinalizerStep, RuntimeGone, RemoveProjections, RemoveHome, Restore, RemoveRetained,
         RemoveStaging, RemoveDesktop, WaitTimesOut, FinalizerFails, vars
<1>1. finalizer[r] # "none" /\ r \in launched /\ \A s \in launched : s = r
  BY DEF FinalizerStep, RuntimeGone, RemoveProjections, RemoveHome, Restore, RemoveRetained,
         RemoveStaging, RemoveDesktop, WaitTimesOut, FinalizerFails, At, Finalized, Launches
<1>2. Launches'
  BY <1>0, <1>1 DEF FinalizerStep, RuntimeGone, RemoveProjections, RemoveHome, Restore,
     RemoveRetained, RemoveStaging, RemoveDesktop, WaitTimesOut, FinalizerFails, At, Finalized, Launches
<1>3. Lives' /\ PreparesOnce' /\ Staged'
  <2>1. staging' \in [Removers -> {"none", "plan", "config"}]
        /\ (process = "exited" \/ UNCHANGED staging)
    BY DEF FinalizerStep, RuntimeGone, RemoveProjections, RemoveHome, Restore, RemoveRetained,
           RemoveStaging, RemoveDesktop, WaitTimesOut, FinalizerFails, At, Finalized, Staged, Waited
  <2> QED BY <1>0, <2>1, OutsideFinalized
<1>4. Waited'
  BY <1>0, <1>1 DEF FinalizerStep, RuntimeGone, RemoveProjections, RemoveHome, Restore,
     RemoveRetained, RemoveStaging, RemoveDesktop, WaitTimesOut, FinalizerFails, At, Finalized,
     Launches, Waited
<1>5. Retained'
  BY <1>0, <1>1 DEF FinalizerStep, RuntimeGone, RemoveProjections, RemoveHome, Restore,
     RemoveRetained, RemoveStaging, RemoveDesktop, WaitTimesOut, FinalizerFails, At, Finalized,
     Launches, Staged, Retained, Waited
<1> QED BY <1>2, <1>3, <1>4, <1>5 DEF Finalized

LEMMA AlwaysFinalized == RemovalSpec => []Finalized
<1>1. Finalized /\ [RemovalNext]_removalVars => Finalized'
  <2> SUFFICES ASSUME Finalized, [RemovalNext]_removalVars PROVE Finalized'
    OBVIOUS
  <2>1. CASE UNCHANGED removalVars
    <3>1. UNCHANGED <<vars, process, kept, staging>>
      BY <2>1 DEF removalVars
    <3>2. Lives' /\ PreparesOnce' /\ Staged'
      BY <3>1, OutsideFinalized DEF Finalized, Staged
    <3>3. Launches' /\ Waited' /\ Retained'
      BY <2>1 DEF removalVars, vars, finalization, Finalized, Launches, Waited, Retained
    <3> QED BY <3>2, <3>3 DEF Finalized
  <2> QED BY <2>1, RunsFinalized, EndsFinalized, FinalizerFinalized DEF RemovalNext
<1> QED BY <1>1, InitFinalized, PTL DEF RemovalSpec

\* removal.rs, finalize: the Product is touched only by a finalizer that has seen the
\* Runtime gone, one that left no admitted work unless it crashed; and the configuration
\* that was to be kept is in place or staged, whichever step failed or died.
THEOREM NothingIsLost == RemovalSpec => []RemovalLosesNothing
<1>1. Finalized => RemovalLosesNothing
  BY DEF Finalized, Launches, Waited, Retained, RemovalLosesNothing
<1> QED BY <1>1, AlwaysFinalized, PTL

\* The exclusive commit and the last event of every connection hold of the Runtime
\* that removals, crashes and the finalizer run beside.
THEOREM ComposedRuntime == RemovalSpec => [](CommitRunsAlone /\ EveryConnectionHears)
<1>1. Finalized => CommitRunsAlone /\ EveryConnectionHears
  <2> SUFFICES ASSUME Finalized PROVE CommitRunsAlone /\ EveryConnectionHears
    OBVIOUS
  <2>1. CASE process = "up"
    BY <2>1, ThreadAssumption DEF Finalized, Lives, Owned, PreparationOwned, LockOwned,
       WorkStaysDrained, CommitRunsAlone
  <2>2. CASE process # "up"
    BY <2>2 DEF Finalized, Lives, CommitRunsAlone, EveryConnectionHears, Stopping
  <2> QED BY <2>1, <2>2
<1> QED BY <1>1, AlwaysFinalized, PTL
=============================================================================

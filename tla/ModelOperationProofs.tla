------------------------ MODULE ModelOperationProofs ------------------------
(***************************************************************************)
(* Proofs about ModelOperation, for every set of operations, threads and   *)
(* callers and every positive MAX_TERMINAL_OPERATIONS.                     *)
(***************************************************************************)
EXTENDS ModelOperation, SequenceTheorems, FiniteSetTheorems, TLAPS

\* A call in progress names an operation.
Named ==
  /\ submission.pc # "idle" => submission.op \in Ops
  /\ \A c \in Callers : call[c].pc # "idle" => call[c].op \in Ops
  /\ \A w \in Waiters : wait[w].pc # "idle" => wait[w].op \in Ops

Typed == TypeOK /\ Named

USE DEF Callers

\* retain_terminal only appends its operation and drops a prefix: what is in
\* the order, and what leaves the registry, was in the order before or is o.
LEMMA RetainFacts ==
  ASSUME TypeOK, NEW o \in Ops, RetainTerminal(o)
  PROVE  /\ terminalOrder' \in Seq(Ops)
         /\ retained' \in SUBSET retained
         /\ \A i \in 1 .. Len(terminalOrder') :
              \/ terminalOrder'[i] = o
              \/ \E j \in 1 .. Len(terminalOrder) : terminalOrder'[i] = terminalOrder[j]
         /\ \A p \in retained \ retained' :
              p = o \/ \E j \in 1 .. Len(terminalOrder) : p = terminalOrder[j]
<1>1. CASE \E i \in 1 .. Len(terminalOrder) : terminalOrder[i] = o
  BY <1>1 DEF RetainTerminal, TypeOK
<1>2. CASE ~ \E i \in 1 .. Len(terminalOrder) : terminalOrder[i] = o
  <2> DEFINE pushed == Append(terminalOrder, o)
             n == Len(pushed)
  <2>1. terminalOrder \in Seq(Ops)
    BY DEF TypeOK
  <2>2. /\ pushed \in Seq(Ops)
        /\ n = Len(terminalOrder) + 1
        /\ \A i \in 1 .. n : pushed[i] = o \/ \E j \in 1 .. Len(terminalOrder) :
                                               pushed[i] = terminalOrder[j]
    BY <2>1, AppendProperties, LenProperties
  <2>3. Excess(pushed) \in 0 .. n
    BY <2>1, <2>2, LenProperties, RetentionAssumption DEF Excess
  <2>4. /\ terminalOrder' = SubSeq(pushed, Excess(pushed) + 1, n)
        /\ retained' = retained \ {pushed[i] : i \in 1 .. Excess(pushed)}
    BY <1>2 DEF RetainTerminal
  <2> HIDE DEF pushed
  <2>5. n \in Nat
    BY <2>2, LenProperties
  <2> HIDE DEF n
  <2>6. \A i \in Excess(pushed) + 1 .. n : pushed[i] \in Ops
    BY <2>2, <2>3, <2>5, ElementOfSeq DEF n
  <2>7. /\ terminalOrder' \in Seq(Ops)
        /\ Len(terminalOrder') =
             IF Excess(pushed) + 1 <= n THEN n - (Excess(pushed) + 1) + 1 ELSE 0
        /\ \A i \in 1 .. n - (Excess(pushed) + 1) + 1 :
             terminalOrder'[i] = pushed[Excess(pushed) + 1 + i - 1]
    BY <2>3, <2>4, <2>5, <2>6, SubSeqProperties
  <2>8. \A i \in 1 .. Len(terminalOrder') : \E k \in 1 .. n : terminalOrder'[i] = pushed[k]
    <3> TAKE i \in 1 .. Len(terminalOrder')
    <3>1. i \in 1 .. n - (Excess(pushed) + 1) + 1
      BY <2>3, <2>5, <2>7
    <3>2. Excess(pushed) + 1 + i - 1 \in 1 .. n
      BY <3>1, <2>3, <2>5
    <3> QED BY <3>1, <3>2, <2>7
  <2>9. \A i \in 1 .. Len(terminalOrder') :
          \/ terminalOrder'[i] = o
          \/ \E j \in 1 .. Len(terminalOrder) : terminalOrder'[i] = terminalOrder[j]
    <3> TAKE i \in 1 .. Len(terminalOrder')
    <3>1. PICK k \in 1 .. n : terminalOrder'[i] = pushed[k]
      BY <2>8
    <3> QED BY <2>2, <3>1
  <2>10. \A p \in retained \ retained' :
           p = o \/ \E j \in 1 .. Len(terminalOrder) : p = terminalOrder[j]
    <3> TAKE p \in retained \ retained'
    <3>1. PICK k \in 1 .. Excess(pushed) : p = pushed[k]
      BY <2>4
    <3>2. k \in 1 .. n
      BY <2>3, <2>5
    <3> QED BY <2>2, <3>1, <3>2
  <2>11. retained' \in SUBSET retained
    BY <2>4
  <2>12. terminalOrder' \in Seq(Ops)
    BY <2>7
  <2> QED BY <2>9, <2>10, <2>11, <2>12
<1> QED BY <1>1, <1>2

LEMMA InitTyped == Init => Typed
BY ShapeAssumption, HolderAssumption
   DEF Init, Typed, TypeOK, Named, NoProgress, Items, IdleWait, Wait, Progress, Lane, LanePc,
       WorkerPc, Holders, States

\* A settlement and the end of an item leave typed records.
LEMMA SettleTyped ==
  ASSUME TypeOK, NEW o \in Ops, NEW final \in States, Settle(o, final)
  PROVE  /\ state' \in [Ops -> States]
         /\ bindings' \in [Ops -> SUBSET (1 .. ItemCount)]
         /\ progress' \in [Ops -> Progress]
<1>1. state' \in [Ops -> States] /\ bindings' \in [Ops -> SUBSET (1 .. ItemCount)]
  BY DEF TypeOK, Settle
<1>2. PICK r \in Progress : r = progress[o]
  BY DEF TypeOK
<1>3. PICK p : p = [r EXCEPT !.active = 0]
  OBVIOUS
<1>4. p \in Progress
  BY <1>3 DEF Progress
<1>5. progress' = [progress EXCEPT ![o] = p]
  BY <1>2, <1>3 DEF Settle
<1> QED BY <1>1, <1>4, <1>5 DEF TypeOK

LEMMA FailedTyped ==
  ASSUME TypeOK, NEW o \in Ops, Failed(o)
  PROVE  /\ state' \in [Ops -> States]
         /\ bindings' \in [Ops -> SUBSET (1 .. ItemCount)]
         /\ progress' \in [Ops -> Progress]
BY SettleTyped DEF TypeOK, Failed, IsTerminal, operations, States, Terminal

LEMMA ItemFinishedTyped ==
  ASSUME NEW r \in Progress, NEW i \in 1 .. ItemCount, NEW cancelled \in BOOLEAN,
         NEW result \in {"ok", "failed", "cancelled"}
  PROVE  ItemFinished(r, i, result, cancelled) \in Progress
<1>1. PICK settled : settled = [r EXCEPT !.active = @ - 1]
  OBVIOUS
<1>2. settled \in Progress
  BY <1>1 DEF Progress
<1>3. \A status \in {"succeeded", "failed"} :
        Append(r.outcomes, [item |-> i, status |-> status]) \in Seq(Outcome)
  BY DEF Progress, Outcome
<1>4. CASE result = "ok"
  <2>1. PICK s : s = [settled EXCEPT !.succeeded = @ + 1]
    OBVIOUS
  <2>2. s \in Progress
    BY <1>2, <2>1, SMTT(30) DEF Progress
  <2>3. PICK seq \in Seq(Outcome) :
          seq = Append(r.outcomes, [item |-> i, status |-> "succeeded"])
    BY <1>3
  <2>4. ItemFinished(r, i, result, cancelled) = [s EXCEPT !.outcomes = seq]
    BY <1>1, <1>4, <2>1, <2>3 DEF ItemFinished
  <2> QED BY <2>2, <2>4 DEF Progress
<1>5. CASE result # "ok" /\ cancelled
  <2>1. PICK failure \in {"none", "some"} :
          ItemFinished(r, i, result, cancelled) =
            [settled EXCEPT !.cancellationFailure = failure]
    BY <1>1, <1>2, <1>5 DEF ItemFinished, Progress
  <2> QED BY <1>2, <2>1 DEF Progress
<1>6. CASE result # "ok" /\ ~cancelled
  <2>1. PICK s : s = [settled EXCEPT !.failed = @ + 1]
    OBVIOUS
  <2>2. s \in Progress
    BY <1>2, <2>1, SMTT(30) DEF Progress
  <2>3. PICK seq \in Seq(Outcome) :
          seq = Append(r.outcomes, [item |-> i, status |-> "failed"])
    BY <1>3
  <2>4. ItemFinished(r, i, result, cancelled) = [s EXCEPT !.outcomes = seq]
    BY <1>1, <1>6, <2>1, <2>3 DEF ItemFinished
  <2> QED BY <2>2, <2>4 DEF Progress
<1> QED BY <1>4, <1>5, <1>6

USE DEF operations, registry, threads, service, cancel

LEMMA ReleasedTyped ==
  ASSUME TypeOK, NEW o \in Ops, NEW h
  PROVE  ReleasedBy(o, h) \in [Ops -> Holders]
BY DEF TypeOK, ReleasedBy, Holders

LEMMA AfterFinishTyped ==
  ASSUME TypeOK, NEW o \in Ops, AfterFinish(o)
  PROVE  worker' \in [Ops -> WorkerPc] /\ completion' \in [Ops -> Holders]
<1>1. worker' \in [Ops -> WorkerPc]
  BY DEF TypeOK, AfterFinish, WorkerPc
<1>2. completion' = completion \/ completion' = ReleasedBy(o, Worker)
  BY DEF AfterFinish
<1> QED BY <1>1, <1>2, ReleasedTyped DEF TypeOK

LEMMA LaneSet ==
  ASSUME TypeOK, NEW o \in Ops, NEW l \in Lanes, NEW r \in Lane, SetLane(o, l, r)
  PROVE  lane' \in [Ops -> [Lanes -> Lane]]
BY DEF TypeOK, SetLane

LEMMA SubmitTyped ==
  ASSUME Typed, (\E o \in Ops : SubmitAccept(o)) \/ SubmitRefused \/ SubmitStep
  PROVE  Typed'
<1>1. ASSUME NEW o \in Ops, SubmitAccept(o) PROVE Typed'
  BY <1>1 DEF Typed, TypeOK, Named, SubmitAccept, Unreaped, WorkerPc, States, Active
<1>2. CASE SubmitRefused
  BY <1>2 DEF Typed, TypeOK, Named, SubmitRefused, Unreaped
<1>3. CASE SubmitRegister
  BY <1>3 DEF Typed, TypeOK, Named, SubmitRegister
<1>4. CASE SubmitStart
  BY <1>4 DEF Typed, TypeOK, Named, SubmitStart, SubmitReturns, WorkerPc
<1>5. CASE SubmitStartFails
  <2>1. submission.op \in Ops /\ Failed(submission.op)
    BY <1>5 DEF Typed, Named, SubmitStartFails
  <2>2. /\ state' \in [Ops -> States]
        /\ bindings' \in [Ops -> SUBSET (1 .. ItemCount)]
        /\ progress' \in [Ops -> Progress]
    BY <2>1, FailedTyped DEF Typed
  <2>3. /\ worker' \in [Ops -> WorkerPc]
        /\ lifecycle' \in {"free", "submit", "shutdown"}
        /\ submission' \in [pc : {"idle", "accepted", "registered", "retain"},
                            op : Ops \cup {Nobody}]
        /\ submission'.pc # "idle" => submission'.op \in Ops
    <3>1. worker' \in [Ops -> WorkerPc]
      BY <1>5 DEF Typed, TypeOK, SubmitStartFails, WorkerPc
    <3>2. CASE IsTerminal(submission.op)
      BY <1>5, <3>1, <3>2 DEF SubmitStartFails, SubmitReturns
    <3>3. CASE ~IsTerminal(submission.op)
      BY <1>5, <2>1, <3>1, <3>3 DEF Typed, TypeOK, SubmitStartFails
    <3> QED BY <3>2, <3>3
  <2> QED
    BY <1>5, <2>2, <2>3 DEF Typed, TypeOK, Named, SubmitStartFails
<1>6. CASE SubmitRetain
  BY <1>6, RetainFacts DEF Typed, TypeOK, Named, SubmitRetain, SubmitReturns
<1> QED BY <1>1, <1>2, <1>3, <1>4, <1>5, <1>6 DEF SubmitStep

LEMMA WorkerTyped ==
  ASSUME Typed, NEW o \in Ops, WorkerStep(o)
  PROVE  Typed'
<1>1. CASE Execute(o)
  <2>1. ASSUME NEW l \in Lanes
        PROVE  [lane[o][l] EXCEPT !.pc = "fetch"] \in Lane
    <3>1. PICK r \in Lane : r = lane[o][l]
      BY DEF Typed, TypeOK
    <3>2. [r EXCEPT !.pc = "fetch"] \in Lane
      BY DEF Lane, LanePc
    <3> QED BY <3>1, <3>2
  <2>2. PICK row \in [Lanes -> Lane] :
          row = [l \in Lanes |-> [lane[o][l] EXCEPT !.pc = "fetch"]]
    BY <2>1
  <2>3. lane' = lane \/ lane' = [lane EXCEPT ![o] = row]
    BY <1>1, <2>2 DEF Execute
  <2>4. lane' \in [Ops -> [Lanes -> Lane]]
    BY <2>2, <2>3 DEF Typed, TypeOK
  <2>5. worker' \in [Ops -> WorkerPc]
    <3>1. \/ worker' = [worker EXCEPT ![o] = "join"]
          \/ worker' = [worker EXCEPT ![o] = "take"]
          \/ worker' = [worker EXCEPT ![o] = "exit"]
      BY <1>1, Zenon DEF Execute
    <3> QED BY <3>1 DEF Typed, TypeOK, WorkerPc
  <2>6. state' \in [Ops -> States]
    BY <1>1 DEF Typed, TypeOK, Execute, StillQueued, States, Active
  <2> QED BY <1>1, <2>4, <2>5, <2>6 DEF Typed, TypeOK, Named, Execute
<1>2. CASE SingleTake(o)
  BY <1>2 DEF Typed, TypeOK, Named, SingleTake, WorkerPc
<1>3. CASE SingleRun(o)
  BY <1>3 DEF Typed, TypeOK, Named, SingleRun, WorkerPc
<1>4. CASE SingleDecide(o)
  BY <1>4 DEF Typed, TypeOK, Named, SingleDecide, MayCommit, WorkerPc, Holders
<1>5. CASE SingleCommit(o)
  <2>1. 1 \in 1 .. ItemCount
    BY ShapeAssumption
  <2>2. PICK published \in SUBSET (1 .. ItemCount) : published = committed[o] \cup {1}
    BY <2>1 DEF Typed, TypeOK
  <2>3. committed' = committed \/ committed' = [committed EXCEPT ![o] = published]
    BY <1>5, <2>2 DEF SingleCommit
  <2>4. committed' \in [Ops -> SUBSET (1 .. ItemCount)]
    BY <2>2, <2>3 DEF Typed, TypeOK
  <2>5. \E pc \in {"succeed", "finishFailed"} : worker' = [worker EXCEPT ![o] = pc]
    BY <1>5 DEF SingleCommit
  <2>6. worker' \in [Ops -> WorkerPc]
    BY <2>5 DEF Typed, TypeOK, WorkerPc
  <2> QED BY <1>5, <2>4, <2>6 DEF Typed, TypeOK, Named, SingleCommit
<1>6. CASE SingleSucceed(o)
  BY <1>6 DEF Typed, TypeOK, Named, SingleSucceed, WorkerPc, States, Terminal
<1>7. CASE FinishFailed(o)
  <2>1. /\ state' \in [Ops -> States]
        /\ bindings' \in [Ops -> SUBSET (1 .. ItemCount)]
        /\ progress' \in [Ops -> Progress]
    BY <1>7, FailedTyped DEF Typed, FinishFailed
  <2>2. worker' \in [Ops -> WorkerPc] /\ completion' \in [Ops -> Holders]
    BY <1>7, AfterFinishTyped DEF Typed, FinishFailed
  <2> QED BY <1>7, <2>1, <2>2 DEF Typed, TypeOK, Named, FinishFailed
<1>8. CASE FinishCancelled(o)
  <2>1. /\ state' \in [Ops -> States]
        /\ bindings' \in [Ops -> SUBSET (1 .. ItemCount)]
        /\ progress' \in [Ops -> Progress]
    BY <1>8, SettleTyped DEF Typed, TypeOK, FinishCancelled, IsTerminal, States, Terminal
  <2>2. worker' \in [Ops -> WorkerPc] /\ completion' \in [Ops -> Holders]
    BY <1>8, AfterFinishTyped DEF Typed, FinishCancelled
  <2> QED BY <1>8, <2>1, <2>2 DEF Typed, TypeOK, Named, FinishCancelled
<1>9. CASE WorkerRetain(o)
  <2>1. terminalOrder' \in Seq(Ops) /\ retained' \in SUBSET Ops
    BY <1>9, RetainFacts DEF Typed, TypeOK, WorkerRetain
  <2>2. completion' \in [Ops -> Holders]
    BY <1>9, ReleasedTyped DEF Typed, WorkerRetain
  <2> QED
    BY <1>9, <2>1, <2>2 DEF Typed, TypeOK, Named, WorkerRetain, WorkerPc
<1>10. CASE BatchDecide(o)
  BY <1>10 DEF Typed, TypeOK, Named, BatchDecide, WorkerPc
<1>11. CASE FinishSucceeded(o)
  BY <1>11 DEF Typed, TypeOK, Named, FinishSucceeded, WorkerPc, States, Terminal
<1> QED
  BY <1>1, <1>2, <1>3, <1>4, <1>5, <1>6, <1>7, <1>8, <1>9, <1>10, <1>11 DEF WorkerStep

LEMMA LaneTyped ==
  ASSUME Typed, NEW o \in Ops, NEW l \in Lanes, LaneStep(o, l)
  PROVE  Typed'
<1>0. PICK r \in Lane : r = lane[o][l]
  BY DEF Typed, TypeOK
<1>p. \A pc \in LanePc : [r EXCEPT !.pc = pc] \in Lane
  BY DEF Lane
<1>1. CASE LaneFetch(o, l)
  <2>1. next[o] \in Nat \ {0}
    BY DEF Typed, TypeOK
  <2>2. next' \in [Ops -> Nat \ {0}]
    BY <1>1, <2>1 DEF Typed, TypeOK, LaneFetch, FetchNext
  <2>3. \/ SetLane(o, l, [r EXCEPT !.pc = "exit"])
        \/ /\ next[o] \in 1 .. ItemCount
           /\ SetLane(o, l, [r EXCEPT !.pc = "begin", !.item = next[o]])
    BY <1>0, <1>1, <2>1, ShapeAssumption DEF LaneFetch, Exhausted
  <2>4. ASSUME next[o] \in 1 .. ItemCount
        PROVE  [r EXCEPT !.pc = "begin", !.item = next[o]] \in Lane
    <3>1. PICK s : s = [r EXCEPT !.pc = "begin"]
      OBVIOUS
    <3>2. s \in Lane
      BY <3>1 DEF Lane, LanePc
    <3>3. PICK i \in 1 .. ItemCount : i = next[o]
      BY <2>4
    <3>4. [s EXCEPT !.item = i] \in Lane
      BY <3>2 DEF Lane
    <3> QED BY <3>1, <3>3, <3>4
  <2>5. lane' \in [Ops -> [Lanes -> Lane]]
    BY <1>p, <2>3, <2>4, LaneSet DEF Typed, LanePc
  <2> QED BY <1>1, <2>2, <2>5 DEF Typed, TypeOK, Named, LaneFetch
<1>2. CASE LaneBegin(o, l)
  <2>1. progress' \in [Ops -> Progress]
    <3>1. PICK q \in Progress : q = progress[o]
      BY DEF Typed, TypeOK
    <3>2. PICK p : p = [q EXCEPT !.active = @ + 1]
      OBVIOUS
    <3>3. p \in Progress
      BY <3>2 DEF Progress
    <3>4. progress' = progress \/ progress' = [progress EXCEPT ![o] = p]
      BY <1>2, <3>1, <3>2 DEF LaneBegin
    <3> QED BY <3>3, <3>4 DEF Typed, TypeOK
  <2>2. \E pc \in LanePc : SetLane(o, l, [r EXCEPT !.pc = pc])
    BY <1>0, <1>2 DEF LaneBegin, LanePc
  <2>3. lane' \in [Ops -> [Lanes -> Lane]]
    BY <1>p, <2>2, LaneSet DEF Typed
  <2>4. bindings' \in [Ops -> SUBSET (1 .. ItemCount)]
    <3>1. PICK b \in SUBSET (1 .. ItemCount) : b = bindings[o] \ {r.item}
      BY DEF Typed, TypeOK
    <3>2. bindings' = bindings \/ bindings' = [bindings EXCEPT ![o] = b]
      BY <1>0, <1>2, <3>1 DEF LaneBegin
    <3> QED BY <3>1, <3>2 DEF Typed, TypeOK
  <2> QED BY <1>2, <2>1, <2>3, <2>4 DEF Typed, TypeOK, Named, LaneBegin
<1>q. ASSUME NEW result \in {"ok", "failed", "cancelled"}
      PROVE  [r EXCEPT !.pc = "finish", !.result = result] \in Lane
  <2>1. PICK s : s = [r EXCEPT !.pc = "finish"]
    OBVIOUS
  <2>2. s \in Lane
    BY <2>1 DEF Lane, LanePc
  <2>3. [s EXCEPT !.result = result] \in Lane
    BY <2>2 DEF Lane
  <2> QED BY <2>1, <2>3
<1>3. CASE LaneRun(o, l)
  <2>1. \/ SetLane(o, l, [r EXCEPT !.pc = "staged"])
        \/ SetLane(o, l, [r EXCEPT !.pc = "finish", !.result = "failed"])
        \/ SetLane(o, l, [r EXCEPT !.pc = "finish", !.result = "cancelled"])
    BY <1>0, <1>3 DEF LaneRun
  <2>2. lane' \in [Ops -> [Lanes -> Lane]]
    BY <1>p, <1>q, <2>1, LaneSet DEF Typed, LanePc
  <2> QED BY <1>3, <2>2 DEF Typed, TypeOK, Named, LaneRun
<1>4. CASE LaneDecide(o, l)
  <2>1. \/ SetLane(o, l, [r EXCEPT !.pc = "commit"])
        \/ SetLane(o, l, [r EXCEPT !.pc = "finish", !.result = "cancelled"])
    BY <1>0, <1>4 DEF LaneDecide
  <2>2. lane' \in [Ops -> [Lanes -> Lane]]
    BY <1>p, <1>q, <2>1, LaneSet DEF Typed, LanePc
  <2>3. completion' \in [Ops -> Holders]
    BY <1>4 DEF Typed, TypeOK, LaneDecide, Holders
  <2> QED BY <1>4, <2>2, <2>3 DEF Typed, TypeOK, Named, LaneDecide
<1>5. CASE LaneCommit(o, l)
  <2>1. \/ SetLane(o, l, [r EXCEPT !.pc = "finish", !.result = "ok"])
        \/ SetLane(o, l, [r EXCEPT !.pc = "finish", !.result = "failed"])
    BY <1>0, <1>5 DEF LaneCommit
  <2>2. lane' \in [Ops -> [Lanes -> Lane]]
    BY <1>q, <2>1, LaneSet DEF Typed
  <2>3. PICK published \in SUBSET (1 .. ItemCount) : published = committed[o] \cup {r.item}
    BY DEF Typed, TypeOK, Lane
  <2>4. committed' = committed \/ committed' = [committed EXCEPT ![o] = published]
    BY <1>0, <1>5, <2>3 DEF LaneCommit
  <2>5. committed' \in [Ops -> SUBSET (1 .. ItemCount)]
    BY <2>3, <2>4 DEF Typed, TypeOK
  <2> QED BY <1>5, <2>2, <2>5 DEF Typed, TypeOK, Named, LaneCommit
<1>6. CASE LaneFinish(o, l)
  <2>1. /\ progress[o] \in Progress
        /\ r.item \in 1 .. ItemCount
        /\ r.result \in {"ok", "failed", "cancelled"}
        /\ cancellation[o] \in BOOLEAN
    BY DEF Typed, TypeOK, Lane
  <2>2. PICK p \in Progress : p = ItemFinished(progress[o], r.item, r.result, cancellation[o])
    BY <2>1, ItemFinishedTyped
  <2>3. progress' = [progress EXCEPT ![o] = p]
    BY <1>0, <1>6, <2>2 DEF LaneFinish
  <2>4. progress' \in [Ops -> Progress]
    BY <2>3 DEF Typed, TypeOK
  <2>5. SetLane(o, l, [r EXCEPT !.pc = "fetch"])
    BY <1>0, <1>6 DEF LaneFinish
  <2>6. lane' \in [Ops -> [Lanes -> Lane]]
    BY <1>p, <2>5, LaneSet DEF Typed, LanePc
  <2>7. completion' \in [Ops -> Holders]
    BY <1>6, ReleasedTyped DEF Typed, LaneFinish
  <2> QED BY <1>6, <2>4, <2>6, <2>7 DEF Typed, TypeOK, Named, LaneFinish
<1> QED BY <1>1, <1>2, <1>3, <1>4, <1>5, <1>6 DEF LaneStep

LEMMA CancelTyped ==
  ASSUME Typed, NEW c \in Callers, CancelStep(c)
  PROVE  Typed'
<1>1. call[c].pc # "idle" /\ call[c].op \in Ops
  BY DEF Typed, Named, CancelStep, CancelQueued, CancelRunning, CancelTooLate, CancelRetain
<1>2. CASE CancelQueued(c)
  BY <1>1, <1>2 DEF Typed, TypeOK, Named, CancelQueued, States, Terminal, Holders
<1>3. CASE CancelRunning(c)
  BY <1>1, <1>3 DEF Typed, TypeOK, Named, CancelRunning, States, Active
<1>4. CASE CancelTooLate(c)
  BY <1>1, <1>4 DEF Typed, TypeOK, Named, CancelTooLate
<1>5. CASE CancelRetain(c)
  <2>1. PICK o \in Ops : o = call[c].op
    BY <1>1
  <2>2. terminalOrder' \in Seq(Ops) /\ retained' \in SUBSET Ops
    BY <1>5, <2>1, RetainFacts DEF Typed, TypeOK, CancelRetain
  <2>3. completion' \in [Ops -> Holders]
    BY <1>5, <2>1, ReleasedTyped DEF Typed, CancelRetain
  <2> QED BY <1>1, <1>5, <2>2, <2>3 DEF Typed, TypeOK, Named, CancelRetain
<1> QED BY <1>2, <1>3, <1>4, <1>5 DEF CancelStep

LEMMA ClientCancelTyped ==
  ASSUME Typed, NEW c \in Cancellers, NEW o \in Ops, ClientCancel(c, o)
  PROVE  Typed'
BY DEF Typed, TypeOK, Named, ClientCancel, CancelLookup

LEMMA ShutdownTyped ==
  ASSUME Typed, ShutdownBegin \/ ShutdownStep
  PROVE  Typed'
<1>1. CASE ShutdownBegin
  BY <1>1 DEF Typed, TypeOK, Named, ShutdownBegin
<1>2. ASSUME NEW o \in Ops, ShutdownCancel(o) PROVE Typed'
  <2>1. shutdown' \in [pc : {"no", "cancel", "join", "done"},
                       todo : SUBSET Ops, joining : SUBSET Ops]
    BY <1>2 DEF Typed, TypeOK, ShutdownCancel
  <2>2. call' = call \/ call' = [call EXCEPT ![Shutdown] = [pc |-> "lock", op |-> o]]
    BY <1>2 DEF ShutdownCancel
  <2> QED BY <1>2, <2>1, <2>2 DEF Typed, TypeOK, Named, ShutdownCancel
<1>3. CASE ShutdownTake
  BY <1>3 DEF Typed, TypeOK, Named, ShutdownTake
<1>4. CASE ShutdownJoined
  BY <1>4 DEF Typed, TypeOK, Named, ShutdownJoined
<1> QED BY <1>1, <1>2, <1>3, <1>4 DEF ShutdownStep

LEMMA WaitTyped ==
  ASSUME Typed, NEW w \in Waiters,
         WaitStep(w) \/ WaitDisconnect(w) \/ \E o \in Ops : WaitStart(w, o)
  PROVE  Typed'
<1>1. PICK r \in Wait : r = wait[w]
  BY DEF Typed, TypeOK
<1>2. ASSUME NEW r2 \in Wait, r2.pc # "idle" => r2.op \in Ops,
             wait' = [wait EXCEPT ![w] = r2],
             UNCHANGED <<registry, completion, threads, service, cancel>>
      PROVE  Typed'
  BY <1>2 DEF Typed, TypeOK, Named
<1>3. ASSUME NEW pc \in {"look", "gone"}, r.op \in Ops
      PROVE  /\ [r EXCEPT !.pc = pc] \in Wait
             /\ [r EXCEPT !.pc = pc].op \in Ops
  BY <1>3 DEF Wait
<1>4. ASSUME NEW o \in Ops, WaitStart(w, o) PROVE Typed'
  <2>1. PICK s : s = [r EXCEPT !.pc = "look"]
    OBVIOUS
  <2>2. s \in Wait
    BY <2>1 DEF Wait
  <2>3. PICK t : t = [s EXCEPT !.op = o]
    OBVIOUS
  <2>4. t \in Wait /\ t.op \in Ops
    BY <2>2, <2>3 DEF Wait
  <2>5. wait' = [wait EXCEPT ![w] = t]
    BY <1>1, <1>4, <2>1, <2>3 DEF WaitStart
  <2> QED BY <1>2, <1>4, <2>4, <2>5 DEF WaitStart
<1>5. CASE WaitLook(w)
  <2>1. PICK o \in Ops : o = r.op
    BY <1>1, <1>5 DEF Typed, Named, WaitLook
  <2>2. progress[o].outcomes \in Seq(Outcome) /\ r.got \in Seq(Outcome) /\ state[o] \in States
    BY DEF Typed, TypeOK, Progress, Wait
  <2>3. CASE o \in retained
    <3>1. PICK heard \in Seq(Outcome) : heard = progress[o].outcomes
      BY <2>2
    <3>2. PICK pending : pending = SubSeq(heard, Len(r.got) + 1, Len(heard))
      OBVIOUS
    <3>3. pending \in Seq(Outcome)
      <4>1. Len(heard) \in Nat /\ Len(r.got) \in Nat
        BY <2>2, LenProperties
      <4>2. \A i \in Len(r.got) + 1 .. Len(heard) : heard[i] \in Outcome
        BY <4>1, ElementOfSeq
      <4> QED BY <3>2, <4>1, <4>2, SubSeqProperties
    <3>4. PICK s : s = [r EXCEPT !.pc = "deliver"]
      OBVIOUS
    <3>5. s \in Wait /\ s.op = o
      BY <2>1, <3>4 DEF Wait
    <3>6. PICK t : t = [s EXCEPT !.seen = state[o]]
      OBVIOUS
    <3>7. t \in Wait /\ t.op = o
      BY <2>2, <3>5, <3>6 DEF Wait
    <3>8. PICK u : u = [t EXCEPT !.pending = pending]
      OBVIOUS
    <3>9. u \in Wait /\ u.op = o
      BY <3>3, <3>7, <3>8 DEF Wait
    <3>10. wait' = [wait EXCEPT ![w] = u]
      BY <1>1, <1>5, <2>1, <2>3, <3>1, <3>2, <3>4, <3>6, <3>8 DEF WaitLook, OutcomesNow
    <3> QED BY <1>2, <1>5, <3>9, <3>10 DEF WaitLook
  <2>4. CASE o \notin retained
    <3>1. wait' = [wait EXCEPT ![w] = [r EXCEPT !.pc = "gone"]]
      BY <1>1, <1>5, <2>1, <2>4 DEF WaitLook
    <3> QED BY <1>2, <1>3, <1>5, <2>1, <3>1 DEF WaitLook
  <2> QED BY <2>3, <2>4
<1>6. CASE WaitDeliver(w)
  <2>1. PICK heard \in Seq(Outcome) : heard = r.got \o r.pending
    BY ConcatProperties DEF Wait
  <2>2. PICK pc \in {"returned", "sleep"} :
          pc = IF r.seen \in Terminal THEN "returned" ELSE "sleep"
    OBVIOUS
  <2>3. r.op \in Ops
    BY <1>1, <1>6 DEF Typed, Named, WaitDeliver
  <2>4. PICK s : s = [r EXCEPT !.pc = pc]
    OBVIOUS
  <2>5. s \in Wait /\ s.op \in Ops
    BY <2>3, <2>4 DEF Wait
  <2>6. PICK t : t = [s EXCEPT !.got = heard]
    OBVIOUS
  <2>7. t \in Wait /\ t.op \in Ops
    BY <2>5, <2>6 DEF Wait
  <2>e. PICK none \in Seq(Outcome) : none = <<>>
    BY EmptySeq
  <2>8. PICK u : u = [t EXCEPT !.pending = none]
    OBVIOUS
  <2>9. u \in Wait /\ u.op \in Ops
    BY <2>7, <2>8 DEF Wait
  <2>10. wait' = [wait EXCEPT ![w] = u]
    BY <1>1, <1>6, <2>1, <2>2, <2>4, <2>6, <2>8, <2>e DEF WaitDeliver
  <2> QED BY <1>2, <1>6, <2>9, <2>10 DEF WaitDeliver
<1>7. CASE WaitDisconnect(w) \/ WaitWake(w)
  <2>1. r.op \in Ops
    BY <1>1, <1>7 DEF Typed, Named, WaitDisconnect, WaitWake
  <2>2. \E pc \in {"look", "gone"} : wait' = [wait EXCEPT ![w] = [r EXCEPT !.pc = pc]]
    BY <1>1, <1>7 DEF WaitDisconnect, WaitWake
  <2> QED BY <1>2, <1>3, <1>7, <2>1, <2>2 DEF WaitDisconnect, WaitWake
<1> QED BY <1>4, <1>5, <1>6, <1>7 DEF WaitStep

LEMMA NextTyped == Typed /\ [Next]_vars => Typed'
<1> SUFFICES ASSUME Typed, [Next]_vars PROVE Typed'
  OBVIOUS
<1>1. CASE UNCHANGED vars
  BY <1>1 DEF vars, Typed, TypeOK, Named
<1>2. CASE Next
  BY <1>2, SubmitTyped, WorkerTyped, LaneTyped, ClientCancelTyped, CancelTyped, ShutdownTyped,
     WaitTyped DEF Next
<1> QED BY <1>1, <1>2

\* Every variable keeps its type, and a call that is under way names the
\* operation it is about: the indices the code unwraps are valid.
THEOREM TypeCorrect == Spec => []TypeOK
<1>1. Typed => TypeOK
  BY DEF Typed
<1> QED BY <1>1, InitTyped, NextTyped, PTL DEF Spec

-----------------------------------------------------------------------------
(* The completion mutex orders a commit against a cancellation.            *)

\* A thread about to commit holds the completion mutex of its operation, and
\* nobody has cancelled the operation since it looked.
CommitGuard ==
  \A o \in Ops :
    /\ worker[o] = "commit" => completion[o] = Worker /\ ~cancellation[o]
    /\ \A l \in Lanes :
         lane[o][l].pc = "commit" => completion[o] = l /\ ~cancellation[o]

\* What a step of one thread does to the program counters of all of them.
LEMMA LaneMoves ==
  ASSUME TypeOK, NEW o \in Ops, NEW l \in Lanes, NEW r, SetLane(o, l, r)
  PROVE  \A p \in Ops, k \in Lanes :
           lane'[p][k] = IF p = o /\ k = l THEN r ELSE lane[p][k]
BY DEF TypeOK, SetLane

LEMMA LanePcMoves ==
  ASSUME TypeOK, NEW o \in Ops, NEW l \in Lanes, LaneStep(o, l)
  PROVE  /\ \A p \in Ops, k \in Lanes :
              p # o \/ k # l => lane'[p][k].pc = lane[p][k].pc
         /\ lane[o][l].pc # "exit"
         /\ lane'[o][l].pc = "commit" => LaneDecide(o, l) /\ MayCommit(o)
<1>1. PICK r \in Lane : r = lane[o][l]
  BY DEF TypeOK
<1>2. PICK begun : begun = [r EXCEPT !.pc = "begin", !.item = next[o]]
  OBVIOUS
<1>a. PICK ok : ok = [r EXCEPT !.pc = "finish", !.result = "ok"]
  OBVIOUS
<1>b. PICK failed : failed = [r EXCEPT !.pc = "finish", !.result = "failed"]
  OBVIOUS
<1>c. PICK stopped : stopped = [r EXCEPT !.pc = "finish", !.result = "cancelled"]
  OBVIOUS
<1>d. \A pc : [r EXCEPT !.pc = pc].pc = pc
  BY DEF Lane
<1>e. begun.pc = "begin" /\ ok.pc = "finish" /\ failed.pc = "finish" /\ stopped.pc = "finish"
  BY <1>2, <1>a, <1>b, <1>c DEF Lane
<1>3. CASE LaneFetch(o, l)
  <2>1. SetLane(o, l, [r EXCEPT !.pc = "exit"]) \/ SetLane(o, l, begun)
    BY <1>1, <1>2, <1>3 DEF LaneFetch
  <2>2. PICK s : SetLane(o, l, s) /\ s.pc \in {"exit", "begin"}
    BY <2>1, <1>d, <1>e
  <2> QED BY <1>3, <2>2, LaneMoves DEF LaneFetch
<1>4. CASE LaneBegin(o, l)
  <2>1. PICK s : SetLane(o, l, s) /\ s.pc \in {"exit", "run"}
    BY <1>1, <1>d, <1>4 DEF LaneBegin
  <2> QED BY <1>4, <2>1, LaneMoves DEF LaneBegin
<1>5. CASE LaneRun(o, l)
  <2>1. \/ SetLane(o, l, [r EXCEPT !.pc = "staged"])
        \/ SetLane(o, l, failed)
        \/ SetLane(o, l, stopped)
    BY <1>1, <1>b, <1>c, <1>5 DEF LaneRun
  <2>2. PICK s : SetLane(o, l, s) /\ s.pc \in {"staged", "finish"}
    BY <2>1, <1>d, <1>e
  <2> QED BY <1>5, <2>2, LaneMoves DEF LaneRun
<1>6. CASE LaneDecide(o, l)
  <2>1. \/ MayCommit(o) /\ SetLane(o, l, [r EXCEPT !.pc = "commit"])
        \/ ~MayCommit(o) /\ SetLane(o, l, stopped)
    BY <1>1, <1>c, <1>6 DEF LaneDecide, MayCommit
  <2>2. PICK s : SetLane(o, l, s) /\ (s.pc = "finish" \/ (s.pc = "commit" /\ MayCommit(o)))
    BY <2>1, <1>d, <1>e
  <2> QED BY <1>6, <2>2, LaneMoves DEF LaneDecide
<1>7. CASE LaneCommit(o, l)
  <2>1. SetLane(o, l, ok) \/ SetLane(o, l, failed)
    BY <1>1, <1>a, <1>b, <1>7 DEF LaneCommit
  <2>2. PICK s : SetLane(o, l, s) /\ s.pc = "finish"
    BY <2>1, <1>e
  <2> QED BY <1>7, <2>2, LaneMoves DEF LaneCommit
<1>8. CASE LaneFinish(o, l)
  <2>1. PICK s : SetLane(o, l, s) /\ s.pc = "fetch"
    BY <1>1, <1>d, <1>8 DEF LaneFinish
  <2> QED BY <1>8, <2>1, LaneMoves DEF LaneFinish
<1> QED BY <1>3, <1>4, <1>5, <1>6, <1>7, <1>8 DEF LaneStep

LEMMA InitCommitGuard == Init => CommitGuard
BY DEF Init, CommitGuard

\* Steps that leave both guards alone and bring no thread to a commit.
LEMMA CommitGuardFrame ==
  ASSUME CommitGuard, UNCHANGED <<completion, cancellation>>,
         \A o \in Ops : worker'[o] = "commit" => worker[o] = "commit",
         \A o \in Ops, l \in Lanes : lane'[o][l].pc = "commit" => lane[o][l].pc = "commit"
  PROVE  CommitGuard'
BY DEF CommitGuard

LEMMA CommitGuardWorker ==
  ASSUME Typed, CommitGuard, NEW o \in Ops, WorkerStep(o)
  PROVE  CommitGuard'
<1>1. CASE Execute(o)
  <2>1. ASSUME NEW p \in Ops, NEW l \in Lanes, lane'[p][l].pc = "commit"
        PROVE  lane[p][l].pc = "commit"
    <3>1. PICK row : row = [k \in Lanes |-> [lane[o][k] EXCEPT !.pc = "fetch"]]
      OBVIOUS
    <3>2. PICK r \in Lane : r = lane[o][l]
      BY DEF Typed, TypeOK
    <3>3. row[l] = [r EXCEPT !.pc = "fetch"]
      BY <3>1, <3>2
    <3>4. row[l].pc = "fetch"
      BY <3>3 DEF Lane
    <3>5. lane' = lane \/ lane' = [lane EXCEPT ![o] = row]
      BY <1>1, <3>1 DEF Execute
    <3> QED BY <2>1, <3>4, <3>5 DEF Typed, TypeOK
  <2> QED BY <1>1, <2>1, CommitGuardFrame DEF Typed, TypeOK, Execute
<1>2. CASE SingleTake(o) \/ SingleRun(o) \/ SingleSucceed(o) \/ BatchDecide(o)
           \/ FinishSucceeded(o) \/ SingleCommit(o)
  <2>1. /\ UNCHANGED <<completion, cancellation, lane>>
        /\ \E pc \in WorkerPc \ {"commit"} : worker' = [worker EXCEPT ![o] = pc]
    BY <1>2 DEF SingleTake, SingleRun, SingleSucceed, BatchDecide, FinishSucceeded,
                SingleCommit, WorkerPc
  <2> QED BY <2>1, CommitGuardFrame DEF Typed, TypeOK
<1>3. CASE SingleDecide(o)
  BY <1>3, HolderAssumption DEF Typed, TypeOK, CommitGuard, SingleDecide, MayCommit
<1>4. CASE FinishFailed(o) \/ FinishCancelled(o) \/ WorkerRetain(o)
  <2>1. /\ UNCHANGED <<cancellation, lane>>
        /\ completion' = completion \/ completion' = ReleasedBy(o, Worker)
        /\ worker' = [worker EXCEPT ![o] = "exit"] \/ worker' = [worker EXCEPT ![o] = "retain"]
    BY <1>4 DEF FinishFailed, FinishCancelled, WorkerRetain, AfterFinish
  <2>2. \A p \in Ops : \/ completion'[p] = completion[p]
                       \/ p = o /\ completion[o] = Worker
    BY <2>1 DEF Typed, TypeOK, ReleasedBy
  <2> QED BY <2>1, <2>2, HolderAssumption DEF Typed, TypeOK, CommitGuard
<1> QED BY <1>1, <1>2, <1>3, <1>4 DEF WorkerStep

LEMMA CommitGuardLane ==
  ASSUME Typed, CommitGuard, NEW o \in Ops, NEW l \in Lanes, LaneStep(o, l)
  PROVE  CommitGuard'
<1>1. /\ \A p \in Ops, k \in Lanes : p # o \/ k # l => lane'[p][k].pc = lane[p][k].pc
      /\ lane'[o][l].pc = "commit" => LaneDecide(o, l) /\ MayCommit(o)
  BY LanePcMoves DEF Typed
<1>2. worker' = worker /\ cancellation' = cancellation
  BY DEF LaneStep, LaneFetch, LaneBegin, LaneRun, LaneDecide, LaneCommit, LaneFinish
<1>3. CASE LaneDecide(o, l)
  <2>1. completion[o] = Nobody /\ completion' = [completion EXCEPT ![o] = l]
    BY <1>3 DEF LaneDecide
  <2>2. worker[o] # "commit" /\ \A k \in Lanes : lane[o][k].pc # "commit"
    BY <2>1, HolderAssumption DEF CommitGuard
  <2>3. completion'[o] = l /\ \A p \in Ops \ {o} : completion'[p] = completion[p]
    BY <2>1 DEF Typed, TypeOK
  <2>4. lane'[o][l].pc = "commit" => ~cancellation[o]
    BY <1>1 DEF MayCommit
  <2> QED BY <1>1, <1>2, <2>2, <2>3, <2>4 DEF CommitGuard
<1>4. CASE LaneFinish(o, l)
  <2>1. \A p \in Ops : completion'[p] = completion[p] \/ (p = o /\ completion[o] = l)
    BY <1>4 DEF Typed, TypeOK, LaneFinish, ReleasedBy
  <2>2. lane[o][l].pc = "finish" /\ lane'[o][l].pc # "commit"
    BY <1>1, <1>4 DEF LaneFinish, LaneDecide
  <2> QED BY <1>1, <1>2, <2>1, <2>2, HolderAssumption DEF CommitGuard
<1>5. CASE ~LaneDecide(o, l) /\ ~LaneFinish(o, l)
  <2>1. completion' = completion
    BY <1>5 DEF LaneStep, LaneFetch, LaneBegin, LaneRun, LaneCommit
  <2> QED BY <1>1, <1>2, <1>5, <2>1 DEF CommitGuard
<1> QED BY <1>3, <1>4, <1>5

LEMMA CommitGuardCancel ==
  ASSUME Typed, CommitGuard, NEW c \in Callers, CancelStep(c)
  PROVE  CommitGuard'
<1>1. PICK o \in Ops : o = call[c].op
  BY DEF Typed, Named, CancelStep, CancelQueued, CancelRunning, CancelTooLate, CancelRetain
<1>2. worker' = worker /\ lane' = lane
  BY DEF CancelStep, CancelQueued, CancelRunning, CancelTooLate, CancelRetain
<1>3. CASE CancelQueued(c) \/ CancelRunning(c)
  <2>1. completion[o] = Nobody
    BY <1>1, <1>3 DEF CancelQueued, CancelRunning, CancelMayEnter
  <2>2. worker[o] # "commit" /\ \A l \in Lanes : lane[o][l].pc # "commit"
    BY <2>1, HolderAssumption DEF CommitGuard
  <2>3. \A p \in Ops \ {o} : completion'[p] = completion[p] /\ cancellation'[p] = cancellation[p]
    BY <1>1, <1>3 DEF Typed, TypeOK, CancelQueued, CancelRunning
  <2> QED BY <1>2, <2>2, <2>3 DEF CommitGuard
<1>4. CASE CancelTooLate(c)
  BY <1>2, <1>4 DEF CancelTooLate, CommitGuard
<1>5. CASE CancelRetain(c)
  <2>1. /\ cancellation' = cancellation
        /\ \A p \in Ops : completion'[p] = completion[p] \/ completion[p] = c
    BY <1>1, <1>5 DEF Typed, TypeOK, CancelRetain, ReleasedBy
  <2> QED BY <1>2, <2>1, HolderAssumption DEF CommitGuard
<1> QED BY <1>3, <1>4, <1>5 DEF CancelStep

LEMMA NextCommitGuard == Typed /\ CommitGuard /\ [Next]_vars => CommitGuard'
<1> SUFFICES ASSUME Typed, CommitGuard, [Next]_vars PROVE CommitGuard'
  OBVIOUS
<1>1. CASE UNCHANGED vars
  BY <1>1 DEF vars, CommitGuard
<1>2. CASE (\E o \in Ops : SubmitAccept(o)) \/ SubmitRefused \/ SubmitStep
  <2>1. UNCHANGED <<completion, cancellation, lane>>
    BY <1>2 DEF SubmitStep, SubmitAccept, SubmitRefused, SubmitRegister, SubmitStart,
                SubmitStartFails, SubmitRetain
  <2>2. worker' = worker \/ \E o \in Ops, pc \in {"blocked", "execute", "exit"} :
                              worker' = [worker EXCEPT ![o] = pc]
    BY <1>2 DEF SubmitStep, SubmitAccept, SubmitRefused, SubmitRegister, SubmitStart,
                SubmitStartFails, SubmitRetain, Typed, Named
  <2> QED BY <2>1, <2>2, CommitGuardFrame DEF Typed, TypeOK
<1>3. ASSUME NEW c \in Cancellers, NEW o \in Ops, ClientCancel(c, o) PROVE CommitGuard'
  BY <1>3 DEF ClientCancel, CommitGuard
<1>4. CASE ShutdownBegin \/ ShutdownStep
  BY <1>4 DEF ShutdownBegin, ShutdownStep, ShutdownCancel, ShutdownTake, ShutdownJoined,
              CommitGuard
<1>5. ASSUME NEW w \in Waiters,
             WaitStep(w) \/ WaitDisconnect(w) \/ \E o \in Ops : WaitStart(w, o)
      PROVE  CommitGuard'
  BY <1>5 DEF WaitStep, WaitLook, WaitDeliver, WaitWake, WaitDisconnect, WaitStart, CommitGuard
<1> QED
  BY <1>1, <1>2, <1>3, <1>4, <1>5, CommitGuardWorker, CommitGuardLane, CommitGuardCancel
  DEF Next

\* Artifacts are published only by a thread that holds the completion mutex and
\* has seen the flag unset under it: no commit follows a won cancellation.
THEOREM CommitExcludesCancellation == Spec => NoCommitAfterCancellation
<1> DEFINE Keeps == \A o \in Ops : cancellation[o] => committed'[o] = committed[o]
<1>1. Typed /\ CommitGuard /\ [Next]_vars => [Keeps]_vars
  <2> SUFFICES ASSUME Typed, CommitGuard, Next PROVE Keeps
    OBVIOUS
  <2>1. ASSUME NEW o \in Ops, SingleCommit(o) PROVE Keeps
    <3>1. ~cancellation[o] /\ \A p \in Ops \ {o} : committed'[p] = committed[p]
      BY <2>1 DEF Typed, TypeOK, CommitGuard, SingleCommit
    <3> QED BY <3>1
  <2>2. ASSUME NEW o \in Ops, NEW l \in Lanes, LaneCommit(o, l) PROVE Keeps
    <3>1. ~cancellation[o] /\ \A p \in Ops \ {o} : committed'[p] = committed[p]
      BY <2>2 DEF Typed, TypeOK, CommitGuard, LaneCommit
    <3> QED BY <3>1
  <2>3. ASSUME NEW o \in Ops, WorkerStep(o), ~SingleCommit(o) PROVE committed' = committed
    BY <2>3 DEF WorkerStep, Execute, SingleTake, SingleRun, SingleDecide, SingleSucceed,
                FinishFailed, FinishCancelled, WorkerRetain, BatchDecide, FinishSucceeded
  <2>4. ASSUME NEW o \in Ops, NEW l \in Lanes, LaneStep(o, l), ~LaneCommit(o, l)
        PROVE  committed' = committed
    BY <2>4 DEF LaneStep, LaneFetch, LaneBegin, LaneRun, LaneDecide, LaneFinish
  <2>5. ASSUME NEW c \in Callers, CancelStep(c) PROVE committed' = committed
    BY <2>5 DEF CancelStep, CancelQueued, CancelRunning, CancelTooLate, CancelRetain
  <2>6. CASE \/ \E o \in Ops : SubmitAccept(o)
             \/ SubmitRefused \/ SubmitStep \/ ShutdownBegin \/ ShutdownStep
    BY <2>6 DEF SubmitStep, SubmitAccept, SubmitRefused, SubmitRegister, SubmitStart,
                SubmitStartFails, SubmitRetain, ShutdownBegin, ShutdownStep, ShutdownCancel,
                ShutdownTake, ShutdownJoined
  <2>7. CASE \/ \E c \in Cancellers, o \in Ops : ClientCancel(c, o)
             \/ \E w \in Waiters, o \in Ops : WaitStart(w, o)
             \/ \E w \in Waiters : WaitStep(w) \/ WaitDisconnect(w)
    BY <2>7 DEF ClientCancel, WaitStart, WaitStep, WaitLook, WaitDeliver, WaitWake,
                WaitDisconnect
  <2> QED BY <2>1, <2>2, <2>3, <2>4, <2>5, <2>6, <2>7 DEF Next
<1> QED
  BY <1>1, InitTyped, NextTyped, InitCommitGuard, NextCommitGuard, PTL
  DEF Spec, NoCommitAfterCancellation

-----------------------------------------------------------------------------
(* Where an operation is: its state, its threads and the registry agree.   *)

\* Nothing runs before its submission, a thread that works has an operation that
\* is not settled, the threads of a Batch live while its own thread joins them,
\* and the flag is set only with the state.
CourseOf(o) ==
  /\ state[o] = "none" => worker[o] = "none"
  /\ worker[o] \in {"take", "run", "staged", "commit", "succeed", "join"} =>
       state[o] \in {"running", "cancelling"}
  /\ worker[o] \in {"join", "finishSucceeded"} => o \in BatchOps
  /\ worker[o] \in {"take", "run", "staged", "commit", "succeed"} => o \notin BatchOps
  /\ cancellation[o] => state[o] \notin {"none", "queued", "running"}
  /\ state[o] = "cancelling" => cancellation[o]
  /\ \A l \in Lanes : lane[o][l].pc # "exit" => worker[o] = "join"
Course == \A o \in Ops : CourseOf(o)

\* The thread of a submission that has not returned waits for its start.
Submitting ==
  submission.pc \in {"accepted", "registered"} => worker[submission.op] = "blocked"

\* Only settled operations are retired, so an active one is in the registry.
Settling ==
  /\ \A o \in Ops : worker[o] = "retain" => state[o] \in Terminal
  /\ submission.pc = "retain" => state[submission.op] \in Terminal
  /\ \A c \in Callers : call[c].pc = "retain" => state[call[c].op] \in Terminal
Ordered == \A i \in 1 .. Len(terminalOrder) : state[terminalOrder[i]] \in Terminal
Kept == \A o \in Ops : state[o] \in Active => o \in retained

Control == Course /\ Submitting /\ Settling /\ Ordered /\ Kept

LEMMA InitControl == Init => Control
BY DEF Init, Control, Course, CourseOf, Submitting, Settling, Ordered, Kept, Active

\* A step of an operation's thread leaves the other operations alone.
LEMMA WorkerFrame ==
  ASSUME Typed, NEW o \in Ops, WorkerStep(o)
  PROVE  /\ UNCHANGED <<next, service, cancellation, call, wait>>
         /\ \A p \in Ops \ {o} :
              /\ state'[p] = state[p] /\ worker'[p] = worker[p]
              /\ completion'[p] = completion[p] /\ committed'[p] = committed[p]
              /\ progress'[p] = progress[p] /\ lane'[p] = lane[p]
<1>1. UNCHANGED <<next, service, cancellation, call, wait>>
  BY DEF WorkerStep, Execute, SingleTake, SingleRun, SingleDecide, SingleCommit, SingleSucceed,
         FinishFailed, FinishCancelled, WorkerRetain, BatchDecide, FinishSucceeded
<1> SUFFICES ASSUME NEW p \in Ops \ {o}
             PROVE  /\ state'[p] = state[p] /\ worker'[p] = worker[p]
                    /\ completion'[p] = completion[p] /\ committed'[p] = committed[p]
                    /\ progress'[p] = progress[p] /\ lane'[p] = lane[p]
  BY <1>1
<1> USE DEF Typed, TypeOK
<1>2. CASE Execute(o) \/ SingleTake(o) \/ SingleRun(o)
  BY <1>2 DEF Execute, SingleTake, SingleRun
<1>3. CASE SingleDecide(o) \/ SingleCommit(o) \/ SingleSucceed(o)
  BY <1>3 DEF SingleDecide, SingleCommit, SingleSucceed
<1>4. CASE FinishFailed(o)
  BY <1>4 DEF FinishFailed, Failed, Settle, AfterFinish, ReleasedBy
<1>5. CASE FinishCancelled(o)
  BY <1>5 DEF FinishCancelled, Settle, AfterFinish, ReleasedBy
<1>6. CASE WorkerRetain(o)
  BY <1>6 DEF WorkerRetain, ReleasedBy
<1>7. CASE BatchDecide(o) \/ FinishSucceeded(o)
  BY <1>7 DEF BatchDecide, FinishSucceeded
<1> QED BY <1>2, <1>3, <1>4, <1>5, <1>6, <1>7 DEF WorkerStep

\* A step of a Batch thread changes neither a state nor any other thread.
LEMMA LaneFrame ==
  ASSUME Typed, NEW o \in Ops, NEW l \in Lanes, LaneStep(o, l)
  PROVE  /\ UNCHANGED <<state, worker, retained, terminalOrder, service, cancellation, call, wait>>
         /\ \A p \in Ops \ {o} :
              /\ completion'[p] = completion[p] /\ committed'[p] = committed[p]
              /\ progress'[p] = progress[p] /\ next'[p] = next[p]
         /\ \A p \in Ops, k \in Lanes : p # o \/ k # l => lane'[p][k] = lane[p][k]
         /\ lane[o][l].pc # "exit"
<1>1. UNCHANGED <<state, worker, retained, terminalOrder, service, cancellation, call, wait>>
  BY DEF LaneStep, LaneFetch, LaneBegin, LaneRun, LaneDecide, LaneCommit, LaneFinish
<1>2. \E r : SetLane(o, l, r)
  BY DEF LaneStep, LaneFetch, LaneBegin, LaneRun, LaneDecide, LaneCommit, LaneFinish
<1>3. \A p \in Ops, k \in Lanes : p # o \/ k # l => lane'[p][k] = lane[p][k]
  BY <1>2, LaneMoves DEF Typed
<1>4. lane[o][l].pc # "exit"
  BY LanePcMoves DEF Typed
<1>5. \A p \in Ops \ {o} : /\ completion'[p] = completion[p] /\ committed'[p] = committed[p]
                           /\ progress'[p] = progress[p] /\ next'[p] = next[p]
  BY DEF Typed, TypeOK, LaneStep, LaneFetch, LaneBegin, LaneRun, LaneDecide, LaneCommit,
         LaneFinish, ReleasedBy
<1> QED BY <1>1, <1>3, <1>4, <1>5

\* A cancellation concerns the operation the caller named.
LEMMA CancelFrame ==
  ASSUME Typed, NEW c \in Callers, CancelStep(c)
  PROVE  /\ call[c].op \in Ops
         /\ UNCHANGED <<progress, threads, service, wait>>
         /\ \A p \in Ops \ {call[c].op} :
              /\ state'[p] = state[p] /\ cancellation'[p] = cancellation[p]
              /\ completion'[p] = completion[p]
         /\ \A d \in Callers : d # c => call'[d] = call[d]
         /\ call'[c].op = call[c].op
<1>1. call[c].op \in Ops
  BY DEF Typed, Named, CancelStep, CancelQueued, CancelRunning, CancelTooLate, CancelRetain
<1>2. UNCHANGED <<progress, threads, service, wait>>
  BY DEF CancelStep, CancelQueued, CancelRunning, CancelTooLate, CancelRetain
<1>3. \A p \in Ops \ {call[c].op} :
        /\ state'[p] = state[p] /\ cancellation'[p] = cancellation[p]
        /\ completion'[p] = completion[p]
  BY DEF Typed, TypeOK, CancelStep, CancelQueued, CancelRunning, CancelTooLate, CancelRetain,
         ReleasedBy
<1>4. \E pc : call' = [call EXCEPT ![c].pc = pc]
  BY DEF CancelStep, CancelQueued, CancelRunning, CancelTooLate, CancelRetain
<1>5. /\ \A d \in Callers : d # c => call'[d] = call[d]
      /\ call'[c].op = call[c].op
  BY <1>4 DEF Typed, TypeOK
<1> QED BY <1>1, <1>2, <1>3, <1>5

\* What callers and waiters do otherwise touches no operation.
Elsewhere ==
  \/ \E c \in Cancellers, o \in Ops : ClientCancel(c, o)
  \/ ShutdownBegin \/ ShutdownStep
  \/ \E w \in Waiters, o \in Ops : WaitStart(w, o)
  \/ \E w \in Waiters : WaitStep(w) \/ WaitDisconnect(w)
  \/ UNCHANGED vars

LEMMA ElsewhereFrame ==
  ASSUME Typed, Elsewhere
  PROVE  /\ UNCHANGED <<registry, completion, threads, submission, cancellation>>
         /\ \A c \in Callers : call'[c] = call[c] \/ call'[c].pc = "lock"
<1> DEFINE Untouched == UNCHANGED <<registry, completion, threads, submission, cancellation>>
           Asked == \/ call' = call
                    \/ \E c \in Callers, o \in Ops :
                         call' = [call EXCEPT ![c] = [pc |-> "lock", op |-> o]]
<1> SUFFICES Untouched /\ Asked
  BY DEF Typed, TypeOK
<1>1. ASSUME NEW c \in Cancellers, NEW o \in Ops, ClientCancel(c, o) PROVE Untouched /\ Asked
  BY <1>1 DEF ClientCancel, CancelLookup
<1>2. CASE ShutdownBegin \/ ShutdownTake \/ ShutdownJoined
  BY <1>2 DEF ShutdownBegin, ShutdownTake, ShutdownJoined
<1>3. ASSUME NEW o \in Ops, ShutdownCancel(o) PROVE Untouched /\ Asked
  BY <1>3 DEF ShutdownCancel
<1>4. ASSUME NEW w \in Waiters,
             WaitStep(w) \/ WaitDisconnect(w) \/ \E o \in Ops : WaitStart(w, o)
      PROVE  Untouched /\ Asked
  BY <1>4 DEF WaitStart, WaitStep, WaitLook, WaitDeliver, WaitWake, WaitDisconnect
<1>5. CASE UNCHANGED vars
  BY <1>5 DEF vars
<1> HIDE DEF Untouched, Asked
<1> QED
  BY <1>1, <1>2, <1>3, <1>4, <1>5 DEF Elsewhere, ShutdownStep

Submit == (\E o \in Ops : SubmitAccept(o)) \/ SubmitRefused \/ SubmitStep

LEMMA NextCases ==
  [Next]_vars =>
    \/ Submit \/ Elsewhere
    \/ \E o \in Ops : WorkerStep(o)
    \/ \E o \in Ops, l \in Lanes : LaneStep(o, l)
    \/ \E c \in Callers : CancelStep(c)
BY DEF Next, Submit, Elsewhere

\* A settled operation stays settled.
LEMMA TerminalStays ==
  ASSUME Typed, Control, [Next]_vars, NEW o \in Ops, state[o] \in Terminal
  PROVE  state'[o] = state[o]
<1>o. state[o] \in Terminal /\ CourseOf(o)
  BY DEF Control, Course
<1>1. CASE Submit
  <2>1. ASSUME NEW p \in Ops, SubmitAccept(p) PROVE state'[o] = state[o]
    BY <1>o, <2>1 DEF SubmitAccept, Typed, TypeOK, Terminal
  <2>2. CASE SubmitStartFails
    <3>1. CASE submission.op = o
      BY <2>2, <3>1 DEF SubmitStartFails, Failed, IsTerminal
    <3>2. CASE submission.op # o
      BY <2>2, <3>2 DEF SubmitStartFails, Failed, Settle, IsTerminal, Typed, TypeOK, Named
    <3> QED BY <3>1, <3>2
  <2>3. CASE SubmitRefused \/ SubmitRegister \/ SubmitStart \/ SubmitRetain
    BY <2>3 DEF SubmitRefused, SubmitRegister, SubmitStart, SubmitRetain
  <2> QED BY <1>1, <2>1, <2>2, <2>3 DEF Submit, SubmitStep
<1>2. CASE Elsewhere
  BY <1>2, ElsewhereFrame
<1>3. ASSUME NEW p \in Ops, WorkerStep(p) PROVE state'[o] = state[o]
  <2>1. CASE p # o
    BY <1>3, <2>1, WorkerFrame
  <2>2. CASE p = o
    <3>1. CASE Execute(o) \/ FinishSucceeded(o)
      BY <1>o, <3>1 DEF Execute, StillQueued, FinishSucceeded, Terminal
    <3>2. CASE SingleSucceed(o)
      BY <1>o, <3>2 DEF SingleSucceed, CourseOf, Terminal
    <3>3. CASE FinishFailed(o) \/ FinishCancelled(o)
      BY <3>3 DEF FinishFailed, FinishCancelled, Failed, IsTerminal
    <3>4. CASE \/ SingleTake(o) \/ SingleRun(o) \/ SingleDecide(o) \/ SingleCommit(o)
               \/ WorkerRetain(o) \/ BatchDecide(o)
      BY <3>4 DEF SingleTake, SingleRun, SingleDecide, SingleCommit, WorkerRetain, BatchDecide
    <3> QED BY <1>3, <2>2, <3>1, <3>2, <3>3, <3>4 DEF WorkerStep
  <2> QED BY <2>1, <2>2
<1>4. ASSUME NEW p \in Ops, NEW l \in Lanes, LaneStep(p, l) PROVE state'[o] = state[o]
  BY <1>4, LaneFrame
<1>5. ASSUME NEW c \in Callers, CancelStep(c) PROVE state'[o] = state[o]
  <2>1. CASE call[c].op # o
    BY <1>5, <2>1, CancelFrame
  <2>2. CASE call[c].op = o
    BY <1>o, <1>5, <2>2 DEF CancelStep, CancelQueued, CancelRunning, CancelTooLate, CancelRetain,
       Terminal
  <2> QED BY <2>1, <2>2
<1> QED BY <1>1, <1>2, <1>3, <1>4, <1>5, NextCases

\* Retiring a settled operation retires settled operations only.
LEMMA RetainKeeps ==
  ASSUME Typed, Ordered, Kept, NEW o \in Ops, state[o] \in Terminal, RetainTerminal(o), state' = state
  PROVE  Ordered' /\ Kept'
<1>1. Ordered'
  <2>1. \A i \in 1 .. Len(terminalOrder') :
          terminalOrder'[i] = o
          \/ \E j \in 1 .. Len(terminalOrder) : terminalOrder'[i] = terminalOrder[j]
    BY RetainFacts DEF Typed
  <2> QED BY <2>1 DEF Ordered
<1>2. Kept'
  <2>1. \A p \in retained \ retained' :
          p = o \/ \E j \in 1 .. Len(terminalOrder) : p = terminalOrder[j]
    BY RetainFacts DEF Typed
  <2> QED BY <2>1 DEF Kept, Ordered, Active, Terminal
<1> QED BY <1>1, <1>2

\* What stays settled keeps the order settled when the order does not change.
LEMMA OrderStays ==
  ASSUME Typed, Control, [Next]_vars, UNCHANGED terminalOrder
  PROVE  Ordered'
<1> SUFFICES ASSUME NEW i \in 1 .. Len(terminalOrder)
             PROVE  state'[terminalOrder[i]] \in Terminal
  BY DEF Ordered
<1>1. terminalOrder[i] \in Ops
  BY ElementOfSeq DEF Typed, TypeOK
<1>2. state[terminalOrder[i]] \in Terminal
  BY DEF Control, Ordered
<1>3. PICK p \in Ops : p = terminalOrder[i]
  BY <1>1
<1>4. state'[p] \in Terminal
  BY <1>2, <1>3, TerminalStays
<1> QED BY <1>3, <1>4

LEMMA SubmitControl ==
  ASSUME Typed, Control, Submit
  PROVE  Control'
<1>n. [Next]_vars
  BY DEF Submit, Next
<1>f. /\ \A o \in Ops : state[o] \in Terminal => state'[o] \in Terminal
      /\ UNCHANGED <<cancellation, call, lane>>
  <2>1. \A o \in Ops : state[o] \in Terminal => state'[o] \in Terminal
    BY <1>n, TerminalStays
  <2>2. UNCHANGED <<cancellation, call, lane>>
    BY DEF Submit, SubmitStep, SubmitAccept, SubmitRefused, SubmitRegister, SubmitStart,
           SubmitStartFails, SubmitRetain
  <2> QED BY <2>1, <2>2
<1>c. \A c \in Callers : call'[c].pc = "retain" => state'[call'[c].op] \in Terminal
  <2> SUFFICES ASSUME NEW c \in Callers, call[c].pc = "retain"
               PROVE  state'[call[c].op] \in Terminal
    BY <1>f
  <2>1. PICK o \in Ops : o = call[c].op
    BY DEF Typed, Named
  <2>2. state'[o] \in Terminal
    BY <1>f, <2>1 DEF Control, Settling
  <2> QED BY <1>f, <2>1, <2>2
<1>1. ASSUME NEW o \in Ops, SubmitAccept(o) PROVE Control'
  <2> USE <1>1 DEF SubmitAccept, Typed, TypeOK
  <2>1. Course'
    BY <1>f DEF Control, Course, CourseOf
  <2>2. Submitting'
    BY DEF Submitting
  <2>3. Settling'
    BY <1>f, <1>c DEF Control, Settling
  <2>4. Ordered'
    BY <1>n, OrderStays
  <2>5. Kept'
    BY DEF Control, Kept
  <2> QED BY <2>1, <2>2, <2>3, <2>4, <2>5 DEF Control
<1>2. CASE SubmitRefused \/ SubmitRegister
  <2>1. /\ UNCHANGED <<state, worker, retained, terminalOrder>>
        /\ \/ submission' = submission
           \/ /\ submission.pc = "accepted"
              /\ submission' = [submission EXCEPT !.pc = "registered"]
    BY <1>2 DEF SubmitRefused, SubmitRegister
  <2>2. submission'.op = submission.op /\ (submission' # submission => submission'.pc = "registered")
    BY <2>1 DEF Typed, TypeOK
  <2>3. Submitting'
    BY <2>1, <2>2 DEF Control, Submitting
  <2>4. Settling'
    BY <1>c, <2>1, <2>2 DEF Control, Settling
  <2>5. Course' /\ Kept'
    BY <1>f, <2>1 DEF Control, Course, CourseOf, Kept
  <2> QED BY <1>n, <2>1, <2>3, <2>4, <2>5, OrderStays DEF Control
<1>3. CASE SubmitStart
  <2> DEFINE o == submission.op
  <2>1. /\ o \in Ops /\ worker[o] = "blocked" /\ worker' = [worker EXCEPT ![o] = "execute"]
        /\ submission'.pc = "idle" /\ UNCHANGED <<state, retained, terminalOrder>>
    BY <1>3 DEF SubmitStart, SubmitReturns, Typed, Named, Control, Submitting
  <2> HIDE DEF o
  <2>2. Course'
    BY <1>f, <2>1 DEF Control, Course, CourseOf, Typed, TypeOK
  <2>3. Submitting'
    BY <2>1 DEF Submitting
  <2>4. Settling'
    BY <1>c, <2>1 DEF Control, Settling, Typed, TypeOK
  <2>5. Kept'
    BY <2>1 DEF Control, Kept
  <2> QED BY <1>n, <2>1, <2>2, <2>3, <2>4, <2>5, OrderStays DEF Control
<1>4. CASE SubmitStartFails
  <2> DEFINE o == submission.op
  <2>1. /\ o \in Ops /\ worker[o] = "blocked" /\ worker' = [worker EXCEPT ![o] = "exit"]
        /\ UNCHANGED <<retained, terminalOrder>>
    BY <1>4 DEF SubmitStartFails, Typed, Named, Control, Submitting
  <2>2. state'[o] \in Terminal
    <3>1. CASE state[o] \in Terminal
      BY <1>f, <2>1, <3>1
    <3>2. CASE state[o] \notin Terminal
      BY <1>4, <2>1, <3>2 DEF SubmitStartFails, Failed, Settle, IsTerminal, Terminal, Typed, TypeOK
    <3> QED BY <3>1, <3>2
  <2>3. \A p \in Ops \ {o} : state'[p] = state[p]
    BY <1>4, <2>1 DEF SubmitStartFails, Failed, Settle, IsTerminal, Typed, TypeOK
  <2>4. submission'.pc = "idle" \/ (submission'.pc = "retain" /\ submission'.op = o)
    BY <1>4 DEF SubmitStartFails, SubmitReturns, Typed, TypeOK
  <2> HIDE DEF o
  <2>5. Course'
    BY <1>f, <2>1, <2>2, <2>3 DEF Control, Course, CourseOf, Terminal, Typed, TypeOK
  <2>6. Submitting'
    BY <2>4 DEF Submitting
  <2>7. Settling'
    BY <1>f, <1>c, <2>1, <2>2, <2>4 DEF Control, Settling, Typed, TypeOK
  <2>8. Kept'
    BY <2>1, <2>2, <2>3 DEF Control, Kept, Terminal, Active
  <2> QED BY <1>n, <2>1, <2>5, <2>6, <2>7, <2>8, OrderStays DEF Control
<1>5. CASE SubmitRetain
  <2>1. /\ submission.op \in Ops /\ RetainTerminal(submission.op) /\ state[submission.op] \in Terminal
        /\ submission'.pc = "idle" /\ UNCHANGED <<state, worker>>
    BY <1>5 DEF SubmitRetain, SubmitReturns, Typed, Named, Control, Settling
  <2>2. Ordered' /\ Kept'
    BY <2>1, RetainKeeps DEF Control
  <2>3. Submitting' /\ Settling'
    BY <1>c, <2>1 DEF Control, Submitting, Settling
  <2>4. Course'
    BY <1>f, <2>1 DEF Control, Course, CourseOf
  <2> QED BY <2>2, <2>3, <2>4 DEF Control
<1> QED BY <1>1, <1>2, <1>3, <1>4, <1>5 DEF Submit, SubmitStep

LEMMA WorkerControl ==
  ASSUME Typed, Control, NEW o \in Ops, WorkerStep(o)
  PROVE  Control'
<1>n. [Next]_vars
  BY DEF Next
<1>f. /\ UNCHANGED <<cancellation, call, submission>>
      /\ \A p \in Ops : state[p] \in Terminal => state'[p] \in Terminal
      /\ \A p \in Ops \ {o} : /\ state'[p] = state[p] /\ worker'[p] = worker[p]
                              /\ lane'[p] = lane[p]
  BY <1>n, WorkerFrame, TerminalStays
<1>o. CourseOf(o) /\ state[o] \in States /\ worker[o] \in WorkerPc
  BY DEF Control, Course, Typed, TypeOK
<1>1. SUFFICES /\ CourseOf(o)'
               /\ worker[o] \in {"none", "blocked"} => worker'[o] = worker[o]
               /\ worker'[o] = "retain" => state'[o] \in Terminal
               /\ Ordered' /\ Kept'
  <2>1. Course'
    BY <1>1, <1>f DEF Control, Course, CourseOf
  <2>2. Submitting'
    BY <1>1, <1>f DEF Control, Submitting, Typed, Named
  <2>3. Settling'
    BY <1>1, <1>f DEF Control, Settling, Typed, Named
  <2> QED BY <1>1, <2>1, <2>2, <2>3 DEF Control
<1>k. ASSUME UNCHANGED <<retained, terminalOrder>>, state'[o] \in Active => state[o] \in Active
      PROVE  Ordered' /\ Kept'
  BY <1>f, <1>k, <1>n, OrderStays DEF Control, Kept
<1>l. ASSUME lane' = lane, worker[o] # "join"
      PROVE  \A l \in Lanes : lane'[o][l].pc = "exit"
  BY <1>o, <1>l DEF CourseOf
<1> USE DEF Typed, TypeOK
<1>2. CASE Execute(o)
  <2>1. /\ worker[o] = "execute" /\ UNCHANGED <<retained, terminalOrder>>
    BY <1>2 DEF Execute
  <2>2. CASE StillQueued(o)
    <3>1. /\ state[o] = "queued" /\ state'[o] = "running"
          /\ \/ o \in BatchOps /\ worker'[o] = "join"
             \/ o \notin BatchOps /\ worker'[o] = "take" /\ lane' = lane
      BY <1>2, <2>2 DEF Execute, StillQueued
    <3>2. CourseOf(o)'
      BY <1>f, <1>l, <1>o, <2>1, <3>1 DEF CourseOf
    <3> QED BY <1>k, <2>1, <3>1, <3>2 DEF Active
  <2>3. CASE ~StillQueued(o)
    <3>1. worker'[o] = "exit" /\ UNCHANGED <<state, lane>>
      BY <1>2, <2>3 DEF Execute
    <3>2. CourseOf(o)'
      BY <1>f, <1>l, <1>o, <2>1, <3>1 DEF CourseOf
    <3> QED BY <1>k, <2>1, <3>1, <3>2
  <2> QED BY <2>2, <2>3
<1>3. CASE SingleTake(o) \/ SingleRun(o) \/ SingleDecide(o) \/ SingleCommit(o)
  <2>1. /\ worker[o] \in {"take", "run", "staged", "commit"}
        /\ \E pc \in {"run", "staged", "commit", "succeed", "finishFailed", "finishCancelled"} :
             worker' = [worker EXCEPT ![o] = pc]
        /\ UNCHANGED <<state, lane, retained, terminalOrder>>
    BY <1>3 DEF SingleTake, SingleRun, SingleDecide, SingleCommit
  <2>2. CourseOf(o)'
    BY <1>f, <1>l, <1>o, <2>1 DEF CourseOf
  <2> QED BY <1>k, <2>1, <2>2
<1>4. CASE SingleSucceed(o) \/ FinishSucceeded(o)
  <2>1. /\ worker[o] \in {"succeed", "finishSucceeded"}
        /\ worker'[o] \in {"retain", "exit"}
        /\ state'[o] = state[o] \/ state'[o] = "succeeded"
        /\ worker'[o] = "retain" => state'[o] = "succeeded"
        /\ UNCHANGED <<lane, retained, terminalOrder>>
    BY <1>4 DEF SingleSucceed, FinishSucceeded
  <2>2. CourseOf(o)'
    BY <1>f, <1>l, <1>o, <2>1 DEF CourseOf
  <2> QED BY <1>k, <2>1, <2>2 DEF Terminal, Active
<1>5. CASE FinishFailed(o) \/ FinishCancelled(o)
  <2>1. /\ worker[o] \in {"finishFailed", "finishCancelled"}
        /\ worker'[o] \in {"retain", "exit"}
        /\ state'[o] \in Terminal
        /\ UNCHANGED <<lane, retained, terminalOrder>>
    BY <1>5 DEF FinishFailed, FinishCancelled, Failed, Settle, AfterFinish, IsTerminal, Terminal
  <2>2. CourseOf(o)'
    BY <1>f, <1>l, <1>o, <2>1 DEF CourseOf, Terminal
  <2> QED BY <1>k, <2>1, <2>2 DEF Terminal, Active
<1>6. CASE WorkerRetain(o)
  <2>1. /\ worker[o] = "retain" /\ worker'[o] = "exit" /\ RetainTerminal(o)
        /\ UNCHANGED <<state, lane>>
    BY <1>6 DEF WorkerRetain
  <2>2. CourseOf(o)'
    BY <1>f, <1>l, <1>o, <2>1 DEF CourseOf
  <2>3. Ordered' /\ Kept'
    BY <2>1, RetainKeeps DEF Control, Settling
  <2> QED BY <2>1, <2>2, <2>3
<1>7. CASE BatchDecide(o)
  <2>1. /\ worker[o] = "join" /\ Joined(o)
        /\ worker'[o] \in {"finishFailed", "finishCancelled", "finishSucceeded"}
        /\ UNCHANGED <<state, lane, retained, terminalOrder>>
    BY <1>7 DEF BatchDecide
  <2>2. CourseOf(o)'
    BY <1>f, <1>o, <2>1 DEF CourseOf, Joined
  <2> QED BY <1>k, <2>1, <2>2
<1> QED BY <1>2, <1>3, <1>4, <1>5, <1>6, <1>7 DEF WorkerStep

LEMMA LaneControl ==
  ASSUME Typed, Control, NEW o \in Ops, NEW l \in Lanes, LaneStep(o, l)
  PROVE  Control'
<1>1. /\ UNCHANGED <<state, worker, retained, terminalOrder, submission, cancellation, call>>
      /\ \A p \in Ops, k \in Lanes : p # o \/ k # l => lane'[p][k] = lane[p][k]
      /\ lane[o][l].pc # "exit"
  BY LaneFrame
<1>2. Course'
  BY <1>1 DEF Control, Course, CourseOf
<1> QED BY <1>1, <1>2 DEF Control, Submitting, Settling, Ordered, Kept

LEMMA CancelControl ==
  ASSUME Typed, Control, NEW c \in Callers, CancelStep(c)
  PROVE  Control'
<1>n. [Next]_vars
  BY DEF Next
<1>0. PICK o \in Ops : o = call[c].op
  BY CancelFrame
<1>f. /\ UNCHANGED <<lane, worker, submission>>
      /\ \A p \in Ops : state[p] \in Terminal => state'[p] \in Terminal
      /\ \A p \in Ops \ {o} : state'[p] = state[p] /\ cancellation'[p] = cancellation[p]
      /\ \A d \in Callers : d # c => call'[d] = call[d]
      /\ call'[c].op = o
  BY <1>0, <1>n, CancelFrame, TerminalStays
<1>o. CourseOf(o)
  BY <1>f DEF Control, Course
<1>1. SUFFICES /\ CourseOf(o)'
               /\ call'[c].pc = "retain" => state'[o] \in Terminal
               /\ Ordered' /\ Kept'
  <2>1. ASSUME NEW p \in Ops \ {o} PROVE CourseOf(p)'
    BY <1>f DEF Control, Course, CourseOf
  <2>2. Submitting'
    BY <1>f DEF Control, Submitting
  <2>3. Settling'
    BY <1>1, <1>f DEF Control, Settling, Typed, Named
  <2> QED BY <1>1, <2>1, <2>2, <2>3 DEF Control, Course
<1>k. ASSUME UNCHANGED <<retained, terminalOrder>>, state'[o] \in Active => state[o] \in Active
      PROVE  Ordered' /\ Kept'
  BY <1>f, <1>k, <1>n, OrderStays DEF Control, Kept
<1>2. CASE CancelQueued(c) \/ CancelRunning(c)
  <2>1. /\ \/ state[o] = "queued" /\ state'[o] = "cancelled" /\ call'[c].pc = "retain"
           \/ state[o] = "running" /\ state'[o] = "cancelling" /\ call'[c].pc = "done"
        /\ cancellation'[o] /\ UNCHANGED <<retained, terminalOrder>>
    BY <1>0, <1>2 DEF CancelQueued, CancelRunning, Typed, TypeOK
  <2>2. CourseOf(o)'
    BY <1>f, <1>o, <2>1 DEF CourseOf
  <2> QED BY <1>k, <2>1, <2>2 DEF Active, Terminal
<1>3. CASE CancelTooLate(c)
  <2>1. UNCHANGED <<state, cancellation, retained, terminalOrder>> /\ call'[c].pc = "done"
    BY <1>3 DEF CancelTooLate, Typed, TypeOK
  <2> QED BY <1>f, <1>k, <1>o, <2>1 DEF CourseOf
<1>4. CASE CancelRetain(c)
  <2>1. /\ UNCHANGED <<state, cancellation>> /\ call'[c].pc = "done"
        /\ RetainTerminal(o) /\ state[o] \in Terminal
    BY <1>0, <1>4 DEF CancelRetain, Typed, TypeOK, Control, Settling
  <2>2. Ordered' /\ Kept'
    BY <1>f, <2>1, RetainKeeps DEF Control
  <2> QED BY <1>f, <1>o, <2>1, <2>2 DEF CourseOf
<1> QED BY <1>2, <1>3, <1>4 DEF CancelStep

LEMMA ElsewhereControl ==
  ASSUME Typed, Control, Elsewhere
  PROVE  Control'
<1>1. /\ UNCHANGED <<state, worker, lane, retained, terminalOrder, submission, cancellation>>
      /\ \A c \in Callers : call'[c] = call[c] \/ call'[c].pc = "lock"
  BY ElsewhereFrame
<1> QED BY <1>1 DEF Control, Course, CourseOf, Submitting, Settling, Ordered, Kept

LEMMA NextControl == Typed /\ Control /\ [Next]_vars => Control'
BY NextCases, SubmitControl, WorkerControl, LaneControl, CancelControl, ElsewhereControl

-----------------------------------------------------------------------------
(* A Single operation publishes its artifact exactly when it succeeds.     *)

\* From its commit until its state says so, the thread of a Single operation
\* holds the completion mutex and the operation is running.
SingleOf(o) ==
  /\ worker[o] \in {"commit", "succeed"} => completion[o] = Worker /\ state[o] = "running"
  /\ IF worker[o] = "succeed" \/ state[o] = "succeeded"
     THEN committed[o] = {1}
     ELSE committed[o] = {}
  /\ state[o] = "succeeded" => worker[o] \in {"retain", "exit"}
SingleLedger == \A o \in Ops \ BatchOps : SingleOf(o)

LEMMA InitSingle == Init => SingleLedger
BY DEF Init, SingleLedger, SingleOf

LEMMA NextSingle == Typed /\ CommitGuard /\ Control /\ SingleLedger /\ [Next]_vars => SingleLedger'
<1> SUFFICES ASSUME Typed, CommitGuard, Control, SingleLedger, [Next]_vars,
                    NEW o \in Ops \ BatchOps
             PROVE  SingleOf(o)'
  BY DEF SingleLedger
<1>o. SingleOf(o) /\ CourseOf(o)
  BY DEF SingleLedger, Control, Course
<1>1. CASE Submit
  <2>1. UNCHANGED <<completion, committed>>
    BY <1>1 DEF Submit, SubmitStep, SubmitAccept, SubmitRefused, SubmitRegister, SubmitStart,
                SubmitStartFails, SubmitRetain
  <2>2. ASSUME NEW p \in Ops, SubmitAccept(p) PROVE SingleOf(o)'
    <3>1. CASE p = o
      BY <1>o, <2>1, <2>2, <3>1 DEF SubmitAccept, SingleOf, CourseOf, Typed, TypeOK
    <3>2. CASE p # o
      BY <1>o, <2>1, <2>2, <3>2 DEF SubmitAccept, SingleOf, Typed, TypeOK
    <3> QED BY <3>1, <3>2
  <2>3. CASE SubmitRefused \/ SubmitRegister \/ SubmitRetain
    BY <1>o, <2>1, <2>3 DEF SubmitRefused, SubmitRegister, SubmitRetain, SingleOf
  <2>4. CASE SubmitStart
    <3>1. /\ submission.op \in Ops /\ worker[submission.op] = "blocked"
          /\ worker' = [worker EXCEPT ![submission.op] = "execute"] /\ UNCHANGED state
      BY <2>4 DEF SubmitStart, Typed, Named, Control, Submitting
    <3> QED BY <1>o, <2>1, <3>1 DEF SingleOf, Typed, TypeOK
  <2>5. CASE SubmitStartFails
    <3>1. /\ submission.op \in Ops /\ worker[submission.op] = "blocked"
          /\ worker' = [worker EXCEPT ![submission.op] = "exit"]
      BY <2>5 DEF SubmitStartFails, Typed, Named, Control, Submitting
    <3>2. state' = state \/ state' = [state EXCEPT ![submission.op] = "failed"]
      BY <2>5 DEF SubmitStartFails, Failed, Settle
    <3> QED BY <1>o, <2>1, <3>1, <3>2 DEF SingleOf, Typed, TypeOK
  <2> QED BY <1>1, <2>2, <2>3, <2>4, <2>5 DEF Submit, SubmitStep
<1>2. CASE Elsewhere
  BY <1>2, <1>o, ElsewhereFrame DEF SingleOf
<1>3. ASSUME NEW p \in Ops, WorkerStep(p) PROVE SingleOf(o)'
  <2>1. CASE p # o
    BY <1>3, <1>o, <2>1, WorkerFrame DEF SingleOf
  <2>2. CASE p = o
    <3> USE DEF Typed, TypeOK
    <3>1. CASE Execute(o)
      BY <1>o, <3>1 DEF Execute, StillQueued, SingleOf
    <3>2. CASE SingleTake(o) \/ SingleRun(o)
      BY <1>o, <3>2 DEF SingleTake, SingleRun, SingleOf
    <3>3. CASE SingleDecide(o)
      BY <1>o, <3>3 DEF SingleDecide, MayCommit, SingleOf, CourseOf
    <3>4. CASE SingleCommit(o)
      BY <1>o, <3>4 DEF SingleCommit, SingleOf
    <3>5. CASE SingleSucceed(o)
      BY <1>o, <3>5 DEF SingleSucceed, SingleOf
    <3>6. CASE FinishFailed(o)
      BY <1>o, <3>6 DEF FinishFailed, Failed, Settle, AfterFinish, SingleOf
    <3>7. CASE FinishCancelled(o)
      BY <1>o, <3>7 DEF FinishCancelled, Settle, AfterFinish, SingleOf
    <3>8. CASE WorkerRetain(o)
      BY <1>o, <3>8 DEF WorkerRetain, SingleOf
    <3>9. CASE BatchDecide(o) \/ FinishSucceeded(o)
      BY <1>o, <3>9 DEF BatchDecide, FinishSucceeded, CourseOf
    <3> QED BY <1>3, <2>2, <3>1, <3>2, <3>3, <3>4, <3>5, <3>6, <3>7, <3>8, <3>9 DEF WorkerStep
  <2> QED BY <2>1, <2>2
<1>4. ASSUME NEW p \in Ops, NEW l \in Lanes, LaneStep(p, l) PROVE SingleOf(o)'
  <2>1. p # o
    BY <1>4, <1>o, LaneFrame DEF CourseOf
  <2> QED BY <1>4, <1>o, <2>1, LaneFrame DEF SingleOf
<1>5. ASSUME NEW c \in Callers, CancelStep(c) PROVE SingleOf(o)'
  <2>1. UNCHANGED <<worker, committed>>
    BY <1>5, CancelFrame
  <2>2. CASE call[c].op # o
    BY <1>5, <1>o, <2>1, <2>2, CancelFrame DEF SingleOf
  <2>3. CASE call[c].op = o
    <3> USE <2>3 DEF Typed, TypeOK
    <3>1. CASE CancelQueued(c) \/ CancelRunning(c)
      <4>1. /\ completion[o] = Nobody /\ state[o] \in {"queued", "running"}
            /\ state'[o] \in {"cancelled", "cancelling"}
        BY <3>1 DEF CancelQueued, CancelRunning, CancelMayEnter
      <4> QED BY <1>o, <2>1, <4>1, HolderAssumption DEF SingleOf
    <3>2. CASE CancelTooLate(c)
      BY <1>o, <2>1, <3>2 DEF CancelTooLate, SingleOf
    <3>3. CASE CancelRetain(c)
      BY <1>o, <2>1, <3>3, HolderAssumption DEF CancelRetain, ReleasedBy, SingleOf
    <3> QED BY <1>5, <3>1, <3>2, <3>3 DEF CancelStep
  <2> QED BY <2>2, <2>3
<1> QED BY <1>1, <1>2, <1>3, <1>4, <1>5, NextCases

\* No caller can be told that a Single operation failed or was cancelled although
\* its artifact is there, nor that it succeeded without one.
THEOREM SingleIsAllOrNothing == Spec => []SinglePublishesIffSucceeds
<1>1. SingleLedger => SinglePublishesIffSucceeds
  BY DEF SingleLedger, SingleOf, SinglePublishesIffSucceeds
<1> QED
  BY <1>1, InitTyped, NextTyped, InitCommitGuard, NextCommitGuard, InitControl, NextControl,
     InitSingle, NextSingle, PTL DEF Spec

-----------------------------------------------------------------------------
(* A waiter hears every outcome of its operation, once and in order.       *)

\* What the end of an item does to the record.
LEMMA FinishFields ==
  ASSUME Typed, NEW o \in Ops, NEW l \in Lanes, LaneFinish(o, l)
  PROVE  /\ progress'[o].active = progress[o].active - 1
         /\ lane[o][l].result = "ok" =>
              /\ progress'[o].outcomes = Append(progress[o].outcomes,
                                               [item |-> lane[o][l].item, status |-> "succeeded"])
              /\ progress'[o].succeeded = progress[o].succeeded + 1
              /\ progress'[o].failed = progress[o].failed
         /\ lane[o][l].result # "ok" /\ ~cancellation[o] =>
              /\ progress'[o].outcomes = Append(progress[o].outcomes,
                                               [item |-> lane[o][l].item, status |-> "failed"])
              /\ progress'[o].succeeded = progress[o].succeeded
              /\ progress'[o].failed = progress[o].failed + 1
         /\ lane[o][l].result # "ok" /\ cancellation[o] =>
              /\ progress'[o].outcomes = progress[o].outcomes
              /\ progress'[o].succeeded = progress[o].succeeded
              /\ progress'[o].failed = progress[o].failed
<1>r. PICK r \in Progress : r = progress[o]
  BY DEF Typed, TypeOK
<1>t. PICK t \in Lane : t = lane[o][l]
  BY DEF Typed, TypeOK
<1>q. PICK q : q = progress'[o]
  OBVIOUS
<1>0. q = ItemFinished(r, t.item, t.result, cancellation[o])
  BY <1>r, <1>t, <1>q DEF LaneFinish, Typed, TypeOK
<1> SUFFICES
      /\ q.active = r.active - 1
      /\ t.result = "ok" =>
           /\ q.outcomes = Append(r.outcomes, [item |-> t.item, status |-> "succeeded"])
           /\ q.succeeded = r.succeeded + 1 /\ q.failed = r.failed
      /\ t.result # "ok" /\ ~cancellation[o] =>
           /\ q.outcomes = Append(r.outcomes, [item |-> t.item, status |-> "failed"])
           /\ q.succeeded = r.succeeded /\ q.failed = r.failed + 1
      /\ t.result # "ok" /\ cancellation[o] =>
           q.outcomes = r.outcomes /\ q.succeeded = r.succeeded /\ q.failed = r.failed
  BY <1>r, <1>t, <1>q
<1>1. PICK settled : settled = [r EXCEPT !.active = @ - 1]
  OBVIOUS
<1>2. /\ settled \in Progress /\ settled.active = r.active - 1
      /\ settled.outcomes = r.outcomes
      /\ settled.succeeded = r.succeeded /\ settled.failed = r.failed
  BY <1>1 DEF Progress
<1>3. CASE t.result = "ok"
  <2>1. PICK s : s = [settled EXCEPT !.succeeded = @ + 1]
    OBVIOUS
  <2>2. /\ s \in Progress /\ s.active = r.active - 1
        /\ s.succeeded = r.succeeded + 1 /\ s.failed = r.failed
    BY <1>2, <2>1, SMTT(30) DEF Progress
  <2>3. PICK seq : seq = Append(r.outcomes, [item |-> t.item, status |-> "succeeded"])
    OBVIOUS
  <2>4. q = [s EXCEPT !.outcomes = seq]
    BY <1>0, <1>1, <1>3, <2>1, <2>3 DEF ItemFinished
  <2>5. q.active = s.active /\ q.succeeded = s.succeeded /\ q.failed = s.failed /\ q.outcomes = seq
    BY <2>2, <2>4 DEF Progress
  <2> QED BY <1>3, <2>2, <2>3, <2>5
<1>4. CASE t.result # "ok" /\ cancellation[o]
  <2>0. PICK failure : failure = IF t.result = "failed" THEN "some"
                                 ELSE settled.cancellationFailure
    OBVIOUS
  <2>1. q = [settled EXCEPT !.cancellationFailure = failure]
    BY <1>0, <1>1, <1>4, <2>0 DEF ItemFinished
  <2>2. /\ q.active = settled.active /\ q.succeeded = settled.succeeded
        /\ q.failed = settled.failed /\ q.outcomes = settled.outcomes
    BY <1>2, <2>1 DEF Progress
  <2> QED BY <1>2, <1>4, <2>2
<1>5. CASE t.result # "ok" /\ ~cancellation[o]
  <2>1. PICK s : s = [settled EXCEPT !.failed = @ + 1]
    OBVIOUS
  <2>2. /\ s \in Progress /\ s.active = r.active - 1
        /\ s.succeeded = r.succeeded /\ s.failed = r.failed + 1
    BY <1>2, <2>1, SMTT(30) DEF Progress
  <2>3. PICK seq : seq = Append(r.outcomes, [item |-> t.item, status |-> "failed"])
    OBVIOUS
  <2>4. q = [s EXCEPT !.outcomes = seq]
    BY <1>0, <1>1, <1>5, <2>1, <2>3 DEF ItemFinished
  <2>5. q.active = s.active /\ q.succeeded = s.succeeded /\ q.failed = s.failed /\ q.outcomes = seq
    BY <2>2, <2>4 DEF Progress
  <2> QED BY <1>5, <2>2, <2>3, <2>5
<1> QED BY <1>3, <1>4, <1>5

\* The sequence t starts with the sequence h.
Begins(h, t) == Len(h) <= Len(t) /\ \A i \in 1 .. Len(h) : h[i] = t[i]

LEMMA BeginsAppend ==
  ASSUME NEW S, NEW h \in Seq(S), NEW t \in Seq(S), NEW e \in S, Begins(h, t)
  PROVE  Begins(h, Append(t, e))
BY AppendProperties, LenProperties DEF Begins

LEMMA BeginsTransitive ==
  ASSUME NEW S, NEW h \in Seq(S), NEW t \in Seq(S), NEW u \in Seq(S), Begins(h, t), Begins(t, u)
  PROVE  Begins(h, u)
BY LenProperties DEF Begins

\* The rest of a sequence after one it starts with completes it.
LEMMA RestCompletes ==
  ASSUME NEW S, NEW h \in Seq(S), NEW t \in Seq(S), Begins(h, t)
  PROVE  /\ SubSeq(t, Len(h) + 1, Len(t)) \in Seq(S)
         /\ h \o SubSeq(t, Len(h) + 1, Len(t)) = t
<1>0. PICK rest : rest = SubSeq(t, Len(h) + 1, Len(t))
  OBVIOUS
<1>1. Len(h) \in Nat /\ Len(t) \in Nat /\ Len(h) <= Len(t)
  BY LenProperties DEF Begins
<1>2. \A i \in Len(h) + 1 .. Len(t) : t[i] \in S
  BY <1>1, ElementOfSeq
<1>3. PICK m \in Int : m = Len(h) + 1
  BY <1>1
<1>4. /\ rest \in Seq(S)
      /\ Len(rest) = IF m <= Len(t) THEN Len(t) - m + 1 ELSE 0
      /\ \A i \in 1 .. Len(t) - m + 1 : rest[i] = t[m + i - 1]
  BY <1>0, <1>1, <1>2, <1>3, SubSeqProperties
<1>5. Len(rest) = Len(t) - Len(h) /\ \A i \in 1 .. Len(rest) : rest[i] = t[Len(h) + i]
  BY <1>1, <1>3, <1>4
<1>6. /\ h \o rest \in Seq(S) /\ Len(h \o rest) = Len(t)
      /\ \A i \in 1 .. Len(t) : (h \o rest)[i] = IF i <= Len(h) THEN h[i] ELSE rest[i - Len(h)]
  BY <1>1, <1>4, <1>5, ConcatProperties
<1>7. ASSUME NEW i \in 1 .. Len(t) PROVE (h \o rest)[i] = t[i]
  <2>1. CASE i <= Len(h)
    BY <1>1, <1>6, <2>1 DEF Begins
  <2>2. CASE ~(i <= Len(h))
    <3>1. i - Len(h) \in 1 .. Len(rest) /\ Len(h) + (i - Len(h)) = i
      BY <1>1, <1>5, <2>2
    <3> QED BY <1>1, <1>5, <1>6, <2>2, <3>1
  <2> QED BY <2>1, <2>2
<1> QED BY <1>0, <1>4, <1>6, <1>7, SeqEqual

LEMMA BeginsIsSubSeq ==
  ASSUME NEW S, NEW h \in Seq(S), NEW t \in Seq(S), Begins(h, t)
  PROVE  h = SubSeq(t, 1, Len(h))
<1>1. Len(h) \in Nat /\ Len(t) \in Nat /\ Len(h) <= Len(t)
  BY LenProperties DEF Begins
<1>2. \A i \in 1 .. Len(h) : t[i] \in S
  BY <1>1, ElementOfSeq
<1>3. /\ SubSeq(t, 1, Len(h)) \in Seq(S)
      /\ Len(SubSeq(t, 1, Len(h))) = IF 1 <= Len(h) THEN Len(h) - 1 + 1 ELSE 0
      /\ \A i \in 1 .. Len(h) - 1 + 1 : SubSeq(t, 1, Len(h))[i] = t[1 + i - 1]
  BY <1>1, <1>2, SubSeqProperties
<1>4. Len(SubSeq(t, 1, Len(h))) = Len(h) /\ \A i \in 1 .. Len(h) : h[i] = SubSeq(t, 1, Len(h))[i]
  BY <1>1, <1>3 DEF Begins
<1> QED BY <1>3, <1>4, SeqEqual

\* Outcomes are only ever appended, and never once the operation has settled.
LEMMA OutcomesGrow ==
  ASSUME Typed, Control, [Next]_vars, NEW o \in Ops
  PROVE  /\ Begins(progress[o].outcomes, progress'[o].outcomes)
         /\ state[o] \in Terminal => progress'[o].outcomes = progress[o].outcomes
<1>r. PICK r \in Progress : r = progress[o]
  BY DEF Typed, TypeOK
<1>s. r.outcomes \in Seq(Outcome)
  BY DEF Progress
<1>0. Begins(r.outcomes, r.outcomes)
  BY <1>s, LenProperties DEF Begins
<1>1. SUFFICES \/ progress'[o].outcomes = r.outcomes
               \/ /\ state[o] \notin Terminal
                  /\ Begins(r.outcomes, progress'[o].outcomes)
  BY <1>0, <1>1, <1>r
<1>a. \A n : [r EXCEPT !.active = n].outcomes = r.outcomes
  BY DEF Progress
<1>2. CASE Submit
  <2>1. \/ progress' = progress
        \/ submission.op \in Ops /\ progress' = [progress EXCEPT ![submission.op].active = 0]
    BY <1>2 DEF Submit, SubmitStep, SubmitAccept, SubmitRefused, SubmitRegister, SubmitStart,
                SubmitStartFails, Failed, Settle, SubmitRetain, Typed, Named
  <2>2. progress'[o] = r \/ progress'[o] = [r EXCEPT !.active = 0]
    <3>1. CASE submission.op = o
      BY <1>r, <2>1, <3>1 DEF Typed, TypeOK
    <3>2. CASE submission.op # o
      BY <1>r, <2>1, <3>2 DEF Typed, TypeOK
    <3> QED BY <3>1, <3>2
  <2> QED BY <1>a, <2>2
<1>3. CASE Elsewhere
  BY <1>3, <1>r, ElsewhereFrame
<1>4. ASSUME NEW p \in Ops, WorkerStep(p)
      PROVE  progress'[o].outcomes = r.outcomes
  <2>1. CASE p # o
    BY <1>4, <1>r, <2>1, WorkerFrame
  <2>2. CASE p = o
    <3>1. progress' = progress \/ progress' = [progress EXCEPT ![o].active = 0]
      BY <1>4, <2>2 DEF WorkerStep, Execute, SingleTake, SingleRun, SingleDecide, SingleCommit,
         SingleSucceed, FinishFailed, FinishCancelled, Failed, Settle, WorkerRetain, BatchDecide,
         FinishSucceeded
    <3>2. progress'[o] = r \/ progress'[o] = [r EXCEPT !.active = 0]
      BY <1>r, <3>1 DEF Typed, TypeOK
    <3> QED BY <1>a, <3>2
  <2> QED BY <2>1, <2>2
<1>5. ASSUME NEW p \in Ops, NEW l \in Lanes, LaneStep(p, l)
      PROVE  \/ progress'[o].outcomes = r.outcomes
             \/ /\ state[o] \notin Terminal
                /\ Begins(r.outcomes, progress'[o].outcomes)
  <2>1. CASE p # o
    BY <1>5, <1>r, <2>1, LaneFrame
  <2>2. CASE p = o
    <3>1. CASE LaneFinish(o, l)
      <4>1. PICK i \in 1 .. ItemCount : i = lane[o][l].item
        BY DEF Lane, Typed, TypeOK
      <4>2. \/ progress'[o].outcomes = r.outcomes
            \/ \E s \in {"succeeded", "failed"} :
                 progress'[o].outcomes = Append(r.outcomes, [item |-> i, status |-> s])
        BY <1>r, <3>1, <4>1, FinishFields
      <4>3. \A s \in {"succeeded", "failed"} : [item |-> i, status |-> s] \in Outcome
        BY DEF Outcome
      <4>7. progress'[o].outcomes = r.outcomes \/ Begins(r.outcomes, progress'[o].outcomes)
        BY <1>0, <1>s, <4>2, <4>3, BeginsAppend
      <4>8. state[o] \notin Terminal
        BY <3>1 DEF LaneFinish, Control, Course, CourseOf, Terminal
      <4> QED BY <4>7, <4>8
    <3>2. CASE LaneBegin(o, l)
      <4>1. progress' = progress \/ progress' = [progress EXCEPT ![o].active = @ + 1]
        BY <3>2 DEF LaneBegin
      <4>2. progress'[o] = r \/ progress'[o] = [r EXCEPT !.active = r.active + 1]
        BY <1>r, <4>1 DEF Typed, TypeOK
      <4> QED BY <1>a, <4>2
    <3>3. CASE ~LaneFinish(o, l) /\ ~LaneBegin(o, l)
      BY <1>5, <1>r, <2>2, <3>3 DEF LaneStep, LaneFetch, LaneRun, LaneDecide, LaneCommit
    <3> QED BY <3>1, <3>2, <3>3
  <2> QED BY <2>1, <2>2
<1>6. ASSUME NEW c \in Callers, CancelStep(c)
      PROVE  progress'[o].outcomes = r.outcomes
  BY <1>6, <1>r, CancelFrame
<1> QED BY <1>2, <1>3, <1>4, <1>5, <1>6, NextCases

\* What a waiter has heard, what there is to hear, and when it has heard it all:
\* a terminal state is seen together with the last outcomes.
Heard(w) == wait[w].got \o wait[w].pending
Told(w) == IF wait[w].op = Nobody THEN <<>> ELSE progress[wait[w].op].outcomes
WaitOf(w) ==
  /\ wait[w].pc = "idle" => wait[w] = IdleWait
  /\ wait[w].pc \in {"look", "sleep", "returned"} => wait[w].pending = <<>>
  /\ Begins(Heard(w), Told(w))
  /\ \/ wait[w].pc = "returned"
     \/ wait[w].pc = "deliver" /\ wait[w].seen \in Terminal
     => Len(Heard(w)) = Len(Told(w)) /\ state[wait[w].op] \in Terminal
WaitLedger == \A w \in Waiters : WaitOf(w)

LEMMA InitWait == Init => WaitLedger
BY DEF Init, WaitLedger, WaitOf, Heard, Told, Begins, IdleWait

\* A waiter whose call does not move keeps what it has heard.
LEMMA WaitStays ==
  ASSUME Typed, Control, [Next]_vars, NEW w \in Waiters, WaitOf(w), wait'[w] = wait[w]
  PROVE  WaitOf(w)'
<1>1. PICK r \in Wait : r = wait[w]
  BY DEF Typed, TypeOK
<1>2. PICK h \in Seq(Outcome) : h = r.got \o r.pending
  BY ConcatProperties DEF Wait
<1>3. h = Heard(w) /\ h = Heard(w)'
  BY <1>1, <1>2 DEF Heard
<1>4. CASE r.op = Nobody
  <2>1. r.pc = "idle"
    BY <1>1, <1>4, ShapeAssumption DEF Typed, Named
  <2> QED BY <1>1, <1>3, <1>4, <2>1 DEF WaitOf, Told
<1>5. CASE r.op # Nobody
  <2>1. PICK o \in Ops : o = r.op
    BY <1>5 DEF Wait
  <2>2. Told(w) = progress[o].outcomes /\ Told(w)' = progress'[o].outcomes
    BY <1>1, <1>5, <2>1 DEF Told
  <2>3. progress[o].outcomes \in Seq(Outcome) /\ progress'[o].outcomes \in Seq(Outcome)
    <3>1. progress[o] \in Progress /\ progress'[o] \in Progress
      BY NextTyped DEF Typed, TypeOK
    <3> QED BY <3>1 DEF Progress
  <2>4. Begins(progress[o].outcomes, progress'[o].outcomes)
    BY OutcomesGrow
  <2>5. Begins(h, Told(w)')
    BY <1>3, <2>2, <2>3, <2>4, BeginsTransitive DEF WaitOf
  <2>6. ASSUME r.pc = "returned" \/ (r.pc = "deliver" /\ r.seen \in Terminal)
        PROVE  Len(h) = Len(Told(w)') /\ state'[r.op] \in Terminal
    <3>1. Len(h) = Len(Told(w)) /\ state[o] \in Terminal
      BY <1>1, <1>3, <2>1, <2>6 DEF WaitOf
    <3> QED BY <2>1, <2>2, <3>1, OutcomesGrow, TerminalStays
  <2> QED BY <1>1, <1>3, <2>5, <2>6 DEF WaitOf
<1> QED BY <1>4, <1>5

LEMMA WaitMoves ==
  ASSUME Typed, Control, NEW w \in Waiters, WaitOf(w),
         WaitStep(w) \/ WaitDisconnect(w) \/ \E o \in Ops : WaitStart(w, o)
  PROVE  WaitOf(w)'
<1>1. PICK r \in Wait : r = wait[w]
  BY DEF Typed, TypeOK
<1>u. UNCHANGED <<state, progress>>
  BY DEF WaitStart, WaitStep, WaitLook, WaitDeliver, WaitWake, WaitDisconnect
<1>2. ASSUME NEW o \in Ops, WaitStart(w, o) PROVE WaitOf(w)'
  <2>1. r = IdleWait
    BY <1>1, <1>2 DEF WaitStart, WaitOf
  <2>2. PICK t : t = [r EXCEPT !.pc = "look"]
    OBVIOUS
  <2>a. PICK s : s = [t EXCEPT !.op = o]
    OBVIOUS
  <2>b. wait' = [wait EXCEPT ![w] = s]
    BY <1>1, <1>2, <2>2, <2>a DEF WaitStart
  <2>3. wait'[w] = s
    BY <2>b DEF Typed, TypeOK
  <2>4. s.pc = "look" /\ s.op = o /\ s.got = <<>> /\ s.pending = <<>>
    BY <2>1, <2>2, <2>a DEF IdleWait
  <2>5. progress[o].outcomes \in Seq(Outcome)
    BY DEF Typed, TypeOK, Progress
  <2>6. Heard(w)' = <<>> /\ Told(w)' = progress[o].outcomes
    BY <1>u, <2>3, <2>4, ShapeAssumption DEF Heard, Told
  <2>7. Begins(<<>>, progress[o].outcomes)
    BY <2>5, LenProperties DEF Begins
  <2> QED BY <2>3, <2>4, <2>6, <2>7 DEF WaitOf
<1>m. ASSUME r.pc # "idle"
      PROVE  /\ r.op \in Ops
             /\ Told(w) = progress[r.op].outcomes
             /\ progress[r.op].outcomes \in Seq(Outcome)
  <2>1. PICK o \in Ops : o = r.op
    BY <1>1, <1>m DEF Typed, Named
  <2>2. progress[o].outcomes \in Seq(Outcome)
    BY DEF Typed, TypeOK, Progress
  <2> QED BY <1>1, <2>1, <2>2, ShapeAssumption DEF Told
<1>t. r.got \in Seq(Outcome) /\ r.pending \in Seq(Outcome)
  BY DEF Wait
<1>3. CASE WaitLook(w)
  <2>1. r.pc = "look" /\ r.op \in Ops /\ r.pending = <<>>
    BY <1>1, <1>3, <1>m DEF WaitLook, WaitOf
  <2>2. PICK told \in Seq(Outcome) : told = progress[r.op].outcomes /\ Told(w) = told
    BY <1>m, <2>1
  <2>3. r.got = Heard(w) /\ Begins(r.got, told)
    BY <1>1, <1>t, <2>1, <2>2, ConcatEmptySeq DEF Heard, WaitOf
  <2>4. CASE r.op \in retained
    <3>1. PICK rest : rest = SubSeq(told, Len(r.got) + 1, Len(told))
      OBVIOUS
    <3>2. rest \in Seq(Outcome) /\ r.got \o rest = told
      BY <1>t, <2>2, <2>3, <3>1, RestCompletes
    <3>3. PICK s : s = [r EXCEPT !.pc = "deliver", !.seen = state[r.op], !.pending = rest]
      OBVIOUS
    <3>4. wait'[w] = s
      BY <1>1, <1>3, <2>2, <2>4, <3>1, <3>3 DEF WaitLook, OutcomesNow, Typed, TypeOK
    <3>5. s.pc = "deliver" /\ s.op = r.op /\ s.got = r.got /\ s.pending = rest
          /\ s.seen = state[r.op]
      BY <3>3 DEF Wait
    <3>6. Heard(w)' = told /\ Told(w)' = told
      BY <1>1, <1>u, <2>1, <2>2, <3>2, <3>4, <3>5, ShapeAssumption DEF Heard, Told
    <3>7. Begins(told, told)
      BY <2>2, LenProperties DEF Begins
    <3> QED BY <1>u, <3>4, <3>5, <3>6, <3>7 DEF WaitOf
  <2>5. CASE r.op \notin retained
    <3>1. wait'[w] = [r EXCEPT !.pc = "gone"]
      BY <1>1, <1>3, <2>5 DEF WaitLook, Typed, TypeOK
    <3>2. wait'[w].pc = "gone" /\ wait'[w].op = r.op /\ wait'[w].got = r.got
          /\ wait'[w].pending = r.pending
      BY <3>1 DEF Wait
    <3> QED BY <1>1, <1>u, <3>2 DEF WaitOf, Heard, Told
  <2> QED BY <2>4, <2>5
<1>4. CASE WaitDeliver(w)
  <2>1. r.pc = "deliver"
    BY <1>1, <1>4 DEF WaitDeliver
  <2>2. PICK heard \in Seq(Outcome) : heard = r.got \o r.pending /\ heard = Heard(w)
    BY <1>1, <1>t, ConcatProperties DEF Heard
  <2>3. PICK next_pc : next_pc = IF r.seen \in Terminal THEN "returned" ELSE "sleep"
    OBVIOUS
  <2>4. PICK s : s = [r EXCEPT !.pc = next_pc, !.got = heard, !.pending = <<>>]
    OBVIOUS
  <2>5. wait'[w] = s
    BY <1>1, <1>4, <2>2, <2>3, <2>4 DEF WaitDeliver, Typed, TypeOK
  <2>6. s.pc = next_pc /\ s.op = r.op /\ s.got = heard /\ s.pending = <<>> /\ s.seen = r.seen
    BY <2>4 DEF Wait
  <2>7. Heard(w)' = heard /\ Told(w)' = Told(w)
    BY <1>1, <1>u, <2>2, <2>5, <2>6, ConcatEmptySeq DEF Heard, Told
  <2> QED BY <1>1, <1>u, <2>1, <2>2, <2>3, <2>5, <2>6, <2>7 DEF WaitOf
<1>5. CASE WaitDisconnect(w) \/ WaitWake(w)
  <2>1. /\ r.pc \in {"look", "deliver", "sleep"}
        /\ \/ wait'[w] = [r EXCEPT !.pc = "gone"]
           \/ r.pc = "sleep" /\ wait'[w] = [r EXCEPT !.pc = "look"]
    BY <1>1, <1>5 DEF WaitDisconnect, WaitWake, Typed, TypeOK
  <2>2. /\ wait'[w].pc = "gone" \/ (r.pc = "sleep" /\ wait'[w].pc = "look")
        /\ wait'[w].op = r.op /\ wait'[w].got = r.got /\ wait'[w].pending = r.pending
    BY <2>1 DEF Wait
  <2> QED BY <1>1, <1>u, <2>2 DEF WaitOf, Heard, Told
<1> QED BY <1>2, <1>3, <1>4, <1>5 DEF WaitStep

LEMMA NextWait == Typed /\ Control /\ WaitLedger /\ [Next]_vars => WaitLedger'
<1> SUFFICES ASSUME Typed, Control, WaitLedger, [Next]_vars, NEW w \in Waiters
             PROVE  WaitOf(w)'
  BY DEF WaitLedger
<1>w. WaitOf(w)
  BY DEF WaitLedger
<1>1. CASE wait'[w] = wait[w]
  BY <1>1, <1>w, WaitStays
<1>2. CASE wait'[w] # wait[w]
  <2>1. CASE WaitStep(w) \/ WaitDisconnect(w) \/ \E o \in Ops : WaitStart(w, o)
    BY <1>w, <2>1, WaitMoves
  <2>2. ASSUME NEW v \in Waiters, v # w,
               WaitStep(v) \/ WaitDisconnect(v) \/ \E o \in Ops : WaitStart(v, o)
        PROVE  wait'[w] = wait[w]
    <3> USE <2>2 DEF Typed, TypeOK
    <3>1. CASE WaitLook(v)
      BY <3>1 DEF WaitLook
    <3>2. CASE WaitDeliver(v)
      BY <3>2 DEF WaitDeliver
    <3>3. CASE WaitWake(v) \/ WaitDisconnect(v) \/ \E o \in Ops : WaitStart(v, o)
      BY <3>3 DEF WaitWake, WaitDisconnect, WaitStart
    <3> QED BY <3>1, <3>2, <3>3 DEF WaitStep
  <2>3. ASSUME Submit PROVE wait' = wait
    BY <2>3 DEF Submit, SubmitStep, SubmitAccept, SubmitRefused, SubmitRegister, SubmitStart,
                SubmitStartFails, SubmitRetain
  <2>4. ASSUME \/ \E c \in Cancellers, o \in Ops : ClientCancel(c, o)
               \/ ShutdownBegin \/ ShutdownStep \/ UNCHANGED vars
        PROVE  wait' = wait
    BY <2>4 DEF ClientCancel, ShutdownBegin, ShutdownStep, ShutdownCancel, ShutdownTake,
                ShutdownJoined, vars
  <2>5. ASSUME \/ \E o \in Ops : WorkerStep(o)
               \/ \E o \in Ops, l \in Lanes : LaneStep(o, l)
               \/ \E c \in Callers : CancelStep(c)
        PROVE  wait' = wait
    BY <2>5, WorkerFrame, LaneFrame, CancelFrame
  <2>6. Elsewhere => \/ \E v \in Waiters : \/ WaitStep(v) \/ WaitDisconnect(v)
                                          \/ \E o \in Ops : WaitStart(v, o)
                     \/ \E c \in Cancellers, o \in Ops : ClientCancel(c, o)
                     \/ ShutdownBegin \/ ShutdownStep \/ UNCHANGED vars
    BY DEF Elsewhere
  <2>7. \E v \in Waiters : \/ WaitStep(v) \/ WaitDisconnect(v) \/ \E o \in Ops : WaitStart(v, o)
    BY <1>2, <2>3, <2>4, <2>5, <2>6, NextCases
  <2> QED BY <1>2, <2>1, <2>2, <2>7
<1> QED BY <1>1, <1>2

\* A waiter that is told the terminal snapshot has been told every outcome, each
\* once and in the order of the registry.
THEOREM WaitersHearEverything == Spec => []WaiterHearsEverything
<1>1. Typed /\ WaitLedger => WaiterHearsEverything
  <2> SUFFICES ASSUME Typed, WaitLedger, NEW w \in Waiters
               PROVE  /\ Len(Heard(w)) <= Len(Told(w))
                      /\ Heard(w) = SubSeq(Told(w), 1, Len(Heard(w)))
                      /\ wait[w].pc = "returned" => Heard(w) = Told(w)
    BY DEF WaiterHearsEverything, Heard, Told
  <2>1. WaitOf(w)
    BY DEF WaitLedger
  <2>2. PICK r \in Wait : r = wait[w]
    BY DEF Typed, TypeOK
  <2>3. PICK heard \in Seq(Outcome) : heard = Heard(w)
    BY <2>2, ConcatProperties DEF Heard, Wait
  <2>4. PICK told \in Seq(Outcome) : told = Told(w)
    <3>1. \A o \in Ops : progress[o].outcomes \in Seq(Outcome)
      BY DEF Typed, TypeOK, Progress
    <3>2. <<>> \in Seq(Outcome)
      BY EmptySeq
    <3>3. r.op \in Ops \cup {Nobody}
      BY DEF Wait
    <3> QED BY <2>2, <3>1, <3>2, <3>3 DEF Told
  <2>5. Begins(heard, told) /\ (wait[w].pc = "returned" => Len(heard) = Len(told))
    BY <2>1, <2>3, <2>4 DEF WaitOf
  <2>6. heard = SubSeq(told, 1, Len(heard))
    BY <2>5, BeginsIsSubSeq
  <2>7. SubSeq(told, 1, Len(told)) = told
    BY SubSeqFull
  <2>8. Len(Heard(w)) <= Len(Told(w)) /\ Heard(w) = SubSeq(Told(w), 1, Len(Heard(w)))
    BY <2>3, <2>4, <2>5, <2>6 DEF Begins
  <2>9. ASSUME wait[w].pc = "returned" PROVE Heard(w) = Told(w)
    <3>1. Len(heard) = Len(told)
      BY <2>5, <2>9
    <3>2. heard = told
      BY <2>6, <2>7, <3>1
    <3> QED BY <2>3, <2>4, <3>2
  <2> QED BY <2>8, <2>9
<1> QED
  BY <1>1, InitTyped, NextTyped, InitControl, NextControl, InitWait, NextWait, PTL DEF Spec

-----------------------------------------------------------------------------
(* The counters of a Batch agree with its threads.                         *)

Carrying(o) == {l \in Lanes : lane[o][l].pc \notin {"exit", "fetch"}}
InFlight(o) == {l \in Lanes : lane[o][l].pc \in {"run", "staged", "commit", "finish"}}
Publishing(o) == {l \in Lanes : lane[o][l].pc = "finish" /\ lane[o][l].result = "ok"}
ItemsOf(outcomes, s) ==
  {outcomes[i].item : i \in {j \in 1 .. Len(outcomes) : outcomes[j].status = s}}
Done(o) == ItemsOf(progress[o].outcomes, "succeeded")
Missed(o) == ItemsOf(progress[o].outcomes, "failed")
Reported(o) == Done(o) \cup Missed(o)

\* No item is fetched twice: two threads never carry the same item, an item that
\* has an outcome is not carried any more, and it has one outcome.
Fetched(o) ==
  /\ \A l \in Carrying(o) :
       /\ lane[o][l].item < next[o] /\ lane[o][l].item \notin Reported(o)
       /\ \A k \in Carrying(o) : k # l => lane[o][k].item # lane[o][l].item
  /\ \A n \in Reported(o) : n < next[o]
  /\ Done(o) \cap Missed(o) = {}

\* No item is lost unless the Batch is cancelled: what was fetched is carried or
\* has its outcome, and the threads return only when everything was fetched.
Complete(o) ==
  /\ ~cancellation[o] =>
       \A n \in 1 .. ItemCount :
         n < next[o] => n \in Reported(o) \/ \E l \in Carrying(o) : lane[o][l].item = n
  /\ worker[o] \in {"join", "finishSucceeded"} /\ ~cancellation[o] =>
       \A l \in Lanes : lane[o][l].pc = "exit" => next[o] > ItemCount
  /\ state[o] = "succeeded" => 1 .. ItemCount \subseteq Reported(o)

Counted(o) ==
  /\ progress[o].active = Cardinality(InFlight(o))
  /\ progress[o].succeeded = Cardinality(Done(o))
  /\ progress[o].failed = Cardinality(Missed(o))

Published(o) == committed[o] = Done(o) \cup {lane[o][l].item : l \in Publishing(o)}

BatchOf(o) == Fetched(o) /\ Complete(o) /\ Counted(o) /\ Published(o)
BatchLedger == \A o \in BatchOps : BatchOf(o)

LEMMA InitBatch == Init => BatchLedger
<1> SUFFICES ASSUME Init, NEW o \in BatchOps PROVE BatchOf(o)
  BY DEF BatchLedger
<1>0. o \in Ops
  BY ShapeAssumption
<1>1. /\ progress[o] = NoProgress /\ next[o] = 1 /\ committed[o] = {} /\ state[o] = "none"
      /\ worker[o] = "none" /\ \A l \in Lanes : lane[o][l].pc = "exit"
  BY <1>0 DEF Init
<1>2. /\ progress[o].outcomes = <<>> /\ progress[o].active = 0
      /\ progress[o].succeeded = 0 /\ progress[o].failed = 0
  BY <1>1 DEF NoProgress
<1>3. Carrying(o) = {} /\ InFlight(o) = {} /\ Publishing(o) = {}
  BY <1>1 DEF Carrying, InFlight, Publishing
<1>4. Len(progress[o].outcomes) = 0
  BY <1>2
<1>5. Done(o) = {} /\ Missed(o) = {} /\ Reported(o) = {}
  BY <1>4 DEF ItemsOf, Done, Missed, Reported
<1>6. Fetched(o) /\ Complete(o)
  BY <1>1, <1>3, <1>5 DEF Fetched, Complete
<1>7. Counted(o) /\ Published(o)
  BY <1>1, <1>2, <1>3, <1>5, FS_EmptySet DEF Counted, Published
<1> QED BY <1>6, <1>7 DEF BatchOf

\* An outcome that is appended adds its item to those of its status.
LEMMA ItemsAppend ==
  ASSUME NEW q \in Seq(Outcome), NEW e \in Outcome
  PROVE  \A s : ItemsOf(Append(q, e), s) = IF e.status = s THEN ItemsOf(q, s) \cup {e.item}
                                           ELSE ItemsOf(q, s)
<1>1. PICK t : t = Append(q, e)
  OBVIOUS
<1>2. PICK m \in Nat : m = Len(q)
  BY LenProperties
<1>3. /\ Len(t) = m + 1 /\ t[m + 1] = e
      /\ \A i \in 1 .. m : t[i] = q[i]
  BY <1>1, <1>2, AppendProperties
<1>4. \A i : i \in 1 .. m + 1 <=> i \in 1 .. m \/ i = m + 1
  BY <1>2
<1>5. ASSUME NEW s
      PROVE  ItemsOf(t, s) = IF e.status = s THEN ItemsOf(q, s) \cup {e.item} ELSE ItemsOf(q, s)
  <2>1. \A n : n \in ItemsOf(t, s) <=> \E i \in 1 .. m + 1 : t[i].status = s /\ n = t[i].item
    BY <1>3 DEF ItemsOf
  <2>2. \A n : n \in ItemsOf(q, s) <=> \E i \in 1 .. m : q[i].status = s /\ n = q[i].item
    BY <1>2 DEF ItemsOf
  <2>3. \A n : n \in ItemsOf(t, s) <=> n \in ItemsOf(q, s) \/ (e.status = s /\ n = e.item)
    BY <1>3, <1>4, <2>1, <2>2
  <2> QED BY <2>3
<1> QED BY <1>1, <1>5

LEMMA ItemsTyped ==
  ASSUME Typed, NEW o \in Ops
  PROVE  /\ progress[o].outcomes \in Seq(Outcome)
         /\ Done(o) \subseteq 1 .. ItemCount /\ Missed(o) \subseteq 1 .. ItemCount
         /\ IsFiniteSet(Done(o)) /\ IsFiniteSet(Missed(o))
<1>1. PICK q \in Seq(Outcome) : q = progress[o].outcomes
  BY DEF Typed, TypeOK, Progress
<1>2. ASSUME NEW i \in 1 .. Len(q) PROVE q[i].item \in 1 .. ItemCount
  <2>1. PICK e \in Outcome : e = q[i]
    BY ElementOfSeq
  <2> QED BY <2>1 DEF Outcome
<1>3. Done(o) \subseteq 1 .. ItemCount /\ Missed(o) \subseteq 1 .. ItemCount
  BY <1>1, <1>2 DEF Done, Missed, ItemsOf
<1>4. IsFiniteSet(1 .. ItemCount)
  BY ShapeAssumption, FS_Interval
<1> QED BY <1>1, <1>3, <1>4, FS_Subset

-----------------------------------------------------------------------------
\* What a step of a Batch thread does: it takes an item, returns, carries its
\* item on, or reports it.
Takes(o, l) ==
  /\ lane[o][l].pc = "fetch" /\ lane'[o][l].pc = "begin"
  /\ next[o] \in 1 .. ItemCount /\ lane'[o][l].item = next[o]
  /\ next'[o] = next[o] + 1
  /\ Done(o)' = Done(o) /\ Missed(o)' = Missed(o)
  /\ progress'[o] = progress[o] /\ committed'[o] = committed[o]
Returns(o, l) ==
  /\ lane[o][l].pc \in {"fetch", "begin"} /\ lane'[o][l].pc = "exit"
  /\ \/ next'[o] = next[o] /\ cancellation[o]
     \/ next'[o] = next[o] + 1 /\ next[o] > ItemCount /\ lane[o][l].pc = "fetch"
  /\ Done(o)' = Done(o) /\ Missed(o)' = Missed(o)
  /\ progress'[o] = progress[o] /\ committed'[o] = committed[o]
Carries(o, l) ==
  /\ lane[o][l].pc \in {"begin", "run", "staged", "commit"}
  /\ lane'[o][l].pc \in {"run", "staged", "commit", "finish"}
  /\ lane'[o][l].item = lane[o][l].item
  /\ next'[o] = next[o]
  /\ Done(o)' = Done(o) /\ Missed(o)' = Missed(o)
  /\ progress'[o].succeeded = progress[o].succeeded /\ progress'[o].failed = progress[o].failed
  /\ progress'[o].active = IF lane[o][l].pc = "begin" THEN progress[o].active + 1
                           ELSE progress[o].active
  /\ committed'[o] = IF lane'[o][l].pc = "finish" /\ lane'[o][l].result = "ok"
                     THEN committed[o] \cup {lane[o][l].item} ELSE committed[o]
Reports(o, l) ==
  /\ lane[o][l].pc = "finish" /\ lane'[o][l].pc = "fetch"
  /\ next'[o] = next[o] /\ committed'[o] = committed[o]
  /\ progress'[o].active = progress[o].active - 1
  /\ \/ /\ lane[o][l].result # "ok" /\ cancellation[o]
        /\ Done(o)' = Done(o) /\ Missed(o)' = Missed(o)
        /\ progress'[o].succeeded = progress[o].succeeded
        /\ progress'[o].failed = progress[o].failed
     \/ /\ lane[o][l].result = "ok"
        /\ Done(o)' = Done(o) \cup {lane[o][l].item} /\ Missed(o)' = Missed(o)
        /\ progress'[o].succeeded = progress[o].succeeded + 1
        /\ progress'[o].failed = progress[o].failed
     \/ /\ lane[o][l].result # "ok"
        /\ Done(o)' = Done(o) /\ Missed(o)' = Missed(o) \cup {lane[o][l].item}
        /\ progress'[o].succeeded = progress[o].succeeded
        /\ progress'[o].failed = progress[o].failed + 1

LEMMA LaneEffects ==
  ASSUME Typed, Control, NEW o \in Ops, NEW l \in Lanes, LaneStep(o, l)
  PROVE  Takes(o, l) \/ Returns(o, l) \/ Carries(o, l) \/ Reports(o, l)
<1>r. PICK r \in Lane : r = lane[o][l]
  BY DEF Typed, TypeOK
<1>s. \A s : SetLane(o, l, s) => lane'[o][l] = s
  BY LaneMoves DEF Typed
<1>p. \A pc : [r EXCEPT !.pc = pc].pc = pc /\ [r EXCEPT !.pc = pc].item = r.item
  BY DEF Lane
<1>d. progress'[o].outcomes = progress[o].outcomes =>
        Done(o)' = Done(o) /\ Missed(o)' = Missed(o)
  BY DEF Done, Missed
<1>n. next[o] \in Nat \ {0}
  BY DEF Typed, TypeOK
<1>k. worker[o] = "join" /\ state[o] \in {"running", "cancelling"}
      /\ (state[o] = "cancelling" => cancellation[o]) /\ (state[o] = "running" => o \in retained)
  BY LaneFrame DEF Control, Course, CourseOf, Kept, Active
<1>1. CASE LaneFetch(o, l)
  <2>1. /\ r.pc = "fetch" /\ progress' = progress /\ committed' = committed
    BY <1>1, <1>r DEF LaneFetch
  <2>2. CASE cancellation[o]
    <3>1. next' = next /\ lane'[o][l].pc = "exit"
      BY <1>1, <1>p, <1>r, <1>s, <2>2 DEF LaneFetch
    <3> QED BY <1>d, <1>r, <2>1, <2>2, <3>1 DEF Returns
  <2>3. CASE ~cancellation[o]
    <3>1. next'[o] = next[o] + 1
      BY <1>1, <2>3 DEF LaneFetch, FetchNext, Typed, TypeOK
    <3>2. CASE Exhausted(o)
      <4>1. lane'[o][l].pc = "exit"
        BY <1>1, <1>p, <1>r, <1>s, <2>3, <3>2 DEF LaneFetch
      <4> QED BY <1>d, <1>r, <2>1, <3>1, <3>2, <4>1 DEF Returns, Exhausted
    <3>3. CASE ~Exhausted(o)
      <4>1. PICK b : b = [r EXCEPT !.pc = "begin", !.item = next[o]]
        OBVIOUS
      <4>2. lane'[o][l] = b
        BY <1>1, <1>r, <1>s, <2>3, <3>3, <4>1 DEF LaneFetch
      <4>3. b.pc = "begin" /\ b.item = next[o]
        BY <4>1 DEF Lane
      <4>4. next[o] \in 1 .. ItemCount
        BY <1>n, <3>3, ShapeAssumption DEF Exhausted
      <4> QED BY <1>d, <1>r, <2>1, <3>1, <4>2, <4>3, <4>4 DEF Takes
    <3> QED BY <3>2, <3>3
  <2> QED BY <2>2, <2>3
<1>2. CASE LaneBegin(o, l)
  <2>1. r.pc = "begin" /\ next' = next /\ committed' = committed
    BY <1>2, <1>r DEF LaneBegin
  <2>2. CASE o \in retained /\ state[o] = "running" /\ ~cancellation[o]
    <3>1. PICK p \in Progress : p = progress[o]
      BY DEF Typed, TypeOK
    <3>2. PICK q : q = [p EXCEPT !.active = p.active + 1]
      OBVIOUS
    <3>3. progress'[o] = q
      BY <1>2, <2>2, <3>1, <3>2 DEF LaneBegin, Typed, TypeOK
    <3>4. /\ q.active = p.active + 1 /\ q.outcomes = p.outcomes
          /\ q.succeeded = p.succeeded /\ q.failed = p.failed
      BY <3>2 DEF Progress
    <3>5. lane'[o][l].pc = "run" /\ lane'[o][l].item = r.item
      <4>1. PICK b : b = [r EXCEPT !.pc = "run"]
        OBVIOUS
      <4>2. SetLane(o, l, b)
        BY <1>2, <1>r, <2>2, <4>1 DEF LaneBegin
      <4>3. b.pc = "run" /\ b.item = r.item
        BY <4>1 DEF Lane
      <4> QED BY <1>s, <4>2, <4>3
    <3> QED BY <1>d, <1>r, <2>1, <3>1, <3>3, <3>4, <3>5 DEF Carries
  <2>3. CASE ~(o \in retained /\ state[o] = "running" /\ ~cancellation[o])
    <3>1. progress' = progress /\ lane'[o][l].pc = "exit"
      BY <1>2, <1>p, <1>r, <1>s, <2>3 DEF LaneBegin
    <3>2. cancellation[o]
      BY <1>k, <2>3
    <3> QED BY <1>d, <1>r, <2>1, <3>1, <3>2 DEF Returns
  <2> QED BY <2>2, <2>3
<1>3. CASE LaneRun(o, l) \/ LaneDecide(o, l)
  <2>1. /\ r.pc \in {"run", "staged"} /\ next' = next /\ committed' = committed
        /\ progress' = progress
    BY <1>3, <1>r DEF LaneRun, LaneDecide
  <2>2. \/ \E pc \in {"staged", "commit"} : SetLane(o, l, [r EXCEPT !.pc = pc])
        \/ \E result \in {"failed", "cancelled"} :
             SetLane(o, l, [r EXCEPT !.pc = "finish", !.result = result])
    BY <1>3, <1>r DEF LaneRun, LaneDecide
  <2>a. ASSUME NEW pc \in {"staged", "commit"}, SetLane(o, l, [r EXCEPT !.pc = pc])
        PROVE  lane'[o][l].item = r.item /\ lane'[o][l].pc \in {"staged", "commit"}
    <3>1. PICK s : s = [r EXCEPT !.pc = pc]
      OBVIOUS
    <3>2. s.pc = pc /\ s.item = r.item
      BY <3>1 DEF Lane
    <3> QED BY <1>s, <2>a, <3>1, <3>2
  <2>b. ASSUME NEW result \in {"failed", "cancelled"},
               SetLane(o, l, [r EXCEPT !.pc = "finish", !.result = result])
        PROVE  /\ lane'[o][l].item = r.item /\ lane'[o][l].pc = "finish"
               /\ lane'[o][l].result # "ok"
    <3>1. PICK s : s = [r EXCEPT !.pc = "finish", !.result = result]
      OBVIOUS
    <3>2. s.pc = "finish" /\ s.item = r.item /\ s.result = result
      BY <3>1 DEF Lane
    <3> QED BY <1>s, <2>b, <3>1, <3>2
  <2>3. /\ lane'[o][l].item = r.item
        /\ \/ lane'[o][l].pc \in {"staged", "commit"}
           \/ lane'[o][l].pc = "finish" /\ lane'[o][l].result # "ok"
    BY <2>2, <2>a, <2>b
  <2> QED BY <1>d, <1>r, <2>1, <2>3 DEF Carries
<1>4. CASE LaneCommit(o, l)
  <2>1. r.pc = "commit" /\ next' = next /\ progress' = progress
    BY <1>4, <1>r DEF LaneCommit
  <2>a. PICK ok : ok = [r EXCEPT !.pc = "finish", !.result = "ok"]
    OBVIOUS
  <2>b. PICK failed : failed = [r EXCEPT !.pc = "finish", !.result = "failed"]
    OBVIOUS
  <2>c. /\ ok.pc = "finish" /\ ok.item = r.item /\ ok.result = "ok"
        /\ failed.pc = "finish" /\ failed.item = r.item /\ failed.result = "failed"
    BY <2>a, <2>b DEF Lane
  <2>2. \/ SetLane(o, l, ok) /\ committed'[o] = committed[o] \cup {r.item}
        \/ SetLane(o, l, failed) /\ committed'[o] = committed[o]
    BY <2>a, <2>b, <1>4, <1>r DEF LaneCommit, Typed, TypeOK
  <2>3. /\ lane'[o][l].item = r.item /\ lane'[o][l].pc = "finish"
        /\ \/ lane'[o][l].result = "ok" /\ committed'[o] = committed[o] \cup {r.item}
           \/ lane'[o][l].result = "failed" /\ committed'[o] = committed[o]
    BY <1>s, <2>2, <2>c
  <2> QED BY <1>d, <1>r, <2>1, <2>3 DEF Carries
<1>5. CASE LaneFinish(o, l)
  <2>1. r.pc = "finish" /\ next' = next /\ committed' = committed
    BY <1>5, <1>r DEF LaneFinish
  <2>2. lane'[o][l].pc = "fetch"
    BY <1>5, <1>p, <1>r, <1>s DEF LaneFinish
  <2>3. PICK i \in 1 .. ItemCount : i = r.item
    BY DEF Lane
  <2>4. PICK q \in Seq(Outcome) : q = progress[o].outcomes
    BY ItemsTyped
  <2>5. ASSUME NEW s \in {"succeeded", "failed"},
               progress'[o].outcomes = Append(q, [item |-> i, status |-> s])
        PROVE  /\ s = "succeeded" => Done(o)' = Done(o) \cup {i} /\ Missed(o)' = Missed(o)
               /\ s = "failed" => Done(o)' = Done(o) /\ Missed(o)' = Missed(o) \cup {i}
    <3>a. PICK e : e = [item |-> i, status |-> s]
      OBVIOUS
    <3>1. e \in Outcome /\ e.item = i /\ e.status = s
      BY <3>a DEF Outcome
    <3>2. \A u : ItemsOf(progress'[o].outcomes, u) =
                  IF s = u THEN ItemsOf(q, u) \cup {i} ELSE ItemsOf(q, u)
      <4>1. progress'[o].outcomes = Append(q, e)
        BY <2>5, <3>a
      <4> QED BY <3>1, <4>1, ItemsAppend
    <3>3. /\ Done(o)' = ItemsOf(progress'[o].outcomes, "succeeded")
          /\ Missed(o)' = ItemsOf(progress'[o].outcomes, "failed")
          /\ Done(o) = ItemsOf(q, "succeeded") /\ Missed(o) = ItemsOf(q, "failed")
      BY <2>4 DEF Done, Missed, ItemsOf
    <3> QED BY <3>2, <3>3
  <2>6. cancellation[o] \in BOOLEAN
    BY DEF Typed, TypeOK
  <2>a. CASE r.result = "ok"
    BY <1>5, <1>r, <2>1, <2>2, <2>3, <2>4, <2>5, <2>a, FinishFields DEF Reports
  <2>b. CASE r.result # "ok" /\ ~cancellation[o]
    BY <1>5, <1>r, <2>1, <2>2, <2>3, <2>4, <2>5, <2>b, FinishFields DEF Reports
  <2>c. CASE r.result # "ok" /\ cancellation[o]
    BY <1>5, <1>d, <1>r, <2>1, <2>2, <2>c, FinishFields DEF Reports
  <2> QED BY <2>a, <2>b, <2>c
<1> QED BY <1>1, <1>2, <1>3, <1>4, <1>5 DEF LaneStep

LEMMA LanesFinite ==
  ASSUME NEW o \in Ops
  PROVE  IsFiniteSet(InFlight(o)) /\ IsFiniteSet(InFlight(o)')
<1>1. InFlight(o) \in SUBSET Lanes /\ InFlight(o)' \in SUBSET Lanes
  BY DEF InFlight
<1> QED BY <1>1, LaneAssumption, FS_Subset

LEMMA LaneFetched ==
  ASSUME Typed, Control, NEW o \in Ops, NEW l \in Lanes, LaneStep(o, l), Fetched(o)
  PROVE  Fetched(o)'
<1>f. \A k \in Lanes : k # l => lane'[o][k] = lane[o][k]
  BY LaneFrame
<1>t. next[o] \in Nat /\ Reported(o) \subseteq Nat /\ \A k \in Lanes : lane[o][k].item \in Nat
  <2>1. Reported(o) \subseteq 1 .. ItemCount
    BY ItemsTyped DEF Reported
  <2>2. \A k \in Lanes : lane[o][k].item \in 1 .. ItemCount
    BY DEF Typed, TypeOK, Lane
  <2> QED BY <2>1, <2>2, ShapeAssumption DEF Typed, TypeOK
<1>1. CASE Takes(o, l)
  <2>1. Carrying(o)' = Carrying(o) \cup {l} /\ l \notin Carrying(o)
    BY <1>f, <1>1 DEF Takes, Carrying
  <2>2. Reported(o)' = Reported(o) /\ Done(o)' \cap Missed(o)' = Done(o) \cap Missed(o)
    BY <1>1 DEF Takes, Reported
  <2>3. lane'[o][l].item = next[o] /\ next'[o] = next[o] + 1
    BY <1>1 DEF Takes
  <2>4. \A k \in Carrying(o) : lane'[o][k] = lane[o][k]
    BY <1>f, <2>1 DEF Carrying
  <2>5. ASSUME NEW k \in Carrying(o)'
        PROVE  /\ lane'[o][k].item < next'[o] /\ lane'[o][k].item \notin Reported(o)'
               /\ \A j \in Carrying(o)' : j # k => lane'[o][j].item # lane'[o][k].item
    <3>1. CASE k = l
      BY <1>t, <2>1, <2>2, <2>3, <2>4, <3>1 DEF Fetched
    <3>2. CASE k # l
      <4>1. k \in Carrying(o) /\ k \in Lanes
        BY <2>1, <3>2 DEF Carrying
      <4>2. lane'[o][k].item < next[o] /\ lane'[o][k].item \notin Reported(o)
        BY <2>4, <4>1 DEF Fetched
      <4> QED BY <1>t, <2>1, <2>2, <2>3, <2>4, <4>1, <4>2 DEF Fetched
    <3> QED BY <3>1, <3>2
  <2> QED BY <1>t, <2>2, <2>3, <2>5 DEF Fetched
<1>2. CASE Returns(o, l)
  <2>1. Carrying(o)' \subseteq Carrying(o) /\ l \notin Carrying(o)'
    BY <1>f, <1>2 DEF Returns, Carrying
  <2>2. Reported(o)' = Reported(o) /\ Done(o)' \cap Missed(o)' = Done(o) \cap Missed(o)
    BY <1>2 DEF Returns, Reported
  <2>3. next'[o] = next[o] \/ next'[o] = next[o] + 1
    BY <1>2 DEF Returns
  <2>4. \A k \in Carrying(o)' : lane'[o][k] = lane[o][k] /\ lane[o][k].item \in Nat
    BY <1>f, <1>t, <2>1 DEF Carrying
  <2> QED BY <1>t, <2>1, <2>2, <2>3, <2>4 DEF Fetched
<1>3. CASE Carries(o, l)
  <2>1. Carrying(o)' = Carrying(o)
    BY <1>f, <1>3 DEF Carries, Carrying
  <2>2. Reported(o)' = Reported(o) /\ Done(o)' \cap Missed(o)' = Done(o) \cap Missed(o)
    BY <1>3 DEF Carries, Reported
  <2>3. next'[o] = next[o]
    BY <1>3 DEF Carries
  <2>4. \A k \in Lanes : lane'[o][k].item = lane[o][k].item
    BY <1>f, <1>3 DEF Carries
  <2> QED BY <2>1, <2>2, <2>3, <2>4 DEF Fetched, Carrying
<1>4. CASE Reports(o, l)
  <2>1. Carrying(o)' = Carrying(o) \ {l} /\ l \in Carrying(o)
    BY <1>f, <1>4 DEF Reports, Carrying
  <2>2. \/ Done(o)' = Done(o) /\ Missed(o)' = Missed(o)
        \/ Done(o)' = Done(o) \cup {lane[o][l].item} /\ Missed(o)' = Missed(o)
        \/ Done(o)' = Done(o) /\ Missed(o)' = Missed(o) \cup {lane[o][l].item}
    BY <1>4 DEF Reports
  <2>3. next'[o] = next[o]
    BY <1>4 DEF Reports
  <2>4. \A k \in Carrying(o)' : lane'[o][k] = lane[o][k]
    BY <1>f, <2>1 DEF Carrying
  <2>5. Reported(o)' \subseteq Reported(o) \cup {lane[o][l].item}
    BY <2>2 DEF Reported
  <2>6. lane[o][l].item < next[o] /\ lane[o][l].item \notin Reported(o)
    BY <2>1 DEF Fetched
  <2>7. Done(o)' \cap Missed(o)' = {}
    BY <2>2, <2>6 DEF Fetched, Reported
  <2>8. \A n \in Reported(o)' : n < next'[o]
    BY <2>3, <2>5, <2>6 DEF Fetched
  <2>9. ASSUME NEW k \in Carrying(o)'
        PROVE  /\ lane'[o][k].item < next'[o] /\ lane'[o][k].item \notin Reported(o)'
               /\ \A j \in Carrying(o)' : j # k => lane'[o][j].item # lane'[o][k].item
    <3>1. k \in Carrying(o) /\ k # l /\ lane[o][k].item # lane[o][l].item
      BY <2>1 DEF Fetched
    <3> QED BY <2>1, <2>3, <2>4, <2>5, <3>1 DEF Fetched
  <2> QED BY <2>7, <2>8, <2>9 DEF Fetched
<1> QED BY <1>1, <1>2, <1>3, <1>4, LaneEffects

LEMMA LaneComplete ==
  ASSUME Typed, Control, NEW o \in BatchOps, NEW l \in Lanes, LaneStep(o, l), Complete(o)
  PROVE  Complete(o)'
<1>o. o \in Ops
  BY ShapeAssumption
<1>f. /\ UNCHANGED <<state, worker, cancellation>>
      /\ \A k \in Lanes : k # l => lane'[o][k] = lane[o][k]
  BY <1>o, LaneFrame
<1>t. next[o] \in Nat /\ ItemCount \in Nat
  BY <1>o, ShapeAssumption DEF Typed, TypeOK
<1>1. CASE Takes(o, l)
  <2>1. /\ Carrying(o)' = Carrying(o) \cup {l} /\ Reported(o)' = Reported(o)
        /\ lane'[o][l].item = next[o] /\ next'[o] = next[o] + 1 /\ lane'[o][l].pc = "begin"
    BY <1>f, <1>1 DEF Takes, Carrying, Reported
  <2>2. \A k \in Carrying(o) : k = l \/ lane'[o][k] = lane[o][k]
    BY <1>f DEF Carrying
  <2>3. \A k \in Carrying(o) : k # l
    BY <1>1 DEF Takes, Carrying
  <2>4. ASSUME NEW n \in 1 .. ItemCount, n < next'[o], ~cancellation[o]
        PROVE  n \in Reported(o)' \/ \E k \in Carrying(o)' : lane'[o][k].item = n
    <3>1. CASE n = next[o]
      BY <2>1, <3>1
    <3>2. CASE n < next[o]
      BY <2>1, <2>2, <2>3, <2>4, <3>2 DEF Complete
    <3> QED BY <1>t, <2>1, <2>4, <3>1, <3>2
  <2>5. \A k \in Lanes : lane'[o][k].pc = "exit" => lane[o][k].pc = "exit"
    BY <1>f, <2>1
  <2>6. next[o] > ItemCount => next'[o] > ItemCount
    BY <1>t, <2>1
  <2> QED BY <1>f, <2>1, <2>4, <2>5, <2>6 DEF Complete
<1>2. CASE Returns(o, l)
  <2>1. \A k \in Carrying(o) : lane[o][k].pc # "begin" /\ k = l => FALSE
    BY <1>2 DEF Returns, Carrying
  <2>2. Reported(o)' = Reported(o)
    BY <1>2 DEF Returns, Reported
  <2>3. CASE cancellation[o]
    BY <1>f, <2>2, <2>3 DEF Complete
  <2>4. CASE ~cancellation[o]
    <3>1. next'[o] = next[o] + 1 /\ next[o] > ItemCount /\ lane[o][l].pc = "fetch"
      BY <1>2, <2>4 DEF Returns
    <3>2. Carrying(o)' = Carrying(o) /\ \A k \in Carrying(o) : lane'[o][k] = lane[o][k]
      BY <1>2, <1>f, <3>1 DEF Returns, Carrying
    <3> QED BY <1>f, <1>t, <2>2, <3>1, <3>2 DEF Complete
  <2> QED BY <2>3, <2>4
<1>3. CASE Carries(o, l)
  <2>1. /\ Carrying(o)' = Carrying(o) /\ Reported(o)' = Reported(o) /\ next'[o] = next[o]
        /\ lane'[o][l].pc # "exit"
    BY <1>f, <1>3 DEF Carries, Carrying, Reported
  <2>2. \A k \in Lanes : lane'[o][k].item = lane[o][k].item
    BY <1>f, <1>3 DEF Carries
  <2> QED BY <1>f, <2>1, <2>2 DEF Complete, Carrying
<1>4. CASE Reports(o, l)
  <2>1. /\ Carrying(o)' = Carrying(o) \ {l} /\ next'[o] = next[o] /\ lane'[o][l].pc # "exit"
    BY <1>f, <1>4 DEF Reports, Carrying
  <2>2. Reported(o) \subseteq Reported(o)'
    BY <1>4 DEF Reports, Reported
  <2>3. ~cancellation[o] => lane[o][l].item \in Reported(o)'
    BY <1>4 DEF Reports, Reported
  <2>4. \A k \in Carrying(o)' : lane'[o][k] = lane[o][k]
    BY <1>f, <2>1 DEF Carrying
  <2>5. ASSUME NEW n \in 1 .. ItemCount, n < next'[o], ~cancellation[o]
        PROVE  n \in Reported(o)' \/ \E k \in Carrying(o)' : lane'[o][k].item = n
    BY <2>1, <2>2, <2>3, <2>4, <2>5 DEF Complete
  <2> QED BY <1>f, <2>1, <2>2, <2>5 DEF Complete
<1> QED BY <1>1, <1>2, <1>3, <1>4, <1>o, LaneEffects

LEMMA LaneCounted ==
  ASSUME Typed, Control, NEW o \in Ops, NEW l \in Lanes, LaneStep(o, l), Fetched(o), Counted(o)
  PROVE  Counted(o)'
<1>f. \A k \in Lanes : k # l => lane'[o][k] = lane[o][k]
  BY LaneFrame
<1>t. progress[o].active \in Int
  BY DEF Typed, TypeOK, Progress
<1>1. CASE Takes(o, l) \/ Returns(o, l)
  <2>1. InFlight(o)' = InFlight(o)
    BY <1>f, <1>1 DEF Takes, Returns, InFlight
  <2> QED BY <1>1, <2>1 DEF Takes, Returns, Counted
<1>2. CASE Carries(o, l)
  <2>1. /\ Done(o)' = Done(o) /\ Missed(o)' = Missed(o)
        /\ progress'[o].succeeded = progress[o].succeeded
        /\ progress'[o].failed = progress[o].failed
    BY <1>2 DEF Carries
  <2>2. progress'[o].active = Cardinality(InFlight(o)')
    <3>1. CASE lane[o][l].pc = "begin"
      <4>1. InFlight(o)' = InFlight(o) \cup {l} /\ l \notin InFlight(o)
        BY <1>f, <1>2, <3>1 DEF Carries, InFlight
      <4>2. Cardinality(InFlight(o)') = Cardinality(InFlight(o)) + 1
        BY <4>1, LanesFinite, FS_AddElement
      <4> QED BY <1>2, <3>1, <4>2 DEF Carries, Counted
    <3>2. CASE lane[o][l].pc # "begin"
      <4>1. InFlight(o)' = InFlight(o)
        BY <1>f, <1>2, <3>2 DEF Carries, InFlight
      <4> QED BY <1>2, <3>2, <4>1 DEF Carries, Counted
    <3> QED BY <3>1, <3>2
  <2> QED BY <2>1, <2>2 DEF Counted
<1>3. CASE Reports(o, l)
  <2>1. InFlight(o)' = InFlight(o) \ {l} /\ l \in InFlight(o)
    BY <1>f, <1>3 DEF Reports, InFlight
  <2>2. Cardinality(InFlight(o)') = Cardinality(InFlight(o)) - 1
    BY <2>1, LanesFinite, FS_RemoveElement
  <2>3. progress'[o].active = Cardinality(InFlight(o)')
    BY <1>3, <2>2 DEF Reports, Counted
  <2>4. lane[o][l].item \notin Done(o) /\ lane[o][l].item \notin Missed(o)
    BY <1>3 DEF Reports, Fetched, Carrying, Reported
  <2>5. /\ Cardinality(Done(o) \cup {lane[o][l].item}) = Cardinality(Done(o)) + 1
        /\ Cardinality(Missed(o) \cup {lane[o][l].item}) = Cardinality(Missed(o)) + 1
    BY <2>4, ItemsTyped, FS_AddElement
  <2>6. /\ progress'[o].succeeded = Cardinality(Done(o)')
        /\ progress'[o].failed = Cardinality(Missed(o)')
    BY <1>3, <2>5 DEF Reports, Counted
  <2> QED BY <2>3, <2>6 DEF Counted
<1> QED BY <1>1, <1>2, <1>3, LaneEffects

LEMMA LanePublished ==
  ASSUME Typed, Control, NEW o \in Ops, NEW l \in Lanes, LaneStep(o, l), Published(o)
  PROVE  Published(o)'
<1>f. \A k \in Lanes : k # l => lane'[o][k] = lane[o][k]
  BY LaneFrame
<1>1. CASE Takes(o, l) \/ Returns(o, l)
  <2>1. /\ Publishing(o)' = Publishing(o) /\ Done(o)' = Done(o) /\ committed'[o] = committed[o]
        /\ l \notin Publishing(o)
    BY <1>f, <1>1 DEF Takes, Returns, Publishing
  <2>2. \A k \in Publishing(o) : lane'[o][k] = lane[o][k]
    BY <1>f, <2>1 DEF Publishing
  <2> QED BY <2>1, <2>2 DEF Published
<1>2. CASE Carries(o, l)
  <2>1. Done(o)' = Done(o) /\ l \notin Publishing(o)
    BY <1>2 DEF Carries, Publishing
  <2>2. \A k \in Publishing(o) : lane'[o][k] = lane[o][k]
    BY <1>f, <2>1 DEF Publishing
  <2>3. CASE lane'[o][l].pc = "finish" /\ lane'[o][l].result = "ok"
    <3>1. Publishing(o)' = Publishing(o) \cup {l}
      BY <1>f, <2>3 DEF Publishing
    <3>2. committed'[o] = committed[o] \cup {lane[o][l].item} /\ lane'[o][l].item = lane[o][l].item
      BY <1>2, <2>3 DEF Carries
    <3> QED BY <2>1, <2>2, <3>1, <3>2 DEF Published
  <2>4. CASE ~(lane'[o][l].pc = "finish" /\ lane'[o][l].result = "ok")
    <3>1. Publishing(o)' = Publishing(o)
      BY <1>f, <2>1, <2>4 DEF Publishing
    <3>2. committed'[o] = committed[o]
      BY <1>2, <2>4 DEF Carries
    <3> QED BY <2>1, <2>2, <3>1, <3>2 DEF Published
  <2> QED BY <2>3, <2>4
<1>3. CASE Reports(o, l)
  <2>1. committed'[o] = committed[o] /\ Publishing(o)' = Publishing(o) \ {l}
    BY <1>f, <1>3 DEF Reports, Publishing
  <2>2. \A k \in Publishing(o)' : lane'[o][k] = lane[o][k]
    BY <1>f, <2>1 DEF Publishing
  <2>3. CASE lane[o][l].result = "ok"
    <3>1. Done(o)' = Done(o) \cup {lane[o][l].item} /\ l \in Publishing(o)
      BY <1>3, <2>3 DEF Reports, Publishing
    <3> QED BY <2>1, <2>2, <3>1 DEF Published
  <2>4. CASE lane[o][l].result # "ok"
    <3>1. Done(o)' = Done(o) /\ l \notin Publishing(o)
      BY <1>3, <2>4 DEF Reports, Publishing
    <3> QED BY <2>1, <2>2, <3>1 DEF Published
  <2> QED BY <2>3, <2>4
<1> QED BY <1>1, <1>2, <1>3, LaneEffects

-----------------------------------------------------------------------------
\* What any other step leaves of the books of a Batch: its items and counters
\* stay, and its threads stay where they are unless none of them works.
Rests(o) ==
  /\ next'[o] = next[o] /\ committed'[o] = committed[o]
  /\ Done(o)' = Done(o) /\ Missed(o)' = Missed(o)
  /\ progress'[o].succeeded = progress[o].succeeded /\ progress'[o].failed = progress[o].failed
  /\ \/ /\ \A l \in Lanes : lane'[o][l] = lane[o][l]
        /\ progress'[o].active = progress[o].active
     \/ /\ \A l \in Lanes : lane[o][l].pc = "exit" /\ lane'[o][l].pc \in {"exit", "fetch"}
        /\ progress'[o].active \in {progress[o].active, 0}

\* A step starts or ends a Batch, takes no cancellation back, and only a Batch
\* that is not cancelled succeeds.
Advances(o) ==
  /\ ~cancellation'[o] => ~cancellation[o]
  /\ worker'[o] \in {"join", "finishSucceeded"} =>
       \/ worker[o] \in {"join", "finishSucceeded"}
       \/ \A l \in Lanes : lane'[o][l].pc = "fetch"
  /\ state'[o] = "succeeded" =>
       state[o] = "succeeded" \/ (worker[o] = "finishSucceeded" /\ ~cancellation[o])

\* A step that leaves the record of an operation alone leaves its books alone.
LEMMA RecordRests ==
  ASSUME NEW o \in Ops, next'[o] = next[o], committed'[o] = committed[o],
         progress'[o] = progress[o], \A l \in Lanes : lane'[o][l] = lane[o][l]
  PROVE  Rests(o)
<1>1. Done(o)' = Done(o) /\ Missed(o)' = Missed(o)
  BY DEF Done, Missed
<1> QED BY <1>1 DEF Rests

\* Settling an operation whose threads have returned leaves its books alone.
LEMMA SettleRests ==
  ASSUME Typed, Control, NEW o \in Ops, NEW p \in Ops, NEW final,
         Settle(p, final) \/ UNCHANGED operations,
         worker[p] # "join", UNCHANGED <<next, committed, lane>>
  PROVE  Rests(o)
<1>1. PICK r \in Progress : r = progress[o]
  BY DEF Typed, TypeOK
<1>2. PICK q : q = [r EXCEPT !.active = 0]
  OBVIOUS
<1>3. /\ q.active = 0 /\ q.outcomes = r.outcomes
      /\ q.succeeded = r.succeeded /\ q.failed = r.failed
  BY <1>2 DEF Progress
<1>4. CASE progress'[o] = progress[o]
  BY <1>4, RecordRests
<1>5. CASE progress'[o] # progress[o]
  <2>1. p = o /\ progress'[o] = q
    <3>1. progress' = [progress EXCEPT ![p].active = 0]
      BY <1>5 DEF Settle
    <3>2. p = o
      BY <1>5, <3>1 DEF Typed, TypeOK
    <3> QED BY <1>1, <1>2, <3>1, <3>2 DEF Typed, TypeOK
  <2>2. \A l \in Lanes : lane[o][l].pc = "exit"
    BY <2>1 DEF Control, Course, CourseOf
  <2>3. Done(o)' = Done(o) /\ Missed(o)' = Missed(o)
    BY <1>1, <1>3, <2>1 DEF Done, Missed
  <2> QED BY <1>1, <1>3, <2>1, <2>2, <2>3 DEF Rests
<1> QED BY <1>4, <1>5

LEMMA SubmitRests ==
  ASSUME Typed, Control, NEW o \in Ops, Submit
  PROVE  Rests(o) /\ Advances(o)
<1>1. ASSUME NEW p \in Ops, SubmitAccept(p) PROVE Rests(o) /\ Advances(o)
  <2>1. UNCHANGED <<progress, next, committed, lane, cancellation>>
    BY <1>1 DEF SubmitAccept
  <2>2. /\ worker'[o] = worker[o] \/ worker'[o] = "blocked"
        /\ state'[o] = state[o] \/ state'[o] = "queued"
    BY <1>1 DEF SubmitAccept, Typed, TypeOK
  <2> QED BY <2>1, <2>2, RecordRests DEF Advances
<1>2. CASE SubmitRefused \/ SubmitRegister \/ SubmitRetain
  <2>1. UNCHANGED <<progress, next, committed, lane, cancellation, worker, state>>
    BY <1>2 DEF SubmitRefused, SubmitRegister, SubmitRetain
  <2> QED BY <2>1, RecordRests DEF Advances
<1>3. CASE SubmitStart
  <2>1. UNCHANGED <<progress, next, committed, lane, cancellation, state>>
    BY <1>3 DEF SubmitStart
  <2>2. worker'[o] = worker[o] \/ worker'[o] = "execute"
    BY <1>3 DEF SubmitStart, Typed, TypeOK
  <2> QED BY <2>1, <2>2, RecordRests DEF Advances
<1>4. CASE SubmitStartFails
  <2>1. PICK p \in Ops : p = submission.op
    BY <1>4 DEF SubmitStartFails, Typed, Named
  <2>2. /\ UNCHANGED <<next, committed, lane, cancellation>>
        /\ worker' = [worker EXCEPT ![p] = "exit"]
        /\ Settle(p, "failed") \/ UNCHANGED operations
        /\ worker[p] # "join"
    BY <1>4, <2>1 DEF SubmitStartFails, Failed, Control, Submitting
  <2>3. Rests(o)
    BY <2>2, SettleRests
  <2>4. /\ worker'[o] = worker[o] \/ worker'[o] = "exit"
        /\ state'[o] = state[o] \/ state'[o] = "failed"
    BY <2>2 DEF Settle, Typed, TypeOK
  <2> QED BY <2>2, <2>3, <2>4 DEF Advances
<1> QED BY <1>1, <1>2, <1>3, <1>4 DEF Submit, SubmitStep

LEMMA WorkerRests ==
  ASSUME Typed, Control, NEW o \in BatchOps, NEW p \in Ops, WorkerStep(p)
  PROVE  Rests(o) /\ Advances(o)
<1>o. o \in Ops /\ CourseOf(o)
  BY ShapeAssumption DEF Control, Course
<1>f. UNCHANGED <<next, cancellation>>
  BY WorkerFrame
<1>1. CASE p # o
  <2>1. /\ state'[o] = state[o] /\ worker'[o] = worker[o] /\ committed'[o] = committed[o]
        /\ progress'[o] = progress[o] /\ lane'[o] = lane[o]
    BY <1>o, <1>1, WorkerFrame
  <2> QED BY <1>o, <1>f, <2>1, RecordRests DEF Advances
<1>2. CASE p = o
  <2>1. CASE Execute(o)
    <3>1. UNCHANGED <<progress, committed>>
      BY <2>1 DEF Execute
    <3>2. \A l \in Lanes : lane[o][l].pc = "exit"
      BY <1>o, <2>1 DEF Execute, CourseOf
    <3>3. Done(o)' = Done(o) /\ Missed(o)' = Missed(o)
      BY <3>1 DEF Done, Missed
    <3>4. CASE StillQueued(o)
      <4>1. state'[o] = "running" /\ lane'[o] = [l \in Lanes |-> [lane[o][l] EXCEPT !.pc = "fetch"]]
        BY <1>o, <2>1, <3>4 DEF Execute, Typed, TypeOK
      <4>2. \A l \in Lanes : lane'[o][l].pc = "fetch"
        BY <1>o, <4>1 DEF Typed, TypeOK, Lane
      <4> QED BY <1>f, <3>1, <3>2, <3>3, <4>1, <4>2 DEF Rests, Advances
    <3>5. CASE ~StillQueued(o)
      <4>1. worker'[o] = "exit" /\ UNCHANGED <<state, lane>>
        BY <1>o, <2>1, <3>5 DEF Execute, Typed, TypeOK
      <4> QED BY <1>o, <1>f, <3>1, <4>1, RecordRests DEF Advances
    <3> QED BY <3>4, <3>5
  <2>2. CASE SingleTake(o) \/ SingleRun(o) \/ SingleDecide(o) \/ SingleCommit(o) \/ SingleSucceed(o)
    BY <1>o, <2>2 DEF SingleTake, SingleRun, SingleDecide, SingleCommit, SingleSucceed, CourseOf
  <2>3. CASE FinishFailed(o) \/ FinishCancelled(o)
    <3>1. /\ UNCHANGED <<committed, lane>> /\ worker[o] # "join"
          /\ \E final \in {"failed", "cancelled"} : Settle(o, final) \/ UNCHANGED operations
      BY <2>3 DEF FinishFailed, FinishCancelled, Failed
    <3>2. worker'[o] \in {"exit", "retain"}
      BY <1>o, <2>3 DEF FinishFailed, FinishCancelled, AfterFinish, Typed, TypeOK
    <3>3. state'[o] = state[o] \/ state'[o] \in {"failed", "cancelled"}
      BY <1>o, <3>1 DEF Settle, Typed, TypeOK
    <3>4. Rests(o)
      BY <1>o, <1>f, <3>1, SettleRests
    <3> QED BY <1>f, <3>2, <3>3, <3>4 DEF Advances
  <2>4. CASE WorkerRetain(o)
    <3>1. worker'[o] = "exit" /\ UNCHANGED <<progress, committed, lane, state>>
      BY <1>o, <2>4 DEF WorkerRetain, Typed, TypeOK
    <3> QED BY <1>o, <1>f, <3>1, RecordRests DEF Advances
  <2>5. CASE BatchDecide(o)
    <3>1. worker[o] = "join" /\ UNCHANGED <<progress, committed, lane, state>>
      BY <2>5 DEF BatchDecide
    <3> QED BY <1>o, <1>f, <3>1, RecordRests DEF Advances
  <2>6. CASE FinishSucceeded(o)
    <3>1. worker[o] = "finishSucceeded" /\ UNCHANGED <<progress, committed, lane>>
      BY <2>6 DEF FinishSucceeded
    <3>2. worker'[o] \in {"exit", "retain"}
      BY <1>o, <2>6 DEF FinishSucceeded, Typed, TypeOK
    <3>3. state'[o] = state[o] \/ state[o] = "running"
      BY <2>6 DEF FinishSucceeded
    <3>4. state[o] = "running" => ~cancellation[o]
      BY <1>o DEF CourseOf
    <3> QED BY <1>o, <1>f, <3>1, <3>2, <3>3, <3>4, RecordRests DEF Advances
  <2> QED BY <1>2, <2>1, <2>2, <2>3, <2>4, <2>5, <2>6 DEF WorkerStep
<1> QED BY <1>1, <1>2

LEMMA OtherRests ==
  ASSUME Typed, Control, NEW o \in Ops,
         \/ Elsewhere
         \/ \E p \in Ops \ {o}, l \in Lanes : LaneStep(p, l)
         \/ \E c \in Callers : CancelStep(c)
  PROVE  Rests(o) /\ Advances(o)
<1>1. CASE Elsewhere
  BY <1>1, ElsewhereFrame, RecordRests DEF Advances
<1>2. ASSUME NEW p \in Ops \ {o}, NEW l \in Lanes, LaneStep(p, l)
      PROVE  Rests(o) /\ Advances(o)
  <2>1. /\ UNCHANGED <<state, worker, cancellation>>
        /\ committed'[o] = committed[o] /\ progress'[o] = progress[o] /\ next'[o] = next[o]
        /\ \A k \in Lanes : lane'[o][k] = lane[o][k]
    BY <1>2, LaneFrame
  <2> QED BY <2>1, RecordRests DEF Advances
<1>3. ASSUME NEW c \in Callers, CancelStep(c) PROVE Rests(o) /\ Advances(o)
  <2>1. UNCHANGED <<progress, committed, worker, lane, next>>
    BY <1>3, CancelFrame
  <2>2. PICK p \in Ops : p = call[c].op
    BY <1>3, CancelFrame
  <2>3. /\ \/ state' = state
           \/ \E final \in {"cancelled", "cancelling"} : state' = [state EXCEPT ![p] = final]
        /\ cancellation' = cancellation \/ cancellation' = [cancellation EXCEPT ![p] = TRUE]
    BY <1>3, <2>2 DEF CancelStep, CancelQueued, CancelRunning, CancelTooLate, CancelRetain
  <2>4. state'[o] = state[o] \/ state'[o] \in {"cancelled", "cancelling"}
    BY <2>3 DEF Typed, TypeOK
  <2>5. cancellation'[o] = cancellation[o] \/ cancellation'[o] = TRUE
    BY <2>3 DEF Typed, TypeOK
  <2> QED BY <2>1, <2>4, <2>5, RecordRests DEF Advances
<1> QED BY <1>1, <1>2, <1>3

LEMMA RestKeeps ==
  ASSUME Typed, Control, NEW o \in BatchOps, Rests(o), Advances(o), BatchOf(o)
  PROVE  BatchOf(o)'
<1>o. o \in Ops /\ CourseOf(o)
  BY ShapeAssumption DEF Control, Course
<1>1. /\ Carrying(o)' = Carrying(o) /\ InFlight(o)' = InFlight(o) /\ Publishing(o)' = Publishing(o)
      /\ \A l \in Carrying(o) : lane'[o][l] = lane[o][l]
      /\ \A l \in Lanes : lane'[o][l].pc = "exit" => lane[o][l].pc = "exit"
  BY DEF Rests, Carrying, InFlight, Publishing
<1>2. Publishing(o) \subseteq Carrying(o) /\ Reported(o)' = Reported(o)
  BY DEF Rests, Publishing, Carrying, Reported
<1>3. Fetched(o)'
  BY <1>1, <1>2 DEF BatchOf, Fetched, Rests
<1>4. Complete(o)'
  <2>1. ~cancellation'[o] =>
          \A n \in 1 .. ItemCount :
            n < next'[o] => n \in Reported(o)' \/ \E l \in Carrying(o)' : lane'[o][l].item = n
    BY <1>1, <1>2 DEF BatchOf, Complete, Rests, Advances
  <2>2. worker'[o] \in {"join", "finishSucceeded"} /\ ~cancellation'[o] =>
          \A l \in Lanes : lane'[o][l].pc = "exit" => next'[o] > ItemCount
    BY <1>1 DEF BatchOf, Complete, Rests, Advances
  <2>3. ASSUME worker[o] = "finishSucceeded", ~cancellation[o]
        PROVE  1 .. ItemCount \subseteq Reported(o)
    <3>1. \A l \in Lanes : lane[o][l].pc = "exit"
      BY <1>o, <2>3 DEF CourseOf
    <3>2. PICK l \in Lanes : TRUE
      BY LaneAssumption
    <3>3. next[o] > ItemCount
      BY <2>3, <3>1, <3>2 DEF BatchOf, Complete
    <3>4. next[o] \in Nat /\ ItemCount \in Nat
      BY <1>o, ShapeAssumption DEF Typed, TypeOK
    <3>5. \A n \in 1 .. ItemCount : n < next[o]
      BY <3>3, <3>4
    <3>6. Carrying(o) = {}
      BY <3>1 DEF Carrying
    <3> QED BY <2>3, <3>5, <3>6 DEF BatchOf, Complete
  <2>4. state'[o] = "succeeded" => 1 .. ItemCount \subseteq Reported(o)'
    BY <1>2, <2>3 DEF BatchOf, Complete, Advances
  <2> QED BY <2>1, <2>2, <2>4 DEF Complete
<1>5. Counted(o)'
  <2>1. progress'[o].active = Cardinality(InFlight(o)')
    <3>1. CASE progress'[o].active = progress[o].active
      BY <1>1, <3>1 DEF BatchOf, Counted
    <3>2. CASE \A l \in Lanes : lane[o][l].pc = "exit" /\ progress'[o].active \in {progress[o].active, 0}
      <4>1. InFlight(o) = {}
        BY <3>2 DEF InFlight
      <4>2. progress[o].active = 0
        BY <4>1, FS_EmptySet DEF BatchOf, Counted
      <4> QED BY <1>1, <3>2, <4>1, <4>2, LaneAssumption, FS_EmptySet
    <3> QED BY <3>1, <3>2 DEF Rests
  <2> QED BY <2>1 DEF BatchOf, Counted, Rests
<1>6. Published(o)'
  BY <1>1, <1>2 DEF BatchOf, Published, Rests
<1> QED BY <1>3, <1>4, <1>5, <1>6 DEF BatchOf

LEMMA NextBatch ==
  ASSUME Typed, Control, BatchLedger, [Next]_vars
  PROVE  BatchLedger'
<1> SUFFICES ASSUME NEW o \in BatchOps PROVE BatchOf(o)'
  BY DEF BatchLedger
<1>o. o \in Ops /\ BatchOf(o)
  BY ShapeAssumption DEF BatchLedger
<1>1. ASSUME NEW l \in Lanes, LaneStep(o, l) PROVE BatchOf(o)'
  <2>1. Fetched(o)'
    BY <1>o, <1>1, LaneFetched DEF BatchOf
  <2>2. Complete(o)'
    BY <1>o, <1>1, LaneComplete DEF BatchOf
  <2>3. Counted(o)'
    BY <1>o, <1>1, LaneCounted DEF BatchOf
  <2>4. Published(o)'
    BY <1>o, <1>1, LanePublished DEF BatchOf
  <2> QED BY <2>1, <2>2, <2>3, <2>4 DEF BatchOf
<1>2. \/ \E l \in Lanes : LaneStep(o, l)
      \/ Rests(o) /\ Advances(o)
  <2>1. CASE Submit
    BY <1>o, <2>1, SubmitRests
  <2>2. ASSUME NEW p \in Ops, WorkerStep(p) PROVE Rests(o) /\ Advances(o)
    BY <2>2, WorkerRests
  <2>3. ASSUME NEW p \in Ops, NEW l \in Lanes, LaneStep(p, l), p # o PROVE Rests(o) /\ Advances(o)
    BY <1>o, <2>3, OtherRests
  <2>4. CASE Elsewhere \/ \E c \in Callers : CancelStep(c)
    BY <1>o, <2>4, OtherRests
  <2> QED BY <2>1, <2>2, <2>3, <2>4, NextCases
<1> QED BY <1>o, <1>1, <1>2, RestKeeps

\* The counters of a Batch agree with its threads in every reachable state, for
\* any number of threads, items and operations: execute_batch gives each item to
\* one thread, finish_item records it once, and finish_succeeded_batch finds an
\* outcome for every item.
THEOREM BatchAlwaysAccounts == Spec => []BatchAccounting
<1>1. Typed /\ Control /\ BatchLedger => BatchAccounting
  <2> SUFFICES ASSUME Typed, BatchLedger, NEW o \in BatchOps
               PROVE  /\ progress[o].active = Cardinality(InFlight(o))
                      /\ progress[o].succeeded = Cardinality(Done(o))
                      /\ progress[o].failed = Cardinality(Missed(o))
                      /\ Done(o) \cap Missed(o) = {}
                      /\ committed[o] = Done(o) \cup
                           {lane[o][l].item : l \in {k \in InFlight(o) : lane[o][k].pc = "finish"
                                                           /\ lane[o][k].result = "ok"}}
                      /\ state[o] = "succeeded" =>
                           progress[o].succeeded + progress[o].failed = ItemCount
    BY DEF BatchAccounting, InFlight, Done, Missed, ItemsOf
  <2>o. o \in Ops /\ BatchOf(o)
    BY ShapeAssumption DEF BatchLedger
  <2>1. {k \in InFlight(o) : lane[o][k].pc = "finish" /\ lane[o][k].result = "ok"} = Publishing(o)
    BY DEF InFlight, Publishing
  <2>2. ASSUME state[o] = "succeeded"
        PROVE  progress[o].succeeded + progress[o].failed = ItemCount
    <3>1. /\ Reported(o) = 1 .. ItemCount
          /\ IsFiniteSet(Done(o)) /\ IsFiniteSet(Missed(o)) /\ Done(o) \cap Missed(o) = {}
      BY <2>o, <2>2, ItemsTyped DEF BatchOf, Complete, Fetched, Reported
    <3>2. Cardinality(1 .. ItemCount) = ItemCount
      BY ShapeAssumption, FS_Interval
    <3>3. /\ Cardinality(Done(o)) \in Nat /\ Cardinality(Missed(o)) \in Nat
          /\ Cardinality(Done(o) \cap Missed(o)) = 0
      BY <3>1, FS_CardinalityType, FS_EmptySet
    <3>4. Cardinality(Reported(o)) =
            Cardinality(Done(o)) + Cardinality(Missed(o)) - Cardinality(Done(o) \cap Missed(o))
      BY <3>1, FS_Union DEF Reported
    <3> QED BY <2>o, <3>1, <3>2, <3>3, <3>4 DEF BatchOf, Counted
  <2> QED BY <2>o, <2>1, <2>2 DEF BatchOf, Counted, Fetched, Published
<1>2. Init => Typed /\ Control /\ BatchLedger
  BY InitTyped, InitControl, InitBatch
<1>3. Typed /\ Control /\ BatchLedger /\ [Next]_vars => (Typed /\ Control /\ BatchLedger)'
  BY NextTyped, NextControl, NextBatch
<1> QED BY <1>1, <1>2, <1>3, PTL DEF Spec
=============================================================================

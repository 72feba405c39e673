------------------------ MODULE ActivityStreamProofs ------------------------
(***************************************************************************)
(* The dispatch of snapshots and the Activity stream are proved correct    *)
(* for any number of threads, requests and snapshots.                      *)
(*                                                                         *)
(* The delivery of snapshots is the log that SnapshotLog promises, along   *)
(* the invariant Order: the snapshots from the due revision on are each in *)
(* one place, pending or in the hand of the thread that prepared it, and   *)
(* what the observer was given is the log below the due revision, less the *)
(* one snapshot the drainer may hold.                                      *)
(*                                                                         *)
(* A step of the stream is a step of the dispatcher or leaves it alone, so *)
(* Order holds there too.  To it the second part adds Numbered (the events *)
(* are published in the order of their numbers, and an open connection     *)
(* shows the later of its snapshot and the last event it took) and         *)
(* Finished (the record of the operation ends with the last snapshot there *)
(* will be, so no call of the observer can follow that would create a      *)
(* removed record again).                                                  *)
(***************************************************************************)
EXTENDS ActivityStream, TLAPS

\* One drainer at most, and one exactly while `draining` is set.
Claim ==
  /\ \A t, u \in Threads :
       pc[t] \in {"drain", "deliver"} /\ pc[u] \in {"drain", "deliver"} => t = u
  /\ draining <=> \E t \in Threads : pc[t] \in {"drain", "deliver"}

\* The revisions from next_revision on that were taken are each in one place.
Places ==
  /\ Len(committed) = observer_revision - 1
  /\ \A r \in pending : r \in next_revision..(observer_revision - 1)
  /\ \A t \in Threads : pc[t] = "prepared" =>
       /\ own[t] \in next_revision..(observer_revision - 1)
       /\ own[t] \notin pending
  /\ \A t, u \in Threads :
       pc[t] = "prepared" /\ pc[u] = "prepared" /\ own[t] = own[u] => t = u

\* A snapshot that is due waits only for a drainer that has still to look.
Watched == next_revision \in pending => draining

\* The observer was given the log below the due revision, except for the one
\* snapshot that the drainer may have in hand.
Given ==
  /\ \A i \in 1..Len(given) : given[i] = committed[i]
  /\ next_revision <= observer_revision
  /\ \A t \in Threads : pc[t] = "deliver" =>
       own[t] = next_revision - 1 /\ Len(given) = next_revision - 2
  /\ (\A t \in Threads : pc[t] # "deliver") => Len(given) = next_revision - 1

Order == TypeOK /\ Claim /\ Places /\ Watched /\ Given

-----------------------------------------------------------------------------
LEMMA InitOrder == Init => Order
<1> SUFFICES ASSUME Init PROVE Order
  OBVIOUS
<1> USE RevisionAssumption DEF Init
<1>1. <<>> \in Seq(Snapshots) /\ Len(<<>>) = 0
  OBVIOUS
<1>2. TypeOK
  <2>1. pc \in [Threads -> {"idle", "prepared", "drain", "deliver"}]
        /\ own \in [Threads -> Revisions \cup {None}]
    OBVIOUS
  <2>2. observer_revision \in 1..(MaxRevision + 1) /\ next_revision \in 1..(MaxRevision + 1)
    OBVIOUS
  <2>3. QED
    BY <1>1, <2>1, <2>2 DEF TypeOK
<1>3. Claim /\ Watched
  BY DEF Claim, Watched
<1>4. Places /\ Given
  BY <1>1 DEF Places, Given
<1>5. QED
  BY <1>2, <1>3, <1>4 DEF Order

LEMMA PrepareOrder ==
  ASSUME Order, NEW t \in Threads, NEW s \in Snapshots, Prepare(t, s)
  PROVE  Order'
<1> USE RevisionAssumption DEF Prepare, Revisions, None, dispatch
<1>0. TypeOK /\ Claim /\ Places /\ Watched /\ Given
  BY DEF Order
<1>1. TypeOK'
  <2>1. committed' \in Seq(Snapshots)
    BY <1>0 DEF TypeOK
  <2>2. QED
    BY <1>0, <2>1 DEF TypeOK
<1>2. Claim'
  BY <1>0 DEF Claim, TypeOK
<1>3. Places'
  <2>1. Len(committed') = observer_revision' - 1
    BY <1>0 DEF Places, TypeOK
  <2>2. \A u \in Threads :
          pc'[u] = "prepared" => (u = t /\ own'[u] = observer_revision) \/ (u # t /\ pc[u] = "prepared" /\ own'[u] = own[u])
    BY <1>0 DEF TypeOK
  <2>3. observer_revision \notin pending
        /\ \A u \in Threads : pc[u] = "prepared" => own[u] # observer_revision
    BY <1>0 DEF Places, TypeOK
  <2>4. \A r \in pending' : r \in next_revision'..(observer_revision' - 1)
    BY <1>0 DEF Places, TypeOK
  <2>5. \A u \in Threads : pc'[u] = "prepared" =>
          own'[u] \in next_revision'..(observer_revision' - 1) /\ own'[u] \notin pending'
    BY <1>0, <2>2, <2>3 DEF Places, Given, TypeOK
  <2>6. \A u, v \in Threads :
          pc'[u] = "prepared" /\ pc'[v] = "prepared" /\ own'[u] = own'[v] => u = v
    BY <1>0, <2>2, <2>3 DEF Places
  <2>7. QED
    BY <2>1, <2>4, <2>5, <2>6 DEF Places
<1>4. Watched'
  BY <1>0 DEF Watched
<1>5. Given'
  <2>1. Len(given) <= Len(committed)
    BY <1>0 DEF Places, Given, TypeOK
  <2>2. \A i \in 1..Len(given') : given'[i] = committed'[i]
    BY <1>0, <2>1 DEF Given, TypeOK
  <2>3. next_revision' <= observer_revision'
    BY <1>0 DEF Given, TypeOK
  <2>4. \A u \in Threads : (pc'[u] = "deliver") <=> (pc[u] = "deliver")
    BY <1>0 DEF TypeOK
  <2>5. \A u \in Threads : pc[u] = "deliver" => own'[u] = own[u]
    BY <1>0 DEF TypeOK
  <2>6. QED
    BY <1>0, <2>2, <2>3, <2>4, <2>5 DEF Given
<1>6. QED
  BY <1>1, <1>2, <1>3, <1>4, <1>5 DEF Order

LEMMA PublishOrder ==
  ASSUME Order, NEW t \in Threads, Publish(t)
  PROVE  Order'
<1> USE RevisionAssumption DEF Publish, Revisions, None, snapshots
<1>0. TypeOK /\ Claim /\ Places /\ Watched /\ Given
  BY DEF Order
<1>1. TypeOK'
  <2>1. own[t] \in Revisions
    BY <1>0 DEF TypeOK, Places
  <2>2. pending' \in SUBSET Revisions /\ own' \in [Threads -> Revisions \cup {None}]
    BY <1>0, <2>1 DEF TypeOK
  <2>3. pc' \in [Threads -> {"idle", "prepared", "drain", "deliver"}]
    BY <1>0 DEF TypeOK
  <2>4. QED
    BY <1>0, <2>2, <2>3 DEF TypeOK
<1>2. Claim'
  BY <1>0 DEF Claim, TypeOK
<1>3. Places'
  BY <1>0 DEF Places, TypeOK
<1>4. Watched'
  BY <1>0 DEF Watched
<1>5. Given'
  BY <1>0 DEF Given, TypeOK
<1>6. QED
  BY <1>1, <1>2, <1>3, <1>4, <1>5 DEF Order

LEMMA TakeDueOrder ==
  ASSUME Order, NEW t \in Threads, TakeDue(t)
  PROVE  Order'
<1> USE RevisionAssumption DEF TakeDue, Revisions, None, snapshots
<1>0. TypeOK /\ Claim /\ Places /\ Watched /\ Given
  BY DEF Order
<1>1. TypeOK'
  BY <1>0 DEF TypeOK, Places
<1>2. Claim'
  BY <1>0 DEF Claim, TypeOK
<1>3. Places'
  BY <1>0 DEF Places, TypeOK
<1>4. Watched'
  BY <1>0 DEF Watched, Claim
<1>5. Given'
  BY <1>0 DEF Given, Claim, Places, TypeOK
<1>6. QED
  BY <1>1, <1>2, <1>3, <1>4, <1>5 DEF Order

LEMMA TakeNothingOrder ==
  ASSUME Order, NEW t \in Threads, TakeNothing(t)
  PROVE  Order'
<1> USE RevisionAssumption DEF TakeNothing, Revisions, None, snapshots
<1>0. TypeOK /\ Claim /\ Places /\ Watched /\ Given
  BY DEF Order
<1>1. TypeOK'
  BY <1>0 DEF TypeOK
<1>2. Claim'
  BY <1>0 DEF Claim, TypeOK
<1>3. Places' /\ Watched'
  BY <1>0 DEF Places, Watched, TypeOK
<1>4. Given'
  BY <1>0 DEF Given, Claim, TypeOK
<1>5. QED
  BY <1>1, <1>2, <1>3, <1>4 DEF Order

LEMMA DeliverOrder ==
  ASSUME Order, NEW t \in Threads, Deliver(t)
  PROVE  Order'
<1> USE RevisionAssumption DEF Deliver, Revisions, None, dispatch
<1>0. TypeOK /\ Claim /\ Places /\ Watched /\ Given
  BY DEF Order
<1>1. own[t] = next_revision - 1 /\ Len(given) = own[t] - 1 /\ own[t] \in 1..Len(committed)
  BY <1>0 DEF Given, Places, TypeOK
<1>2. TypeOK'
  BY <1>0, <1>1 DEF TypeOK
<1>3. Claim'
  BY <1>0 DEF Claim, TypeOK
<1>4. Places' /\ Watched'
  BY <1>0 DEF Places, Watched, TypeOK
<1>5. Given'
  <2>1. \A u \in Threads : pc'[u] # "deliver"
    BY <1>0 DEF Claim, TypeOK
  <2>2. Len(given') = next_revision' - 1
    BY <1>0, <1>1 DEF TypeOK
  <2>3. \A i \in 1..Len(given') : given'[i] = committed'[i]
    BY <1>0, <1>1 DEF Given, TypeOK
  <2>4. QED
    BY <1>0, <2>1, <2>2, <2>3 DEF Given
<1>6. QED
  BY <1>2, <1>3, <1>4, <1>5 DEF Order

LEMMA NextOrder == Order /\ [Next]_vars => Order'
<1> SUFFICES ASSUME Order, [Next]_vars PROVE Order'
  OBVIOUS
<1>1. CASE UNCHANGED vars
  BY <1>1 DEF Order, TypeOK, Claim, Places, Watched, Given, vars, dispatch, snapshots
<1>2. CASE Next
  <2>1. PICK t \in Threads : Publishing(t) \/ \E s \in Snapshots : Prepare(t, s)
    BY <1>2 DEF Next
  <2>2. CASE \E s \in Snapshots : Prepare(t, s)
    BY <2>2, PrepareOrder
  <2>3. CASE Publishing(t)
    BY <2>3, PublishOrder, TakeDueOrder, TakeNothingOrder, DeliverOrder DEF Publishing, Take
  <2>4. QED
    BY <2>1, <2>2, <2>3
<1>3. QED
  BY <1>1, <1>2

LEMMA AlwaysOrder == Safety => []Order
BY InitOrder, NextOrder, PTL DEF Safety

-----------------------------------------------------------------------------
\* However many threads change operations, the observer is never called by
\* two of them at once (publish_observed's `draining`).
THEOREM CallsDoNotOverlap == Spec => []OneDrainer
<1>1. Order => OneDrainer
  BY DEF Order, Claim, OneDrainer, Drainers
<1>2. QED
  BY <1>1, AlwaysOrder, PTL DEF Spec

\* A snapshot whose turn it is always has a thread that will still look for
\* it (the drainer's last look and its leave are one critical section).
THEOREM DueIsWatched == Spec => []NothingStranded
<1>1. Order => NothingStranded
  BY DEF Order, Claim, Watched, NothingStranded, Drainers
<1>2. QED
  BY <1>1, AlwaysOrder, PTL DEF Spec

\* The safety half of ImplementsLog: in every behaviour the observer is given
\* the committed snapshots in the order of the commits, none twice and none
\* passed over.
THEOREM RefinesLog == Safety => Log!LogSafety
<1>1. Init => Log!LogInit
  BY DEF Init, Log!LogInit
<1>2. Order /\ [Next]_vars => [Log!LogNext]_(Log!logVars)
  <2> SUFFICES ASSUME Order, [Next]_vars PROVE [Log!LogNext]_(Log!logVars)
    OBVIOUS
  <2> USE DEF Log!LogNext, Log!logVars
  <2>1. CASE UNCHANGED vars
    BY <2>1 DEF vars, snapshots
  <2>2. ASSUME NEW t \in Threads, NEW s \in Snapshots, Prepare(t, s)
        PROVE  Log!Commit(s)
    BY <2>2, RevisionAssumption DEF Prepare, Log!Commit, Order, TypeOK, Places
  <2>3. ASSUME NEW t \in Threads, Publish(t) \/ Take(t)
        PROVE  UNCHANGED Log!logVars
    BY <2>3 DEF Publish, Take, TakeDue, TakeNothing, snapshots
  <2>4. ASSUME NEW t \in Threads, Deliver(t)
        PROVE  Log!Observe
    <3>1. own[t] = Len(given) + 1 /\ Len(given) < Len(committed)
      BY <2>4 DEF Deliver, Order, Given, Places, TypeOK, Revisions, None
    <3>2. QED
      BY <2>4, <3>1 DEF Deliver, Log!Observe
  <2>5. QED
    BY <2>1, <2>2, <2>3, <2>4 DEF Next, Publishing
<1>3. QED
  BY <1>1, <1>2, AlwaysOrder, PTL DEF Safety, Log!LogSafety

-----------------------------------------------------------------------------
\* The Activity stream, over the dispatcher.

Actors == Threads \cup Callers

\* The types of what the stream adds to the dispatcher.
StreamTyped ==
  /\ revision \in Nat
  /\ records \in [Ids -> Snapshots \cup {"none", "running", "done"}]
  /\ due \in [Actors -> Nat]
  /\ sent \in Seq(Nat)
  /\ call \in [Callers -> {"idle", "start", "transfer", "publish", "end"}]
  /\ tab \in {"off", "subscribed", "open", "ended", "broken"}
  /\ cursor \in Nat /\ synced \in Nat /\ shown \in Nat
  /\ removed \in SUBSET Ids

\* The channel carries 1, 2, 3, ..., never more than the records have seen, and a
\* Workbench shows the later of its snapshot and the last event it was given.
Numbered ==
  /\ \A i \in 1..Len(sent) : sent[i] = i
  /\ Len(sent) <= revision
  /\ \A a \in Actors : due[a] <= revision
  /\ cursor <= Len(sent)
  /\ tab = "open" => shown = IF cursor > synced THEN cursor ELSE synced
  /\ tab # "broken"

\* The record of a request says "done" only when the request has made its last
\* change, and is removed no sooner.
Answered ==
  \A c \in Callers :
    /\ records[c] \in {"none", "running", "done"}
    /\ records[c] = "done" \/ c \in removed => call[c] \in {"publish", "end"}

\* The record of the operation carries snapshots, the last of which ends it.
Over == IsTerminal(Operation) \/ Operation \in removed
Delivered ==
  /\ Ended /\ next_revision = Len(committed) + 1
  /\ \A t \in Threads : pc[t] = "deliver" => due[t] # 0

Finished ==
  /\ records[Operation] \in Snapshots \cup {"none"}
  /\ \A i \in 1..(Len(committed) - 1) : committed[i] \notin Terminal
  /\ Over => Delivered

Stream == StreamTyped /\ Numbered /\ Answered /\ Finished /\ RemovedStaysAway

-----------------------------------------------------------------------------
\* What the stream does to the dispatcher is a step of the dispatcher.
LEMMA StreamStepDispatches == [StreamNext]_streamVars => [Next]_vars
<1> SUFFICES ASSUME [StreamNext]_streamVars PROVE [Next]_vars
  OBVIOUS
<1>1. CASE UNCHANGED streamVars
  BY <1>1 DEF streamVars
<1>2. ASSUME NEW t \in Threads, ObserverStep(t) PROVE [Next]_vars
  BY <1>2 DEF ObserverStep, DispatchStep, Upsert, ObserverReturns, Next, Publishing
<1>3. ASSUME NEW t \in Threads, NEW s \in Snapshots, OperationStep(t, s) PROVE [Next]_vars
  BY <1>3 DEF OperationStep, Next
<1>4. ASSUME NEW c \in Callers, Request(c) \/ RequestStep(c) PROVE [Next]_vars
  BY <1>4 DEF Request, RequestStep, Notice, SendStarts, SendEnds, SendDropped, Dismiss,
              ClearTerminal, RequestPublishes
<1>5. CASE Subscribe \/ ConnectionStep \/ EndsConnection
  BY <1>5 DEF Subscribe, ConnectionStep, Snapshot, Forward, EndsConnection
<1>6. QED
  BY <1>1, <1>2, <1>3, <1>4, <1>5 DEF StreamNext

LEMMA StreamDispatches == StreamSpec => Safety
<1>1. StreamInit => Init
  BY DEF StreamInit
<1>2. QED
  BY <1>1, StreamStepDispatches, PTL DEF StreamSpec, Safety

LEMMA StreamOrder == StreamSpec => []Order
BY StreamDispatches, AlwaysOrder, PTL

\* What a step does to the records and the channel: nothing, a change, or the
\* publication of an event whose turn it is.
Changed ==
  /\ \E a \in Actors, ids \in SUBSET Ids, v \in Snapshots \cup {"none", "running", "done"} :
       Changes(a, ids, v)
  /\ UNCHANGED <<sent, connection>>
Published == (\E a \in Actors : PublishOrdered(a)) /\ UNCHANGED connection
Connected == UNCHANGED <<activity, sent, call>> /\ (Subscribe \/ Snapshot \/ Forward \/ EndsConnection)
Passed == UNCHANGED <<activity, sent, connection>>

LEMMA StepKinds ==
  ASSUME Order, [StreamNext]_streamVars
  PROVE  Changed \/ Published \/ Connected \/ Passed
<1> USE DEF Actors, Ids
<1>1. CASE UNCHANGED streamVars
  BY <1>1 DEF streamVars, Passed
<1>2. ASSUME NEW t \in Threads, Upsert(t) PROVE Changed
  <2>1. committed[own[t]] \in Snapshots
    BY <1>2 DEF Upsert, Order, TypeOK, Given, Places, Revisions, None
  <2>2. QED
    BY <1>2, <2>1 DEF Upsert, Changed
<1>3. ASSUME NEW t \in Threads, DispatchStep(t) \/ ObserverReturns(t) PROVE Published \/ Passed
  BY <1>3 DEF DispatchStep, ObserverReturns, Published, Passed
<1>4. ASSUME NEW t \in Threads, NEW s \in Snapshots, OperationStep(t, s) PROVE Passed
  BY <1>4 DEF OperationStep, Passed
<1>5. ASSUME NEW c \in Callers, Notice(c) \/ SendStarts(c) \/ SendEnds(c) \/ Dismiss(c)
      PROVE  Changed
  BY <1>5 DEF Notice, SendStarts, SendEnds, Dismiss, Changed
<1>6. ASSUME NEW c \in Callers, ClearTerminal(c) PROVE Changed
  <2>1. {id \in Ids : IsTerminal(id)} \in SUBSET Ids
    OBVIOUS
  <2>2. QED
    BY <1>6, <2>1 DEF ClearTerminal, Changed
<1>7. ASSUME NEW c \in Callers, SendDropped(c) \/ RequestPublishes(c) PROVE Published \/ Passed
  BY <1>7 DEF SendDropped, RequestPublishes, Published, Passed
<1>8. CASE Subscribe \/ ConnectionStep \/ EndsConnection
  BY <1>8 DEF ConnectionStep, Connected, Subscribe, Snapshot, Forward, EndsConnection
<1>9. QED
  BY <1>1, <1>2, <1>3, <1>4, <1>5, <1>6, <1>7, <1>8
     DEF StreamNext, ObserverStep, Request, RequestStep

LEMMA CallTyped ==
  ASSUME StreamTyped, [StreamNext]_streamVars
  PROVE  call' \in [Callers -> {"idle", "start", "transfer", "publish", "end"}]
<1> USE DEF StreamTyped
<1>1. ASSUME NEW c \in Callers, Request(c) \/ RequestStep(c)
      PROVE  call' \in [Callers -> {"idle", "start", "transfer", "publish", "end"}]
  BY <1>1 DEF Request, RequestStep, Notice, SendStarts, SendEnds, SendDropped, Dismiss,
              ClearTerminal, RequestPublishes, Goes
<1>2. ASSUME NEW t \in Threads, ObserverStep(t) \/ \E s \in Snapshots : OperationStep(t, s)
      PROVE  call' = call
  BY <1>2 DEF ObserverStep, DispatchStep, Upsert, ObserverReturns, OperationStep
<1>3. CASE Subscribe \/ ConnectionStep \/ EndsConnection
  BY <1>3 DEF Subscribe, ConnectionStep, Snapshot, Forward, EndsConnection
<1>4. QED
  BY <1>1, <1>2, <1>3 DEF StreamNext, streamVars

LEMMA TypedStep ==
  ASSUME StreamTyped, Order, [StreamNext]_streamVars
  PROVE  StreamTyped'
<1>1. call' \in [Callers -> {"idle", "start", "transfer", "publish", "end"}]
  BY CallTyped
<1>2. CASE Changed
  <2>1. PICK a \in Actors, ids \in SUBSET Ids, v \in Snapshots \cup {"none", "running", "done"} :
          Changes(a, ids, v)
    BY <1>2 DEF Changed
  <2>2. UNCHANGED <<sent, connection>>
    BY <1>2 DEF Changed
  <2>3. records' \in [Ids -> Snapshots \cup {"none", "running", "done"}]
    BY <2>1 DEF Changes, StreamTyped
  <2>4. due' \in [Actors -> Nat] /\ revision' \in Nat
    BY <2>1 DEF Changes, StreamTyped
  <2>5. removed' \in SUBSET Ids
    BY <2>1 DEF Changes, StreamTyped
  <2>6. QED
    BY <1>1, <2>2, <2>3, <2>4, <2>5 DEF StreamTyped, connection
<1>3. CASE Published
  <2>1. PICK a \in Actors : PublishOrdered(a)
    BY <1>3 DEF Published
  <2>2. due' \in [Actors -> Nat] /\ sent' \in Seq(Nat)
    BY <2>1 DEF PublishOrdered, StreamTyped
  <2>3. QED
    BY <1>1, <1>3, <2>1, <2>2 DEF Published, PublishOrdered, StreamTyped, connection
<1>4. CASE Connected
  <2>1. cursor < Len(sent) => Event \in Nat
    BY DEF Event, StreamTyped
  <2>2. tab' \in {"off", "subscribed", "open", "ended", "broken"}
        /\ cursor' \in Nat /\ synced' \in Nat /\ shown' \in Nat
    BY <1>4, <2>1 DEF Connected, Subscribe, Snapshot, Forward, EndsConnection, StreamTyped
  <2>3. QED
    BY <1>4, <2>2 DEF Connected, StreamTyped, activity
<1>5. CASE Passed
  BY <1>1, <1>5 DEF Passed, StreamTyped, activity, connection
<1>6. QED
  BY <1>2, <1>3, <1>4, <1>5, StepKinds

LEMMA NumberedStep ==
  ASSUME StreamTyped, Numbered, Order, [StreamNext]_streamVars
  PROVE  Numbered'
<1> USE DEF StreamTyped
<1>1. CASE Changed
  <2>1. PICK a \in Actors, ids \in SUBSET Ids, v \in Snapshots \cup {"none", "running", "done"} :
          Changes(a, ids, v)
    BY <1>1 DEF Changed
  <2>2. revision' = revision + 1 /\ due' = [due EXCEPT ![a] = revision + 1]
    BY <2>1 DEF Changes
  <2>3. \A b \in Actors : due'[b] <= revision'
    BY <2>2 DEF Numbered
  <2>4. QED
    BY <1>1, <2>2, <2>3 DEF Changed, Numbered, connection
<1>2. CASE Published
  <2>1. PICK a \in Actors : PublishOrdered(a)
    BY <1>2 DEF Published
  <2>2. due[a] = Len(sent) + 1 /\ sent' = Append(sent, due[a])
        /\ due' = [due EXCEPT ![a] = 0] /\ revision' = revision
    BY <2>1 DEF PublishOrdered, Turn
  <2>3. Len(sent') = Len(sent) + 1 /\ Len(sent') <= revision'
        /\ \A i \in 1..Len(sent') : sent'[i] = i
    BY <2>2 DEF Numbered
  <2>4. \A b \in Actors : due'[b] <= revision'
    BY <2>2 DEF Numbered
  <2>5. QED
    BY <1>2, <2>3, <2>4 DEF Published, Numbered, connection
<1>3. CASE Connected
  <2>1. cursor < Len(sent) => Event = cursor + 1
    BY DEF Event, Numbered
  <2>2. CASE Subscribe \/ EndsConnection
    BY <1>3, <2>2 DEF Connected, Subscribe, EndsConnection, Numbered, activity
  <2>3. CASE Snapshot
    BY <1>3, <2>3 DEF Connected, Snapshot, Numbered, activity
  <2>4. CASE Forward
    <3>1. cursor' = cursor + 1 /\ cursor' <= Len(sent') /\ tab' = "open"
          /\ shown' = IF cursor' > synced' THEN cursor' ELSE synced'
      BY <2>1, <2>4 DEF Forward, Unseen, Numbered
    <3>2. QED
      BY <1>3, <2>4, <3>1 DEF Connected, Forward, Numbered, activity
  <2>5. QED
    BY <1>3, <2>2, <2>3, <2>4 DEF Connected
<1>4. CASE Passed
  BY <1>4 DEF Passed, Numbered, activity, connection
<1>5. QED
  BY <1>1, <1>2, <1>3, <1>4, StepKinds

-----------------------------------------------------------------------------
\* What the records and the removals of a step are, seen from one record.
Quiet(id) ==
  /\ records'[id] = records[id]
  /\ id \in removed' => id \in removed

LEMMA ChangeOfRecord ==
  ASSUME StreamTyped, NEW a \in Actors, NEW ids \in SUBSET Ids,
         NEW v \in Snapshots \cup {"none", "running", "done"}, Changes(a, ids, v)
  PROVE  /\ \A id \in ids : records'[id] = v
         /\ \A id \in Ids \ ids : Quiet(id)
         /\ removed \subseteq removed'
BY DEF StreamTyped, Changes, Quiet

LEMMA ChangeOfOne ==
  ASSUME StreamTyped, NEW a \in Actors, NEW id \in Ids,
         NEW v \in Snapshots \cup {"running", "done"}, Changes(a, {id}, v)
  PROVE  /\ records'[id] = v
         /\ id \in removed' => id \in removed
         /\ \A other \in Ids \ {id} : Quiet(other)
<1>1. v # "none"
  BY StreamAssumption
<1>2. QED
  BY <1>1 DEF StreamTyped, Changes, Quiet

\* Every record that a dismissal or a clearing names has ended.
LEMMA RemovedHasEnded ==
  ASSUME StreamTyped, NEW c \in Callers, Dismiss(c) \/ ClearTerminal(c)
  PROVE  \E ids \in SUBSET Ids :
           /\ Changes(c, ids, "none") /\ \A id \in ids : IsTerminal(id)
           /\ Goes(c, "idle", "publish") /\ UNCHANGED <<vars, sent, connection>>
<1>1. CASE Dismiss(c)
  <2>1. PICK id \in Ids : IsTerminal(id) /\ Changes(c, {id}, "none")
    BY <1>1 DEF Dismiss
  <2>2. QED
    BY <1>1, <2>1 DEF Dismiss
<1>2. CASE ClearTerminal(c)
  BY <1>2 DEF ClearTerminal
<1>3. QED
  BY <1>1, <1>2

\* A request that has made its last change makes no other.
LEMMA RequestsEnd ==
  ASSUME StreamTyped, [StreamNext]_streamVars, NEW d \in Callers,
         call[d] \in {"publish", "end"}
  PROVE  call'[d] \in {"publish", "end"}
<1> USE DEF StreamTyped
<1>1. ASSUME NEW c \in Callers, Request(c) \/ RequestStep(c)
      PROVE  call'[d] \in {"publish", "end"}
  BY <1>1 DEF Request, RequestStep, Notice, SendStarts, SendEnds, SendDropped, Dismiss,
              ClearTerminal, RequestPublishes, Goes
<1>2. ASSUME NEW t \in Threads, ObserverStep(t) \/ \E s \in Snapshots : OperationStep(t, s)
      PROVE  call' = call
  BY <1>2 DEF ObserverStep, DispatchStep, Upsert, ObserverReturns, OperationStep
<1>3. CASE Subscribe \/ ConnectionStep \/ EndsConnection
  BY <1>3 DEF Subscribe, ConnectionStep, Snapshot, Forward, EndsConnection
<1>4. QED
  BY <1>1, <1>2, <1>3 DEF StreamNext, streamVars

LEMMA QuietRequests ==
  ASSUME StreamTyped, Answered, [StreamNext]_streamVars,
         \A d \in Callers : Quiet(d)
  PROVE  Answered'
BY RequestsEnd DEF Answered, Quiet

\* A change that a request makes of its own record alone.
OwnChange(c, v, from, to) ==
  Changes(c, {c}, v) /\ Goes(c, from, to) /\ UNCHANGED <<vars, sent, connection>>

LEMMA AnsweredStep ==
  ASSUME StreamTyped, Answered, Order, [StreamNext]_streamVars
  PROVE  Answered'
<1> USE StreamAssumption DEF Actors, Ids
<1>1. ASSUME NEW c \in Callers, NEW v \in {"running", "done"}, NEW from, NEW to,
             OwnChange(c, v, from, to),
             v = "done" => to = "publish",
             from \in {"idle", "transfer"}
      PROVE  Answered'
  <2>1. Changes(c, {c}, v) /\ Goes(c, from, to)
    BY <1>1 DEF OwnChange
  <2>2. c \in Ids /\ c \in Actors /\ v \in Snapshots \cup {"running", "done"}
    OBVIOUS
  <2>3. records'[c] = v /\ (c \in removed' => c \in removed)
        /\ \A id \in Ids \ {c} : Quiet(id)
    BY <2>1, <2>2, ChangeOfOne
  <2>4. c \notin removed /\ (v = "done" => call'[c] = "publish")
    BY <1>1, <2>1 DEF Answered, Goes, StreamTyped
  <2>5. \A d \in Callers \ {c} : Quiet(d)
    BY <2>3
  <2>6. QED
    BY <2>3, <2>4, <2>5, RequestsEnd DEF Answered, Quiet
<1>2. ASSUME NEW c \in Callers, Dismiss(c) \/ ClearTerminal(c)
      PROVE  Answered'
  <2>1. PICK ids \in SUBSET Ids :
          Changes(c, ids, "none") /\ \A id \in ids : IsTerminal(id)
    BY <1>2, RemovedHasEnded
  <2>2. (\A id \in ids : records'[id] = "none") /\ \A id \in Ids \ ids : Quiet(id)
    BY <2>1, ChangeOfRecord
  <2>3. \A d \in Callers : d \in ids => records[d] = "done"
    BY <2>1 DEF IsTerminal, Answered
  <2>4. QED
    BY <2>2, <2>3, RequestsEnd DEF Answered, Quiet
<1>3. ASSUME NEW t \in Threads, Upsert(t)
      PROVE  Answered'
  <2>1. committed[own[t]] \in Snapshots
    BY <1>3 DEF Upsert, Order, TypeOK, Given, Places, Revisions, None
  <2>2. PICK v \in Snapshots : v = committed[own[t]]
    BY <2>1
  <2>3. Changes(t, {Operation}, v)
    BY <1>3, <2>2 DEF Upsert
  <2>4. \A id \in Ids \ {Operation} : Quiet(id)
    BY <2>3, ChangeOfOne
  <2>5. QED
    BY <2>4, QuietRequests
<1>4. ASSUME UNCHANGED <<records, removed>>
      PROVE  Answered'
  BY <1>4, QuietRequests DEF Quiet
<1>5. CASE UNCHANGED streamVars
  BY <1>4, <1>5 DEF streamVars, activity
<1>6. ASSUME NEW t \in Threads, ObserverStep(t) \/ \E s \in Snapshots : OperationStep(t, s)
      PROVE  Answered'
  BY <1>3, <1>4, <1>6
     DEF ObserverStep, DispatchStep, ObserverReturns, OperationStep, PublishOrdered, activity
<1>7. ASSUME NEW c \in Callers, Request(c) \/ RequestStep(c)
      PROVE  Answered'
  <2>1. CASE Notice(c)
    BY <1>1, <2>1 DEF Notice, OwnChange
  <2>2. CASE SendStarts(c)
    BY <1>1, <2>2 DEF SendStarts, OwnChange
  <2>3. CASE SendEnds(c)
    BY <1>1, <2>3 DEF SendEnds, OwnChange
  <2>4. CASE SendDropped(c) \/ RequestPublishes(c)
    BY <1>4, <2>4 DEF SendDropped, RequestPublishes, PublishOrdered, activity
  <2>5. QED
    BY <1>2, <1>7, <2>1, <2>2, <2>3, <2>4 DEF Request, RequestStep
<1>8. CASE Subscribe \/ ConnectionStep \/ EndsConnection
  BY <1>4, <1>8 DEF Subscribe, ConnectionStep, Snapshot, Forward, EndsConnection, activity
<1>9. QED
  BY <1>5, <1>6, <1>7, <1>8 DEF StreamNext

-----------------------------------------------------------------------------
\* A step that leaves the dispatcher and the record of the operation alone, and
\* gives no thread's event up.
LEMMA QuietOperation ==
  ASSUME Finished, UNCHANGED vars, Quiet(Operation),
         \A t \in Threads : due'[t] = due[t]
  PROVE  Finished'
BY DEF Finished, Over, Delivered, Ended, IsTerminal, Quiet, vars, dispatch, snapshots

LEMMA FinishedStep ==
  ASSUME StreamTyped, Finished, Order, [StreamNext]_streamVars
  PROVE  Finished'
<1> USE StreamAssumption DEF Actors, Ids
<1>1. ASSUME NEW c \in Callers, Notice(c) \/ SendStarts(c) \/ SendEnds(c)
      PROVE  Finished'
  <2>1. PICK v \in {"running", "done"} : Changes(c, {c}, v) /\ UNCHANGED vars
    BY <1>1 DEF Notice, SendStarts, SendEnds
  <2>2. \A id \in Ids \ {c} : Quiet(id)
    BY <2>1, ChangeOfRecord
  <2>3. \A t \in Threads : due'[t] = due[t]
    BY <2>1 DEF Changes, StreamTyped
  <2>4. QED
    BY <2>1, <2>2, <2>3, QuietOperation
<1>2. ASSUME NEW c \in Callers, Dismiss(c) \/ ClearTerminal(c)
      PROVE  Finished'
  <2>1. PICK ids \in SUBSET Ids :
          Changes(c, ids, "none") /\ (\A id \in ids : IsTerminal(id)) /\ UNCHANGED vars
    BY <1>2, RemovedHasEnded
  <2>2. (\A id \in ids : records'[id] = "none") /\ \A id \in Ids \ ids : Quiet(id)
    BY <2>1, ChangeOfRecord
  <2>3. \A t \in Threads : due'[t] = due[t]
    BY <2>1 DEF Changes, StreamTyped
  <2>4. CASE Operation \notin ids
    BY <2>1, <2>2, <2>3, <2>4, QuietOperation
  <2>5. CASE Operation \in ids
    <3>1. Delivered
      BY <2>1, <2>5 DEF Finished, Over
    <3>2. Delivered' /\ records'[Operation] = "none"
      BY <2>1, <2>2, <2>3, <2>5, <3>1 DEF Delivered, Ended, vars, dispatch, snapshots
    <3>3. QED
      BY <2>1, <3>2 DEF Finished, vars, snapshots
  <2>6. QED
    BY <2>4, <2>5
<1>3. ASSUME NEW c \in Callers, SendDropped(c) \/ RequestPublishes(c)
      PROVE  Finished'
  <2>1. UNCHANGED vars /\ Quiet(Operation) /\ \A t \in Threads : due'[t] = due[t]
    BY <1>3 DEF SendDropped, RequestPublishes, PublishOrdered, activity, Quiet, StreamTyped
  <2>2. QED
    BY <2>1, QuietOperation
<1>4. CASE UNCHANGED streamVars \/ Subscribe \/ ConnectionStep \/ EndsConnection
  <2>1. UNCHANGED vars /\ Quiet(Operation) /\ \A t \in Threads : due'[t] = due[t]
    BY <1>4 DEF streamVars, Subscribe, ConnectionStep, Snapshot, Forward, EndsConnection,
                activity, Quiet
  <2>2. QED
    BY <2>1, QuietOperation
<1>5. ASSUME NEW t \in Threads, Upsert(t)
      PROVE  Finished'
  <2>1. own[t] = next_revision - 1 /\ own[t] \in 1..Len(committed)
        /\ committed[own[t]] \in Snapshots
    BY <1>5 DEF Upsert, Order, TypeOK, Given, Places, Revisions, None
  <2>2. Operation \notin removed
    BY <1>5 DEF Upsert, Finished, Over, Delivered
  <2>3. records'[Operation] = committed[own[t]] /\ Operation \notin removed'
    <3>1. PICK v \in Snapshots : v = committed[own[t]]
      BY <2>1
    <3>2. Changes(t, {Operation}, v)
      BY <1>5, <3>1 DEF Upsert
    <3>3. QED
      BY <2>2, <3>1, <3>2, ChangeOfOne
  <2>4. committed[own[t]] \in Terminal => own[t] = Len(committed)
    BY <2>1 DEF Finished, Order, TypeOK
  <2>5. \A u \in Threads : pc[u] = "deliver" => u = t
    BY <1>5 DEF Upsert, Order, Claim
  <2>6. due'[t] = revision + 1 /\ due'[t] # 0
    BY <1>5 DEF Upsert, Changes, StreamTyped
  <2>7. Over' => committed[own[t]] \in Terminal
    BY <2>1, <2>3 DEF Over, IsTerminal
  <2>8. Over' => Delivered'
    BY <1>5, <2>1, <2>4, <2>5, <2>6, <2>7
       DEF Upsert, Delivered, Ended, vars, dispatch, snapshots, Order, TypeOK
  <2>9. QED
    BY <1>5, <2>1, <2>3, <2>8 DEF Upsert, Finished, vars, snapshots
<1>6. ASSUME NEW t \in Threads, ObserverReturns(t)
      PROVE  Finished'
  <2>1. UNCHANGED <<records, removed, committed, next_revision>>
    BY <1>6 DEF ObserverReturns, PublishOrdered, Deliver, dispatch
  <2>2. \A u \in Threads : pc'[u] = "deliver" => pc[u] = "deliver" /\ due'[u] = due[u]
    BY <1>6 DEF ObserverReturns, PublishOrdered, Deliver, StreamTyped, Order, TypeOK
  <2>3. QED
    BY <2>1, <2>2 DEF Finished, Over, Delivered, Ended, IsTerminal
<1>7. ASSUME NEW t \in Threads, DispatchStep(t)
      PROVE  Finished'
  <2>1. UNCHANGED <<records, removed, committed, due>>
    BY <1>7 DEF DispatchStep, Publish, Take, TakeDue, TakeNothing, activity, snapshots
  <2>2. CASE TakeDue(t)
    <3>1. next_revision \in pending /\ next_revision # Len(committed) + 1
      BY <2>2 DEF TakeDue, Order, Places, TypeOK
    <3>2. ~Over /\ ~Over'
      BY <2>1, <3>1 DEF Finished, Delivered, Over, IsTerminal
    <3>3. QED
      BY <2>1, <3>2 DEF Finished
  <2>3. CASE Publish(t) \/ TakeNothing(t)
    <3>1. next_revision' = next_revision
          /\ \A u \in Threads : pc'[u] = "deliver" => pc[u] = "deliver"
      BY <2>3 DEF Publish, TakeNothing, Order, TypeOK
    <3>2. QED
      BY <2>1, <3>1 DEF Finished, Over, Delivered, Ended, IsTerminal
  <2>4. QED
    BY <1>7, <2>2, <2>3 DEF DispatchStep, Take
<1>8. ASSUME NEW t \in Threads, NEW s \in Snapshots, OperationStep(t, s)
      PROVE  Finished'
  <2>1. UNCHANGED <<records, removed>> /\ ~Ended /\ committed' = Append(committed, s)
    BY <1>8 DEF OperationStep, Prepare, activity
  <2>2. ~Over /\ ~Over'
    BY <2>1 DEF Finished, Delivered, Over, IsTerminal
  <2>3. \A i \in 1..Len(committed) : committed[i] \notin Terminal
    BY <2>1 DEF Finished, Ended, Order, TypeOK
  <2>4. \A i \in 1..(Len(committed') - 1) : committed'[i] \notin Terminal
    BY <2>1, <2>3 DEF Order, TypeOK
  <2>5. QED
    BY <2>1, <2>2, <2>4 DEF Finished
<1>9. QED
  BY <1>1, <1>2, <1>3, <1>4, <1>5, <1>6, <1>7, <1>8
     DEF StreamNext, ObserverStep, Request, RequestStep

-----------------------------------------------------------------------------
LEMMA RemovedStep ==
  ASSUME StreamTyped, Answered, Finished, Order, RemovedStaysAway, [StreamNext]_streamVars
  PROVE  RemovedStaysAway'
<1> USE StreamAssumption DEF Actors, Ids
<1> SUFFICES ASSUME NEW id \in Ids, id \in removed' PROVE records'[id] = "none"
  BY TypedStep DEF RemovedStaysAway, StreamTyped
<1>0. id \in removed => records[id] = "none"
  BY DEF RemovedStaysAway
<1>1. ASSUME Quiet(id) PROVE records'[id] = "none"
  BY <1>0, <1>1 DEF Quiet
<1>2. ASSUME NEW c \in Callers, Dismiss(c) \/ ClearTerminal(c) PROVE records'[id] = "none"
  <2>1. PICK ids \in SUBSET Ids : Changes(c, ids, "none")
    BY <1>2, RemovedHasEnded
  <2>2. QED
    BY <1>1, <2>1, ChangeOfRecord
<1>3. ASSUME NEW c \in Callers, Notice(c) \/ SendStarts(c) \/ SendEnds(c)
      PROVE  records'[id] = "none"
  <2>1. PICK v \in {"running", "done"} : Changes(c, {c}, v)
    BY <1>3 DEF Notice, SendStarts, SendEnds
  <2>2. call[c] \in {"idle", "transfer"}
    BY <1>3 DEF Notice, SendStarts, SendEnds, Goes
  <2>3. c \notin removed
    BY <2>2 DEF Answered
  <2>4. c \in Ids /\ c \in Actors /\ v \in Snapshots \cup {"running", "done"}
    OBVIOUS
  <2>5. id # c /\ Quiet(id)
    BY <2>1, <2>3, <2>4, ChangeOfOne
  <2>6. QED
    BY <1>1, <2>5
<1>4. ASSUME NEW t \in Threads, Upsert(t)
      PROVE  records'[id] = "none"
  <2>1. committed[own[t]] \in Snapshots
    BY <1>4 DEF Upsert, Order, TypeOK, Given, Places, Revisions, None
  <2>2. Operation \notin removed
    BY <1>4 DEF Upsert, Finished, Over, Delivered
  <2>3. PICK v \in Snapshots : v = committed[own[t]]
    BY <2>1
  <2>4. Changes(t, {Operation}, v)
    BY <1>4, <2>3 DEF Upsert
  <2>5. id # Operation /\ Quiet(id)
    BY <2>2, <2>4, ChangeOfOne
  <2>6. QED
    BY <1>1, <2>5
<1>5. ASSUME UNCHANGED <<records, removed>> PROVE records'[id] = "none"
  BY <1>1, <1>5 DEF Quiet
<1>6. CASE UNCHANGED streamVars \/ Subscribe \/ ConnectionStep \/ EndsConnection
  BY <1>5, <1>6 DEF streamVars, Subscribe, ConnectionStep, Snapshot, Forward,
                    EndsConnection, activity
<1>7. ASSUME NEW t \in Threads, ObserverStep(t) \/ \E s \in Snapshots : OperationStep(t, s)
      PROVE  records'[id] = "none"
  BY <1>4, <1>5, <1>7
     DEF ObserverStep, DispatchStep, ObserverReturns, OperationStep, PublishOrdered, activity
<1>8. ASSUME NEW c \in Callers, Request(c) \/ RequestStep(c)
      PROVE  records'[id] = "none"
  <2>1. CASE SendDropped(c) \/ RequestPublishes(c)
    BY <1>5, <2>1 DEF SendDropped, RequestPublishes, PublishOrdered, activity
  <2>2. QED
    BY <1>2, <1>3, <1>8, <2>1 DEF Request, RequestStep
<1>9. QED
  BY <1>6, <1>7, <1>8 DEF StreamNext

-----------------------------------------------------------------------------
LEMMA StreamStarts == StreamInit => Stream
<1> SUFFICES ASSUME StreamInit PROVE Stream
  OBVIOUS
<1> USE StreamAssumption DEF StreamInit, Init, Actors, Ids
<1>1. StreamTyped
  BY DEF StreamTyped
<1>2. Numbered
  BY DEF Numbered
<1>3. Answered
  BY DEF Answered
<1>4. ~Over /\ Finished /\ RemovedStaysAway
  BY DEF Over, IsTerminal, Finished, RemovedStaysAway
<1>5. QED
  BY <1>1, <1>2, <1>3, <1>4 DEF Stream

LEMMA AlwaysStream == StreamSpec => []Stream
<1>1. Stream /\ Order /\ [StreamNext]_streamVars => Stream'
  BY TypedStep, NumberedStep, AnsweredStep, FinishedStep, RemovedStep DEF Stream
<1>2. QED
  BY <1>1, StreamStarts, StreamOrder, PTL DEF StreamSpec

\* However many threads and requests publish events, and whenever a Workbench
\* subscribes, the connection never has to be given up for a gap (publish_ordered,
\* and the order in which the handler subscribes and takes its snapshot).
THEOREM ConnectionsSeeNoGap == StreamSpec => []StreamIsContiguous
<1>1. Stream => StreamIsContiguous
  BY DEF Stream, Numbered, StreamIsContiguous
<1>2. QED
  BY <1>1, AlwaysStream, PTL

\* A record that was dismissed or cleared never comes back, whichever thread still
\* delivers a snapshot and whichever request still answers (upsert_task creates a
\* record where there is none, so only the order of the snapshots prevents it).
THEOREM RemovalIsFinal == StreamSpec => []RemovedStaysAway
<1>1. Stream => RemovedStaysAway
  BY DEF Stream
<1>2. QED
  BY <1>1, AlwaysStream, PTL

\* An observer that waits for its turn in the middle of its call still leaves no
\* snapshot behind: the dispatcher's guarantee holds of the composed system.
THEOREM StreamLeavesNothing == StreamSpec => []NothingStranded
<1>1. Order => NothingStranded
  BY DEF Order, Claim, Watched, NothingStranded, Drainers
<1>2. QED
  BY <1>1, StreamOrder, PTL

\* The composed system refines the log: the records are given the snapshots of the
\* operation in the order of its commits, each once.
THEOREM StreamRefinesLog == StreamSpec => Log!LogSafety
BY StreamDispatches, RefinesLog, PTL
=============================================================================

---------------------------- MODULE ActivityStream ----------------------------
(* The Activity stream: what the observer of the Model Operations does with a   *)
(* snapshot (workbench/services.rs, publish_model_operation_activity), the       *)
(* records it shares with the HTTP callers (activity.rs), and the connection     *)
(* that carries them to a Workbench (workbench/routes.rs, WorkbenchActivities.ts). *)
(*                                                                               *)
(* It extends ObserverDispatch: the drainer's call of the observer now takes two *)
(* steps, the change of the record and the publication of the event, in which it *)
(* may wait for the events of other threads. One Model Operation is followed;    *)
(* its progress is known by its snapshots, a record of a caller by its status.   *)
EXTENDS ObserverDispatch

CONSTANTS
  Operation, \* the Model Operation
  Terminal,  \* the snapshots in which it has ended
  Callers,   \* HTTP requests: notices, sends to Photoshop, removals
  Capacity   \* GLOBAL_EVENT_CAPACITY

ASSUME StreamAssumption ==
  /\ Operation \notin Callers /\ Threads \cap Callers = {}
  /\ Terminal \subseteq Snapshots
  \* What a record says of a request is told apart from what a snapshot says.
  /\ {"none", "running", "done"} \cap Snapshots = {}
  /\ Capacity \in Nat \ {0}

VARIABLES
  revision, \* ActivityState.revision
  records,  \* ActivityState.records: what each of them says, "none" where there is none
  due,      \* the revision of the event a thread or a request has to publish, or 0
  sent,     \* the revisions that were sent to the broadcast channel
  call,     \* the requests
  tab,      \* a Workbench connection: "off", "subscribed", "open", "ended" or "broken"
  cursor,   \* events its receiver has taken or was not there for
  synced,   \* the revision of its snapshot
  shown,    \* activityRevision of the Workbench
  removed   \* history: records that were dismissed or cleared

activity == <<revision, records, due, removed>>
connection == <<tab, cursor, synced, shown>>
streamVars == <<vars, activity, sent, call, connection>>

Ids == Callers \cup {Operation}
IsTerminal(id) == records[id] \in Terminal \cup {"done"}

StreamInit ==
  /\ Init
  /\ revision = 0
  /\ records = [id \in Ids |-> "none"]
  /\ due = [a \in Threads \cup Callers |-> 0]
  /\ sent = <<>>
  /\ call = [c \in Callers |-> "idle"]
  /\ tab = "off" /\ cursor = 0 /\ synced = 0 /\ shown = 0
  /\ removed = {}

-------------------------------------------------------------------------------
(* Changes of the records, and the publication of their events in order.         *)

\* The critical section of a change, with next_event.
Changes(a, ids, value) ==
  /\ revision' = revision + 1
  /\ records' = [id \in Ids |-> IF id \in ids THEN value ELSE records[id]]
  /\ due' = [due EXCEPT ![a] = revision + 1]
  /\ removed' = IF value = "none" THEN removed \cup ids ELSE removed

\* Mutant: an event is sent as soon as its thread comes to it.
TurnAtOnce(a) == due[a] # 0
\* publish_ordered waits until the earlier events are published.
Turn(a) == due[a] = Len(sent) + 1

PublishOrdered(a) ==
  /\ Turn(a)
  /\ sent' = Append(sent, due[a])
  /\ due' = [due EXCEPT ![a] = 0]
  /\ UNCHANGED <<revision, records, removed>>

\* The observer is called: upsert_task, which refuses a task that has ended.
Upsert(t) ==
  /\ pc[t] = "deliver" /\ due[t] = 0
  /\ ~IsTerminal(Operation)
  /\ Changes(t, {Operation}, committed[own[t]])
  /\ UNCHANGED <<vars, sent, call, connection>>

\* The event is published and the observer returns.
ObserverReturns(t) ==
  /\ PublishOrdered(t)
  /\ Deliver(t)
  /\ UNCHANGED <<call, connection>>

\* Nothing follows the snapshot in which the operation has ended.
Ended == committed # <<>> /\ committed[Len(committed)] \in Terminal

DispatchStep(t) ==
  /\ Publish(t) \/ Take(t)
  /\ UNCHANGED <<activity, sent, call, connection>>

OperationStep(t, s) ==
  /\ ~Ended
  /\ Prepare(t, s)
  /\ UNCHANGED <<activity, sent, call, connection>>

-------------------------------------------------------------------------------
(* HTTP requests.                                                                *)

Goes(c, from, to) == call[c] = from /\ call' = [call EXCEPT ![c] = to]

\* report_global_activity_notice, report_project_activity_notice.
Notice(c) ==
  /\ Goes(c, "idle", "publish")
  /\ Changes(c, {c}, "done")
  /\ UNCHANGED <<vars, sent, connection>>

\* photoshop_send starts its task before the transfer ...
SendStarts(c) ==
  /\ Goes(c, "idle", "start")
  /\ Changes(c, {c}, "running")
  /\ UNCHANGED <<vars, sent, connection>>

\* ... and updates it with the answer ...
SendEnds(c) ==
  /\ Goes(c, "transfer", "publish")
  /\ Changes(c, {c}, "done")
  /\ UNCHANGED <<vars, sent, connection>>

\* ... unless the request is dropped first, because its binding was withdrawn: the
\* record stays as it is, for ever.
SendDropped(c) ==
  /\ Goes(c, "transfer", "end")
  /\ UNCHANGED <<vars, activity, sent, connection>>

\* dismiss_activity.
Dismiss(c) ==
  \E id \in Ids :
    /\ IsTerminal(id)
    /\ Goes(c, "idle", "publish")
    /\ Changes(c, {id}, "none")
    /\ UNCHANGED <<vars, sent, connection>>

\* clear_terminal_activities.
ClearTerminal(c) ==
  LET ended == {id \in Ids : IsTerminal(id)} IN
  /\ ended # {}
  /\ Goes(c, "idle", "publish")
  /\ Changes(c, ended, "none")
  /\ UNCHANGED <<vars, sent, connection>>

RequestPublishes(c) ==
  /\ PublishOrdered(c)
  /\ \/ Goes(c, "start", "transfer")
     \/ Goes(c, "publish", "end")
  /\ UNCHANGED <<vars, connection>>

-------------------------------------------------------------------------------
(* A Workbench connection.                                                       *)

Subscribe ==
  /\ tab = "off"
  /\ tab' = "subscribed"
  /\ cursor' = Len(sent)
  /\ UNCHANGED <<vars, activity, sent, call, synced, shown>>

\* sync_snapshot, and the frame the Workbench starts from.
Snapshot ==
  /\ tab = "subscribed"
  /\ tab' = "open"
  /\ synced' = revision /\ shown' = revision
  /\ UNCHANGED <<vars, activity, sent, call, cursor>>

Lagged == Len(sent) - cursor > Capacity
Event == sent[cursor + 1]

\* Mutant: the first event after the snapshot is passed over too.
UnseenLate == Event > synced + 1
\* An event that the snapshot has already is passed over.
Unseen == Event > synced

\* An event is forwarded; the Workbench gives the connection up at a gap.
Forward ==
  /\ tab = "open" /\ cursor < Len(sent) /\ ~Lagged
  /\ cursor' = cursor + 1
  /\ shown' = IF Unseen /\ Event = shown + 1 THEN Event ELSE shown
  /\ tab' = IF Unseen /\ Event # shown + 1 THEN "broken" ELSE tab
  /\ UNCHANGED <<vars, activity, sent, call, synced>>

\* The receiver has lagged, the queue is full, or the Workbench has left.
EndsConnection ==
  /\ tab = "open"
  /\ tab' = "ended"
  /\ UNCHANGED <<vars, activity, sent, call, cursor, synced, shown>>

-------------------------------------------------------------------------------
ObserverStep(t) == DispatchStep(t) \/ Upsert(t) \/ ObserverReturns(t)
RequestStep(c) == RequestPublishes(c)
Request(c) == \/ Notice(c) \/ SendStarts(c) \/ SendEnds(c) \/ SendDropped(c)
              \/ Dismiss(c) \/ ClearTerminal(c)
ConnectionStep == Snapshot \/ Forward \/ (Lagged /\ EndsConnection)

StreamNext ==
  \/ \E t \in Threads : ObserverStep(t) \/ \E s \in Snapshots : OperationStep(t, s)
  \/ \E c \in Callers : Request(c) \/ RequestStep(c)
  \/ Subscribe \/ ConnectionStep \/ EndsConnection

\* Threads and requests that have an event to publish go on, and so does the task
\* that forwards events. Nobody has to ask for anything, and Photoshop need not answer.
StreamSpec ==
  /\ StreamInit /\ [][StreamNext]_streamVars
  /\ \A t \in Threads : WF_streamVars(ObserverStep(t))
  /\ \A c \in Callers : WF_streamVars(RequestStep(c))
  /\ WF_streamVars(ConnectionStep)

-------------------------------------------------------------------------------
(* A Workbench never meets a gap, however many threads publish and whenever it   *)
(* subscribes: what is later than its snapshot reaches it, in order, each once    *)
(* (activity.rs 548-570, routes.rs 200-278).                                      *)
StreamIsContiguous == tab # "broken"

(* A record that was dismissed or cleared does not come back: a late snapshot of  *)
(* its operation would create it again, active for ever (activity.rs 352-424).    *)
RemovedStaysAway == \A id \in removed : records[id] = "none"

(* What a Workbench shows catches up with the records, and the record of an       *)
(* operation with its end (services.rs 302-304, 1014-1060).                       *)
ActivityCatchesUp ==
  <>[](/\ tab = "open" => shown = revision
       /\ Ended => IsTerminal(Operation) \/ Operation \in removed)
===============================================================================

--------------------------- MODULE FeedbackArtifacts ---------------------------
(* The rendered artifacts of Canvas feedback, project/feedback/artifacts.rs: the *)
(* scheduler thread with its bounded command queue, the render threads, and the  *)
(* callers of project/registry.rs that send it documents: the open of a session, *)
(* an accepted edit, the watcher, a saved video frame and the close.             *)
(*                                                                               *)
(* An entry of the document is a number, 0 for none, and has one artifact. A     *)
(* command is handled in one step, with the files and diagnostics it touches.    *)
(* `changes` bounds edits, external writes and closes, `faults` the commands     *)
(* that find the queue full, the changes whose event the watcher does not get,   *)
(* and the failures of the disk, of renders and of thread starts. Mutations that *)
(* send no command, and Shutdown, are left out.                                  *)
EXTENDS Naturals, Sequences, FiniteSets, SequencesExt

CONSTANTS Sources,       \* paths of the Project that may have feedback
          Moments,       \* those whose artifact needs a captured video frame
          MaxSessions,   \* bound on the times the Project is opened
          Capacity,      \* SCHEDULER_COMMAND_CAPACITY
          MaxConcurrent, \* DEFAULT_MAX_CONCURRENT_ARTIFACTS
          MaxChanges,    \* bound on what happens to the Project
          MaxFaults

ASSUME SourceAssumption == /\ Moments \subseteq Sources
                           /\ Sources \cap {"feedback", "rescan", "watch"} = {}
ASSUME BoundAssumption ==
  /\ {Capacity, MaxConcurrent, MaxSessions} \subseteq Nat \ {0}
  /\ {MaxChanges, MaxFaults} \subseteq Nat

VARIABLES
  sess,     \* "closed", "routed", "read", "open" or "closing"
  epoch,    \* SessionRoute.epoch
  carried,  \* the revision and the document that attach has read
  rev,      \* project_revision
  doc,      \* the accepted document
  diag,     \* sources with a render_failed diagnostic, and "watch" for watch_failed
  cleanup,  \* is there a cleanup_failed diagnostic?
  file,     \* the document on disk
  pix,      \* version of each source's bytes
  seen,     \* the versions the Project Tree was listed with
  dirty,    \* paths the watcher has pending, and "rescan" after a notify error
  frame,    \* version of a video whose frame is cached
  disk,     \* the artifacts: entry and version they were rendered from
  saver,    \* a request that saved a frame: the epoch and the source
  queue,    \* the command queue
  st,       \* SchedulerState.states
  ready, slots, latestDoc, latestSrc, \* the rest of SchedulerState
  job,      \* the render threads
  changes, faults,
  accepted, \* history: the entry of the last accepted command, 0 once cancelled
  lost,     \* history: the revision a change was at that no command brought, or 0
  revived   \* history: sources resumed after their artifact was dropped

project == <<file, pix, frame>>
session == <<sess, epoch, carried, doc, seen, dirty>>
scheduler == <<st, ready, slots, latestDoc, latestSrc, job>>
history == <<accepted, revived>>
vars == <<project, session, scheduler, history, rev, diag, cleanup, disk, saver,
          queue, changes, faults, lost>>

Sessions == 1..MaxSessions \* the epochs
Keys == Sessions \X Sources \* render_key
Jobs == 1..MaxConcurrent + 1
None == <<0, 0>>
Entries == 0..2
Gone == [desc |-> 0, queued |-> 0, queuedForStart |-> FALSE, active |-> 0,
         latest |-> FALSE] \* `latest`: the epochs agree and nobody cancelled
Idle == [key |-> <<0, 0>>, doc |-> 0, pix |-> 0, stage |-> "free"]
Order == SetToSeq(Sources) \* of the entries of a document

Init ==
  /\ sess = "closed" /\ epoch = 0 /\ carried = <<0, <<>>>> /\ rev = 1
  /\ file = [s \in Sources |-> 1] /\ doc = file
  /\ pix = [s \in Sources |-> 1] /\ seen = pix /\ frame = [s \in Sources |-> 0]
  /\ disk = [s \in Sources |-> None]
  /\ diag = {} /\ cleanup = FALSE /\ dirty = {} /\ saver = None /\ queue = <<>>
  /\ st = [k \in Keys |-> Gone] /\ ready = <<>> /\ slots = 0
  /\ latestDoc = [e \in Sessions |-> 0] /\ latestSrc = [k \in Keys |-> 0]
  /\ job = [j \in Jobs |-> Idle]
  /\ changes = 0 /\ faults = 0
  /\ accepted = [s \in Sources |-> 0] /\ lost = [s \in Sources |-> 0] /\ revived = {}

Change == changes < MaxChanges /\ changes' = changes + 1
Fault(failing) == /\ failing => faults < MaxFaults
                  /\ faults' = IF failing THEN faults + 1 ELSE faults

-------------------------------------------------------------------------------
Full == Len(queue) = Capacity
\* send: try_send, and a command that finds the queue full is dropped. `about` are
\* the sources it tells of, `behind` those it cannot bring up to date.
Send(command, about, behind) ==
  /\ queue' = IF Full THEN queue ELSE Append(queue, command)
  /\ lost' = [s \in Sources |-> IF s \in behind \/ (Full /\ s \in about) THEN rev'
                            ELSE lost[s]]

Document(r, d) == [op |-> "document", epoch |-> epoch, rev |-> r, doc |-> d]
Source(r, s, d) == [op |-> "source", epoch |-> epoch, rev |-> r, source |-> s, doc |-> d]

\* load, publish, and the route that attach inserts: the watcher runs, and sends
\* nothing while there is no route.
Open ==
  /\ sess = "closed" /\ epoch + 1 \in Sessions
  /\ sess' = "routed" /\ epoch' = epoch + 1 /\ rev' = 1
  /\ doc' = file /\ seen' = pix /\ dirty' = {} /\ diag' = {} /\ cleanup' = FALSE
  /\ lost' = [s \in Sources |-> 0]
  /\ UNCHANGED <<project, scheduler, history, carried, disk, saver, queue, changes,
                 faults>>

\* attach: the document is read, and then the command is sent.
ReadDocument == /\ sess = "routed" /\ sess' = "read" /\ carried' = <<rev, doc>>
                /\ UNCHANGED <<queue, rev, lost, faults>>
SendDocument == /\ sess = "read" /\ sess' = "open" /\ carried' = <<0, <<>>>>
                /\ UNCHANGED rev /\ Send(Document(carried[1], carried[2]), Sources, {})
                /\ Fault(Full)
Attach == /\ ReadDocument \/ SendDocument
          /\ UNCHANGED <<project, scheduler, history, epoch, doc, seen, dirty, diag,
                         cleanup, disk, saver, changes>>

\* execute, of an update that renders: refused where the file is another's.
Edit(s) ==
  /\ sess = "open" /\ file = doc /\ Change
  /\ \E v \in Entries \ {doc[s]} : doc' = [doc EXCEPT ![s] = v]
  /\ file' = doc' /\ rev' = rev + 1
  /\ diag' = diag \ {"watch"}
  /\ Send(Source(rev', s, doc'), {s}, {}) /\ Fault(Full)
  /\ UNCHANGED <<scheduler, history, sess, epoch, carried, pix, seen, dirty, frame,
                 cleanup, disk, saver>>

\* The watcher learns of a path that changed, or only that it missed something.
Notices(path) ==
  \/ sess = "closed" /\ UNCHANGED <<dirty, faults>>
  \/ sess # "closed" /\ dirty' = dirty \cup {path} /\ UNCHANGED faults
  \/ sess # "closed" /\ dirty' = dirty \cup {"rescan"} /\ Fault(TRUE)

\* Somebody else writes a source or the document.
External ==
  /\ Change
  /\ \E s \in Sources :
       \/ /\ pix' = [pix EXCEPT ![s] = @ + 1] /\ UNCHANGED file
          /\ Notices(s)
       \/ /\ \E v \in Entries \ {file[s]} : file' = [file EXCEPT ![s] = v]
          /\ Notices("feedback")
          /\ UNCHANGED pix
  /\ UNCHANGED <<scheduler, history, sess, epoch, carried, doc, seen, frame, rev, diag,
                 cleanup, disk, saver, queue, lost>>

\* What the watcher tells at once: the paths that are due, or a RescanRequired.
Signals == {paths \in SUBSET dirty \ {{}} : "rescan" \in paths => paths = {"rescan"}}

\* apply_watched_refresh, where watch_paths_match_current_documents: nothing to do.
Known(paths) ==
  /\ paths = {"feedback"} /\ file = doc
  /\ UNCHANGED <<doc, seen, rev, diag, queue, lost, faults>>

\* apply_watched_refresh. What `failed` could not be read stays as it was, with a
\* watch diagnostic; the command is sent all the same, unless the error left the
\* outcome uncertain. A snapshot without news keeps the revision, and .debrute/feedback
\* is in it only where its directory was `listed`; `again`, a failure has another message.
Refresh(paths, listed, failed, again) ==
  LET reads == paths \cap {"feedback", "rescan"} # {}
      unread == failed \in {"tree", "uncertain"}
      told == IF "rescan" \in paths THEN Sources ELSE paths \cap Sources
      single == \E s \in Sources : paths = {s}
      about == IF single THEN paths ELSE Sources
      command == IF single THEN Source(rev', CHOOSE s \in paths : TRUE, doc')
                           ELSE Document(rev', doc')
      same == {s \in Sources : doc'[s] # doc[s]} \cup (IF unread THEN told ELSE {})
      behind == (IF reads THEN {s \in Sources : doc'[s] # file[s]} ELSE {})
                  \cup (IF failed = "uncertain" THEN told ELSE IF rev' = rev THEN same ELSE {})
  IN /\ paths # {"feedback"} \/ file # doc
     /\ doc' = IF reads /\ failed = "nothing" THEN file ELSE doc
     /\ seen' = IF told # {} /\ ~unread THEN pix ELSE seen
     /\ diag' = IF failed = "nothing" THEN diag \ {"watch"} ELSE diag \cup {"watch"}
     /\ rev' = IF \/ seen' # seen \/ diag' # diag \/ failed = "uncertain"
                  \/ reads /\ listed /\ ~unread /\ file # doc
                  \/ failed # "nothing" /\ again
               THEN rev + 1 ELSE rev
     /\ IF failed = "uncertain"
        THEN /\ UNCHANGED queue
             /\ lost' = [s \in Sources |-> IF s \in behind THEN rev' ELSE lost[s]]
             /\ Fault(TRUE)
        ELSE Send(command, about, behind) /\ Fault(failed # "nothing" \/ Full)

Watch ==
  /\ sess \in {"routed", "read", "open"}
  /\ \E paths \in Signals :
       /\ dirty' = dirty \ paths
       /\ \/ Known(paths)
          \/ \E listed, again \in BOOLEAN, failed \in {"nothing", "document", "tree", "uncertain"} :
               Refresh(paths, listed, failed, again)
  /\ UNCHANGED <<project, scheduler, history, sess, epoch, carried, cleanup, disk, saver,
                 changes>>

\* canvas_video_preview_source_saved: the session is open when it looks, and
\* nothing holds it until the command is sent.
SaveFrame(s) ==
  /\ sess = "open" /\ saver = None /\ frame[s] # pix[s]
  /\ frame' = [frame EXCEPT ![s] = pix[s]] /\ saver' = <<epoch, s>>
  /\ UNCHANGED <<scheduler, history, session, file, pix, rev, diag, cleanup, disk, queue,
                 changes, faults, lost>>
SendResume ==
  /\ saver # None /\ saver' = None
  /\ UNCHANGED rev
  /\ Send([op |-> "resume", epoch |-> saver[1], source |-> saver[2]], {saver[2]}, {})
  /\ Fault(Full)
  /\ UNCHANGED <<project, scheduler, history, session, diag, cleanup, disk, changes>>

\* close: the session is closed, and its cleanup is retried until detach succeeds.
Close ==
  /\ sess = "open" /\ sess' = "closing" /\ Change
  /\ UNCHANGED <<project, scheduler, history, epoch, carried, doc, seen, dirty, rev, diag,
                 cleanup, disk, saver, queue, faults, lost>>
Detach ==
  /\ sess = "closing" /\ Len(queue) < Capacity /\ sess' = "closed"
  /\ queue' = Append(queue, [op |-> "cancel", epoch |-> epoch])
  /\ UNCHANGED <<project, scheduler, history, epoch, carried, doc, seen, dirty, rev, diag,
                 cleanup, disk, saver, changes, faults, lost>>

-------------------------------------------------------------------------------
\* apply_canvas_feedback_diagnostics, for the session that is still routed. A snapshot
\* that is rebuilt has no watch diagnostic.
Report(e, d, c) ==
  LET renders == d \cap Sources
      heard == /\ e = epoch /\ sess \in {"routed", "read", "open"}
               /\ <<renders, c>> # <<diag \cap Sources, cleanup>>
  IN /\ diag' = IF heard THEN renders ELSE diag
     /\ cleanup' = IF heard THEN c ELSE cleanup
     /\ rev' = IF heard THEN rev + 1 ELSE rev

\* What becomes of states whose work is dropped: the active ones stay.
Drop(states, keys) ==
  [k \in Keys |->
     IF k \notin keys THEN states[k]
     ELSE IF states[k].active = 0 THEN Gone
     ELSE [states[k] EXCEPT !.queued = 0, !.queuedForStart = FALSE, !.latest = FALSE]]

\* Mutant: the active work stays the latest.
QueueBehind(states, k, d) ==
  [states EXCEPT ![k] = [desc |-> d, queued |-> d, active |-> @.active, latest |-> @.latest,
                         queuedForStart |-> @.queuedForStart \/ @.active = 0]]
\* The work of one artifact is queued, and the active work is superseded.
Queue(states, k, d) ==
  [states EXCEPT ![k] = [desc |-> d, queued |-> d, active |-> @.active, latest |-> FALSE,
                         queuedForStart |-> @.queuedForStart \/ @.active = 0]]

\* activate_session_epoch
Others(e) == {k \in Keys : k[1] # e}
Activated(e) == Drop(st, Others(e))
ReadyOf(e) == SelectSeq(ready, LAMBDA k : k[1] = e)
DocOf(e) == [f \in Sessions |-> IF f = e THEN latestDoc[f] ELSE 0]
SrcOf(e) == [k \in Keys |-> IF k[1] = e THEN latestSrc[k] ELSE 0]

\* enqueue_descriptor for each key, in this order; queue_for_start
QueueAll(states, e, keys, d) ==
  /\ st' = [k \in Keys |-> IF k \in keys THEN Queue(states, k, d[k[2]])[k] ELSE states[k]]
  /\ ready' = ReadyOf(e) \o SelectSeq([i \in 1..Len(Order) |-> <<e, Order[i]>>],
                LAMBDA k : k \in keys /\ states[k].active = 0 /\ ~states[k].queuedForStart)

\* remove_obsolete_states, remove_unexpected_artifacts: the first removal that
\* fails ends the cleanup.
Clean(d, kept) ==
  /\ kept \subseteq {s \in Sources : d[s] = 0 /\ disk[s] # None}
  /\ Fault(kept # {})
  /\ disk' = [s \in Sources |-> IF d[s] = 0 /\ s \notin kept THEN None ELSE disk[s]]

\* Does the accepted command bring what was lost?
Still(m, s) == IF m.epoch = epoch /\ m.rev >= lost[s] /\ m.doc[s] = file[s] THEN 0 ELSE lost[s]

\* accept_document_revision, enqueue_document_state
EnqueueDocument(m) ==
  LET e == m.epoch
      wanted == {k \in Keys : k[1] = e /\ m.doc[k[2]] # 0}
      obsolete == {k \in Keys : k[1] = e} \ wanted
  IN /\ m.rev > DocOf(e)[e]
     /\ latestDoc' = [DocOf(e) EXCEPT ![e] = m.rev]
     /\ latestSrc' = [k \in Keys |-> IF SrcOf(e)[k] > m.rev THEN SrcOf(e)[k] ELSE 0]
     /\ QueueAll(Drop(Activated(e), obsolete), e, wanted, m.doc)
     /\ \E kept \in SUBSET Sources :
          /\ Clean(m.doc, kept)
          /\ Report(e, {s \in diag \cap Sources : m.doc[s] # 0}, kept # {})
     /\ accepted' = m.doc /\ revived' = {}
     /\ lost' = [s \in Sources |-> Still(m, s)]

\* accept_source_revision, enqueue_source_state
EnqueueSource(m) ==
  LET k == <<m.epoch, m.source>>
      gone == IF m.doc[m.source] = 0 THEN {k} ELSE {}
  IN /\ m.rev > DocOf(m.epoch)[m.epoch] /\ m.rev > latestSrc[k]
     /\ latestDoc' = DocOf(m.epoch)
     /\ latestSrc' = [SrcOf(m.epoch) EXCEPT ![k] = m.rev]
     /\ QueueAll(Drop(Activated(m.epoch), gone), m.epoch, {k} \ gone, m.doc)
     /\ \E kept \in SUBSET Sources :
          /\ Clean(m.doc, kept)
          /\ Report(m.epoch, IF gone = {} THEN diag ELSE diag \ {m.source}, kept # {})
     /\ accepted' = [accepted EXCEPT ![m.source] = m.doc[m.source]]
     /\ revived' = revived \ {m.source}
     /\ lost' = [lost EXCEPT ![m.source] = Still(m, m.source)]

\* A command of a revision that is not newer only activates its session.
Reject(m) ==
  /\ \/ m.rev <= DocOf(m.epoch)[m.epoch]
     \/ m.op = "source" /\ m.rev <= latestSrc[<<m.epoch, m.source>>]
  /\ st' = Activated(m.epoch) /\ ready' = ReadyOf(m.epoch)
  /\ latestDoc' = DocOf(m.epoch) /\ latestSrc' = SrcOf(m.epoch)
  /\ UNCHANGED <<rev, diag, cleanup, disk, faults, history, lost>>

\* Mutant: only an artifact that waits is resumed, not one that is being rendered.
ResumeWaiting(m) ==
  LET k == <<m.epoch, m.source>>
      found == IF st[k].desc # 0 /\ st[k].active = 0 THEN {k} ELSE {}
  IN /\ st' = [j \in Keys |-> IF j \in found THEN Queue(st, j, st[j].desc)[j] ELSE st[j]]
     /\ ready' = IF found # {} /\ ~st[k].queuedForStart THEN Append(ready, k) ELSE ready
     /\ UNCHANGED <<latestDoc, latestSrc, rev, diag, cleanup, disk, faults, history, lost>>
\* resume_video_frame_state
Resume(m) ==
  LET k == <<m.epoch, m.source>>
      found == IF st[k].desc # 0 THEN {k} ELSE {}
      dropped == st[k].active # 0 /\ ~st[k].latest /\ st[k].queued = 0
  IN /\ st' = [j \in Keys |-> IF j \in found THEN Queue(st, j, st[j].desc)[j] ELSE st[j]]
     /\ ready' = IF found # {} /\ st[k].active = 0 /\ ~st[k].queuedForStart
                 THEN Append(ready, k) ELSE ready
     /\ revived' = IF found # {} /\ dropped THEN revived \cup {m.source} ELSE revived
     /\ UNCHANGED <<latestDoc, latestSrc, rev, diag, cleanup, disk, faults, accepted, lost>>

\* cancel_project_state
CancelProject(m) ==
  LET own == {k \in Keys : k[1] = m.epoch}
  IN /\ st' = Drop(st, own)
     /\ ready' = SelectSeq(ready, LAMBDA k : k \notin own)
     /\ latestDoc' = [latestDoc EXCEPT ![m.epoch] = 0]
     /\ latestSrc' = [k \in Keys |-> IF k \in own THEN 0 ELSE latestSrc[k]]
     /\ accepted' = [s \in Sources |-> 0]
     /\ UNCHANGED <<rev, diag, cleanup, disk, faults, lost, revived>>

-------------------------------------------------------------------------------
\* publish_render_failure: what is left of the artifact is removed, if it can be.
Failed(k, counted) ==
  \E kept \in {d \in {None, disk[k[2]]} : d = None \/ ~counted} :
    /\ disk' = [disk EXCEPT ![k[2]] = kept]
    /\ Fault(counted \/ kept # None)
    /\ Report(k[1], diag \cup {k[2]}, cleanup)

Written(k, result) ==
  /\ disk' = [disk EXCEPT ![k[2]] = result] /\ UNCHANGED faults
  /\ Report(k[1], diag \ {k[2]}, cleanup)

Untouched == UNCHANGED <<disk, diag, cleanup, rev, faults>>

\* complete_epoch
Complete(m) ==
  LET k == m.key  s == st[k]  own == s.active = m.job
      waiting == s.latest /\ m.result = "pending"
      next == IF s.queued # 0
              THEN [s EXCEPT !.active = 0, !.latest = FALSE, !.queuedForStart = TRUE]
              ELSE IF waiting THEN [s EXCEPT !.active = 0, !.latest = FALSE]
              ELSE Gone
  IN /\ st' = IF own THEN [st EXCEPT ![k] = next] ELSE st
     /\ slots' = IF own THEN slots - 1 ELSE slots
     /\ ready' = IF own /\ s.queued # 0 /\ ~s.queuedForStart THEN Append(ready, k) ELSE ready
     /\ IF own /\ s.latest
        THEN CASE m.result = "ok"      -> Written(k, m.image) \/ Failed(k, TRUE)
               [] m.result = "failed"  -> Failed(k, FALSE)
               [] m.result = "pending" -> Untouched
        ELSE Untouched
     /\ job' = [job EXCEPT ![m.job] = Idle]
     /\ UNCHANGED <<latestDoc, latestSrc, history, lost>>

\* run_scheduler: start_ready has nothing left to start before the next recv.
Startable == slots < MaxConcurrent /\ ready # <<>>
Handle ==
  /\ ~Startable /\ queue # <<>> /\ queue' = Tail(queue)
  /\ LET m == Head(queue)
     IN \/ m.op = "document" /\ EnqueueDocument(m) /\ UNCHANGED <<slots, job>>
        \/ m.op = "source" /\ EnqueueSource(m) /\ UNCHANGED <<slots, job>>
        \/ m.op \in {"document", "source"} /\ Reject(m) /\ UNCHANGED <<slots, job>>
        \/ m.op = "resume" /\ Resume(m) /\ UNCHANGED <<slots, job>>
        \/ m.op = "cancel" /\ CancelProject(m) /\ UNCHANGED <<slots, job>>
        \/ m.op = "completed" /\ Complete(m)
  /\ UNCHANGED <<project, session, saver, changes>>

\* start_ready, for the key at the front: a thread that does not start completes
\* its epoch with a failure.
Start ==
  /\ Startable /\ ready' = Tail(ready)
  /\ LET k == Head(ready)  s == st[k]
         started == s.queued # 0 /\ s.active = 0
     IN \/ /\ ~started
           /\ st' = IF s.desc = 0 THEN st ELSE [st EXCEPT ![k].queuedForStart = FALSE]
           /\ UNCHANGED <<slots, job>> /\ Untouched
        \/ /\ started
           /\ \E j \in Jobs :
                /\ job[j] = Idle /\ \A i \in 1..j - 1 : job[i] # Idle
                /\ job' = [job EXCEPT ![j] = [key |-> k, doc |-> s.queued, pix |-> 0,
                                              stage |-> "render"]]
                /\ st' = [st EXCEPT ![k] = [@ EXCEPT !.queued = 0, !.active = j,
                                            !.queuedForStart = FALSE, !.latest = TRUE]]
           /\ slots' = slots + 1 /\ Untouched
        \/ /\ started /\ st' = [st EXCEPT ![k] = Gone]
           /\ UNCHANGED <<slots, job>> /\ Failed(k, TRUE)
  /\ UNCHANGED <<project, session, history, latestDoc, latestSrc, saver, queue, changes,
                 lost>>

\* render: the source is read while others may write it.
Render(j) ==
  /\ job[j].stage = "render"
  /\ LET s == job[j].key[2]
     IN \/ /\ s \in Moments /\ frame[s] # pix[s]
           /\ job' = [job EXCEPT ![j].stage = "pending"] /\ UNCHANGED faults
        \/ /\ s \notin Moments \/ frame[s] = pix[s]
           /\ job' = [job EXCEPT ![j] = [@ EXCEPT !.pix = pix[s], !.stage = "ok"]]
           /\ UNCHANGED faults
        \/ /\ Fault(TRUE) /\ job' = [job EXCEPT ![j].stage = "failed"]
  /\ UNCHANGED <<project, session, history, st, ready, slots, latestDoc, latestSrc, rev,
                 diag, cleanup, disk, saver, queue, changes, lost>>

\* The thread's blocking send is its last step.
SendCompleted(j) ==
  /\ job[j].stage \in {"ok", "failed", "pending"} /\ Len(queue) < Capacity
  /\ queue' = Append(queue, [op |-> "completed", key |-> job[j].key, job |-> j,
                             result |-> job[j].stage,
                             image |-> <<job[j].doc, job[j].pix>>])
  /\ job' = [job EXCEPT ![j] = [Idle EXCEPT !.stage = "sent"]]
  /\ UNCHANGED <<project, session, history, st, ready, slots, latestDoc, latestSrc, rev,
                 diag, cleanup, disk, saver, changes, faults, lost>>

SchedulerStep == Handle \/ Start
Next == \/ Open \/ Attach \/ External \/ Watch \/ SendResume \/ Close \/ Detach
        \/ SchedulerStep
        \/ \E s \in Sources : Edit(s)
        \/ \E s \in Moments : SaveFrame(s)
        \/ \E j \in Jobs : Render(j) \/ SendCompleted(j)

Spec == Init /\ [][Next]_vars
Fairness == /\ WF_vars(Attach) /\ WF_vars(Watch) /\ WF_vars(SendResume)
            /\ WF_vars(SchedulerStep)
            /\ \A j \in Jobs : WF_vars(Render(j)) /\ WF_vars(SendCompleted(j))
FairSpec == Spec /\ Fairness

-------------------------------------------------------------------------------
TypeOK ==
  /\ sess \in {"closed", "routed", "read", "open", "closing"}
  /\ doc \in [Sources -> Entries] /\ file \in [Sources -> Entries]
  /\ diag \subseteq Sources \cup {"watch"} /\ cleanup \in BOOLEAN
  /\ Len(queue) <= Capacity /\ slots \in Nat
  /\ DOMAIN st = Keys /\ \A i \in 1..Len(ready) : ready[i] \in Keys
  /\ job \in [Jobs -> [key : Keys \cup {<<0, 0>>}, doc : Entries, pix : Nat,
                       stage : {"free", "render", "ok", "failed", "pending", "sent"}]]

\* What is written is the entry of the last command that was accepted for it, and
\* nothing once the session was cancelled, except for a state that a saved frame
\* resumed after its artifact was dropped.
NoSupersededWrite ==
  [][\A s \in Sources :
       disk'[s] \notin {disk[s], None} => s \in revived \/ disk'[s][1] = accepted[s]]_vars

\* The artifact is that of the entry and of the bytes on disk, or a diagnostic
\* says why not, or the video waits for its frame.
Current(s) == IF file[s] = 0 THEN disk[s] = None \/ cleanup
              ELSE \/ disk[s] = <<file[s], pix[s]>> \/ s \in diag
                   \/ s \in Moments /\ frame[s] # pix[s]

\* When changes end every artifact of an open Project becomes current and stays
\* so, with what is on disk. Except, until the Project is opened again: where the
\* queue was full, where a refresh of the watcher failed, and where the document was
\* changed by others behind an unlisted directory; and where a dropped artifact was
\* resumed.
EveryChangeSettles ==
  <>[](sess = "open" => \A s \in Sources : lost[s] # 0 \/ s \in revived \/ Current(s))
===============================================================================

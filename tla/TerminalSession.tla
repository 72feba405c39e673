---------------------------- MODULE TerminalSession ----------------------------
(* One Terminal of terminal/service.rs: the thread that creates it, the actor     *)
(* that owns its PTY, the reader, writer and wait threads that feed the actor's   *)
(* bounded command queue, the calls of `close`, and the drop of the service.      *)
(*                                                                               *)
(* What the child writes is counted in chunks; titles, sizes and what a client    *)
(* observes are left to TerminalHub. Timeouts may fire whenever the code waits    *)
(* with one. A failing kill is counted by `faults`; a kill that returned Ok and    *)
(* missed a process of the tree, as a macOS kill may, is noted by `escaped`.       *)
EXTENDS Naturals, Sequences

CONSTANTS Platform,  \* the operating system the Runtime is built for
          Closers,   \* threads that call close
          MaxOutput, \* bound on the chunks the child writes
          MaxInput,  \* bound on the inputs the clients send
          Capacity,  \* TERMINAL_COMMAND_CAPACITY
          InputCapacity, \* TERMINAL_INPUT_CAPACITY
          MaxFaults  \* bound on the kills that fail

ASSUME PlatformAssumption == Platform \in {"macos", "windows"}

\* A closer is none of the other names that the queue and the actor hold.
ASSUME CloserAssumption ==
  {"owner", "self", "none", "output", "readerClosed", "writerFailed", "exited", "input"}
    \cap Closers = {}
ASSUME BoundAssumption == /\ MaxOutput \in Nat /\ MaxInput \in Nat
                          /\ Capacity \in Nat \ {0}
                          /\ InputCapacity \in Nat \ {0}
                          /\ MaxFaults \in Nat

Callers == Closers \cup {"owner"} \* whoever drops the handle

VARIABLES
  creator,  \* the thread in create
  listed,   \* the session is in the registry of the Project
  use,      \* the ProjectUse of kind RunningTerminal is held
  child,    \* the shell: "none", "alive", "dead"
  rest,     \* the other processes of its tree that live on after it: "none" of them,
            \* some that hold the "pty" open, or only "other" ones
  escaped,  \* a kill that returned Ok has missed these
  written,  \* chunks written to the PTY
  read,     \* chunks taken by the reader thread
  shown,    \* chunks in the emulator
  reader,   \* "off", "on", "eof" (ReaderClosed is not sent yet), "end"
  notice,   \* ExitNotice.status is set
  waiter,   \* the wait thread: "off", "on", "sending", "end"
  inputs,   \* length of the writer's queue
  writer,   \* "off", "on", "failed" (WriterFailed is not sent yet), "end"
  queue,    \* the command queue
  typed,    \* inputs sent so far
  actor,    \* "off", "boot", "hold", "handed", "run", "grace", "confirm", "end"
  serving,  \* whose Close or Shutdown the actor is executing
  status,   \* view.status
  final,    \* final_checkpoint is set
  exited,   \* pending_exit is set, and so is the retirement deadline
  drained,  \* reader_closed
  broken,   \* tree_cleanup_error or force_error is set
  joined,   \* the JoinHandle was taken
  pc,       \* the callers
  reply,    \* the answer each of them waits for
  faults

Tree == <<child, rest, escaped>>
Pty == <<Tree, written, inputs>>
Threads == <<read, reader, notice, waiter, writer>>
State == <<shown, status, final, exited, drained, broken>>
Handle == <<creator, listed, joined>>
vars == <<Pty, Threads, State, Handle, use, queue, typed, actor, serving, pc, reply, faults>>

Init ==
  /\ creator = "idle" /\ listed = FALSE /\ use = FALSE
  /\ child = "none" /\ rest = "none" /\ escaped = FALSE
  /\ written = 0 /\ read = 0 /\ shown = 0
  /\ reader = "off" /\ notice = FALSE /\ waiter = "off"
  /\ inputs = 0 /\ writer = "off"
  /\ queue = <<>> /\ typed = 0 /\ actor = "off" /\ serving = "none"
  /\ status = "Starting" /\ final = FALSE /\ exited = FALSE /\ drained = FALSE
  /\ broken = FALSE /\ joined = FALSE
  /\ pc = [c \in Callers |-> "idle"] /\ reply = [c \in Callers |-> "none"]
  /\ faults = 0

Room == Len(queue) < Capacity
Gone == actor = "end" \* the receivers of the commands and of the inputs are dropped

\* A blocking send of a thread that then goes on as `next`.
Sends(command) == \/ Gone /\ UNCHANGED queue
                  \/ ~Gone /\ Room /\ queue' = Append(queue, command)

\* What may be left of processes of the tree that were `others`.
LeftOf(others) == {r \in {"none", "pty", "other"} : r = "none" \/ r = others \/ others = "pty"}

\* ChildProcessTree::force_kill, when it returns Ok. A Windows job ends as a whole. On
\* macOS the process group is signalled only while the shell is the process it was, and
\* beyond it those that were observed as its descendants: a process that left the group
\* or was reparented lives on.
Kills ==
  /\ child' = "dead"
  /\ rest' \in IF Platform = "windows" THEN {"none"}
               ELSE LeftOf(IF child = "alive" THEN "pty" ELSE rest)
  /\ escaped' = (rest' # "none")
KillFails == /\ faults < MaxFaults
             /\ faults' = faults + 1
             /\ UNCHANGED Tree

-----------------------------------------------------------------------------
(* create and spawn_terminal.                                                  *)

Create ==
  /\ creator = "idle" /\ actor = "off" /\ pc["owner"] = "idle"
  /\ creator' = "starting"
  /\ use' = TRUE
  /\ actor' = "boot"
  /\ UNCHANGED <<Pty, Threads, State, listed, joined, queue, typed, serving, pc, reply, faults>>

\* start_terminal_actor; it fails before the child runs, or kills it.
Boots ==
  /\ actor = "boot"
  /\ actor' = "hold"
  /\ child' = "alive" /\ reader' = "on" /\ waiter' = "on" /\ writer' = "on"
  /\ status' = "Running"
  /\ UNCHANGED <<rest, escaped, written, inputs, read, notice, shown, final, exited, drained, broken,
                 Handle, use, queue, typed, serving, pc, reply, faults>>

BootFails ==
  /\ actor = "boot"
  /\ actor' = "end"
  /\ UNCHANGED <<Pty, Threads, State, Handle, use, queue, typed, serving, pc, reply, faults>>

\* The creator hears that the actor is up and hands the Project use over, or that it
\* is not, and drops it.
CreatorHears ==
  /\ creator = "starting"
  /\ \/ actor = "hold" /\ actor' = "handed" /\ creator' = "activating" /\ UNCHANGED use
     \/ actor = "end" /\ creator' = "idle" /\ use' = FALSE /\ UNCHANGED actor
  /\ UNCHANGED <<Pty, Threads, State, listed, joined, queue, typed, serving, pc, reply, faults>>

\* TERMINAL_START_TIMEOUT: the actor that comes up later finds no activation.
CreatorTimesOut ==
  /\ creator = "starting"
  /\ creator' = "idle"
  /\ use' = FALSE
  /\ UNCHANGED <<Pty, Threads, State, listed, joined, queue, typed, actor, serving, pc, reply, faults>>

Activate ==
  /\ actor = "handed"
  /\ actor' = "run"
  /\ UNCHANGED <<Pty, Threads, State, Handle, use, queue, typed, serving, pc, reply, faults>>

\* The activation is answered and the session listed, or it is not in time and the
\* creator shuts its Terminal down.
List ==
  /\ creator = "activating"
  /\ \/ /\ actor \notin {"hold", "handed"}
        /\ listed' = TRUE
        /\ UNCHANGED pc
     \/ /\ pc' = [pc EXCEPT !["owner"] = "send"]
        /\ UNCHANGED listed
  /\ creator' = "idle"
  /\ UNCHANGED <<Pty, Threads, State, joined, use, queue, typed, actor, serving, reply, faults>>

\* Mutant: the actor runs although nobody activated it.
AbandonedRuns ==
  /\ actor = "hold" /\ creator = "idle"
  /\ actor' = "run"
  /\ UNCHANGED <<Pty, Threads, State, Handle, use, queue, typed, serving, pc, reply, faults>>
\* The actor whose creator gave up closes itself.
Abandoned ==
  /\ actor = "hold" /\ creator = "idle"
  /\ actor' = "grace"
  /\ serving' = "self"
  /\ status' = "Terminating"
  /\ UNCHANGED <<Pty, Threads, shown, final, exited, drained, broken, Handle, use, queue, typed,
                 pc, reply, faults>>

-----------------------------------------------------------------------------
(* The child and the threads at the PTY.                                       *)

ChildWrites ==
  /\ child = "alive" \/ rest = "pty"
  /\ written < MaxOutput
  /\ written' = written + 1
  /\ UNCHANGED <<Tree, inputs, Threads, State, Handle, use, queue, typed, actor, serving,
                 pc, reply, faults>>

\* By itself, or on the SIGTERM of a close.
ChildExits ==
  /\ child = "alive"
  /\ child' = "dead"
  /\ rest' \in {"none", "pty", "other"}
  /\ UNCHANGED <<escaped, written, inputs, Threads, State, Handle, use, queue, typed, actor, serving,
                 pc, reply, faults>>

\* What outlives the shell ends by itself, or only closes the PTY.
RestEnds ==
  /\ rest # "none"
  /\ rest' \in LeftOf(rest) \ {rest}
  /\ escaped' = (escaped /\ rest' # "none")
  /\ UNCHANGED <<child, written, inputs, Threads, State, Handle, use, queue, typed,
                 actor, serving, pc, reply, faults>>

\* read_terminal_output. The end of the actor closes the PTY.
ReaderReads ==
  /\ reader = "on"
  /\ read < written
  /\ read' = read + 1
  /\ Sends("output")
  /\ reader' = IF Gone THEN "end" ELSE "on"
  /\ UNCHANGED <<Pty, notice, waiter, writer, State, Handle, use, typed, actor, serving, pc, reply, faults>>

ReaderEnds ==
  /\ reader = "on"
  /\ Gone \/ (read = written /\ child = "dead" /\ rest # "pty")
  /\ reader' = "eof"
  /\ UNCHANGED <<Pty, read, notice, waiter, writer, State, Handle, use, queue, typed, actor, serving,
                 pc, reply, faults>>

ReaderCloses ==
  /\ reader = "eof"
  /\ Sends("readerClosed")
  /\ reader' = "end"
  /\ UNCHANGED <<Pty, read, notice, waiter, writer, State, Handle, use, typed, actor, serving,
                 pc, reply, faults>>

\* The wait thread: the notice first, then the command.
WaiterNotices ==
  /\ waiter = "on"
  /\ child = "dead"
  /\ notice' = TRUE
  /\ waiter' = "sending"
  /\ UNCHANGED <<Pty, read, reader, writer, State, Handle, use, queue, typed, actor, serving,
                 pc, reply, faults>>

WaiterSends ==
  /\ waiter = "sending"
  /\ Sends("exited")
  /\ waiter' = "end"
  /\ UNCHANGED <<Pty, read, reader, notice, writer, State, Handle, use, typed, actor, serving,
                 pc, reply, faults>>

\* write_terminal_input: one write, which may block as long as the child lives.
WriterWrites ==
  /\ writer = "on"
  /\ inputs > 0
  /\ inputs' = inputs - 1
  /\ writer' \in IF child = "dead" THEN {"on", "failed"} ELSE {"on"}
  /\ UNCHANGED <<Tree, written, read, reader, notice, waiter, State, Handle, use, queue, typed,
                 actor, serving, pc, reply, faults>>

WriterSends ==
  /\ writer = "failed"
  /\ Sends("writerFailed")
  /\ writer' = "end"
  /\ UNCHANGED <<Pty, read, reader, notice, waiter, State, Handle, use, typed, actor, serving,
                 pc, reply, faults>>

WriterEnds ==
  /\ writer = "on"
  /\ Gone
  /\ writer' = "end"
  /\ UNCHANGED <<Pty, read, reader, notice, waiter, State, Handle, use, queue, typed, actor, serving,
                 pc, reply, faults>>

-----------------------------------------------------------------------------
(* run_terminal_actor.                                                         *)

Runs == actor = "run"
Takes(command) == Runs /\ queue # <<>> /\ Head(queue) = command
\* The queue is dropped with the receiver.
Keeps(commands) == queue' = IF actor' = "end" THEN <<>> ELSE commands

\* fail_writer, the first time: the tree is killed.
FailsWriter ==
  IF status = "Failed" THEN UNCHANGED <<Tree, status, faults>>
  ELSE /\ status' = "Failed"
       /\ \/ Kills /\ UNCHANGED faults
          \/ KillFails

WriterAlive == writer = "on"

\* try_send to the writer: a full or dropped queue fails the Terminal.
Feeds ==
  IF WriterAlive /\ inputs < InputCapacity
  THEN inputs' = inputs + 1 /\ UNCHANGED <<Tree, status, faults>>
  ELSE UNCHANGED inputs /\ FailsWriter

\* publish_output, with the device response that some of it asks for.
TakeOutput ==
  /\ Takes("output")
  /\ queue' = Tail(queue)
  /\ shown' = shown + 1
  /\ \/ Feeds
     \/ UNCHANGED <<Tree, inputs, status, faults>>
  /\ UNCHANGED <<written, Threads, final, exited, drained, broken, Handle, use, typed, actor, serving,
                 pc, reply>>

TakeInput ==
  /\ Takes("input")
  /\ queue' = Tail(queue)
  /\ IF status = "Running" THEN Feeds ELSE UNCHANGED <<Tree, inputs, status, faults>>
  /\ UNCHANGED <<written, Threads, shown, final, exited, drained, broken, Handle, use, typed, actor,
                 serving, pc, reply>>

TakeWriterFailed ==
  /\ Takes("writerFailed")
  /\ queue' = Tail(queue)
  /\ FailsWriter
  /\ UNCHANGED <<written, inputs, Threads, shown, final, exited, drained, broken, Handle, use, typed,
                 actor, serving, pc, reply>>

\* Mutant: only the command of the writer is believed.
WriterReported == status = "Failed"
\* The writer's own note of its failure, which may be ahead of its command.
WriterFailure == writer \in {"failed", "end"}

\* publish_exit_if_ready, once it is: the status the exit is published with.
ExitStatus(allRead, clean) ==
  IF status # "Failed" /\ ~WriterFailure /\ clean /\ allRead THEN "Exited" ELSE "Failed"

\* The actor publishes the exit and ends: use, tree and observers go with it.
\* When it is the writer's note that fails the Terminal here, fail_writer kills once more
\* what a kill just before has failed to take or missed; RestEnds stands for what it does.
Retires(allRead, clean) ==
  /\ status' = ExitStatus(allRead, clean)
  /\ final' = TRUE
  /\ use' = FALSE
  /\ actor' = "end"

TakeReaderClosed ==
  /\ Takes("readerClosed")
  /\ drained' = TRUE
  /\ IF exited THEN Retires(TRUE, ~broken) ELSE UNCHANGED <<status, final, use, actor>>
  /\ Keeps(Tail(queue))
  /\ UNCHANGED <<Pty, Threads, shown, exited, broken, Handle, typed, serving, pc, reply, faults>>

\* Mutant: the exit is published as soon as it is known.
ExitAtOnce ==
  /\ Takes("exited")
  /\ exited' = TRUE
  /\ \/ Kills /\ broken' = FALSE /\ UNCHANGED faults
     \/ KillFails /\ broken' = TRUE
  /\ Retires(TRUE, ~broken')
  /\ Keeps(Tail(queue))
  /\ UNCHANGED <<written, inputs, Threads, shown, drained, Handle, typed, serving, pc, reply>>
\* The rest of the tree is killed, and the drain of the output gets its deadline.
TakeExited ==
  /\ Takes("exited")
  /\ exited' = TRUE
  /\ \/ Kills /\ broken' = FALSE /\ UNCHANGED faults
     \/ KillFails /\ broken' = TRUE
  /\ IF drained THEN Retires(TRUE, ~broken') ELSE UNCHANGED <<status, final, use, actor>>
  /\ Keeps(Tail(queue))
  /\ UNCHANGED <<written, inputs, Threads, shown, drained, Handle, typed, serving, pc, reply>>

\* Mutant: the drain of the output has no deadline.
DrainWaits ==
  /\ Runs /\ exited /\ drained
  /\ Retires(drained, ~broken)
  /\ Keeps(queue)
  /\ UNCHANGED <<Pty, Threads, shown, exited, drained, broken, Handle, typed, serving,
                 pc, reply, faults>>
DrainExpires ==
  /\ Runs /\ exited
  /\ Retires(drained, ~broken)
  /\ Keeps(queue)
  /\ UNCHANGED <<Pty, Threads, shown, exited, drained, broken, Handle, typed, serving,
                 pc, reply, faults>>

\* An answer that nobody waits for any more is lost, and so is one to an abandoned start.
Answers(c, answer) ==
  reply' = IF c \in Callers /\ pc[c] = "wait" THEN [reply EXCEPT ![c] = answer] ELSE reply

Ends == actor' = "end" /\ use' = FALSE

\* Close and Shutdown, up to the SIGTERM; a failed Terminal has nothing to wait for.
TakeClose(c) ==
  /\ Takes(c)
  /\ IF status = "Failed"
     THEN Ends /\ Answers(c, "ok") /\ UNCHANGED <<status, serving>>
     ELSE /\ status' = "Terminating"
          /\ serving' = c
          /\ actor' = "grace"
          /\ UNCHANGED <<use, reply>>
  /\ Keeps(Tail(queue))
  /\ UNCHANGED <<Pty, Threads, shown, final, exited, drained, broken, Handle, typed, pc, faults>>

\* Mutant: the SIGTERM is taken to have ended the tree.
TrustTerminate ==
  /\ actor = "grace"
  /\ actor' = "confirm"
  /\ broken' = FALSE
  /\ UNCHANGED <<Pty, Threads, shown, status, final, exited, drained, Handle, use, queue, typed,
                 serving, pc, reply, faults>>
\* After the exit or one second: the whole tree is killed.
ForceKill ==
  /\ actor = "grace"
  /\ actor' = "confirm"
  /\ \/ Kills /\ broken' = FALSE /\ UNCHANGED faults
     \/ KillFails /\ broken' = TRUE
  /\ UNCHANGED <<written, inputs, Threads, shown, status, final, exited, drained, Handle, use,
                 queue, typed, serving, pc, reply>>

\* The exit is noticed, or is not within two seconds, and the kill failed or not. A
\* Shutdown ends the actor either way, and so does an abandoned start.
Confirm ==
  /\ actor = "confirm"
  /\ IF notice /\ ~broken
     THEN Ends /\ Answers(serving, "ok")
     ELSE /\ Answers(serving, "failed")
          /\ IF serving \in Closers THEN actor' = "run" /\ UNCHANGED use ELSE Ends
  /\ broken' = FALSE
  /\ serving' = "none"
  /\ Keeps(queue)
  /\ UNCHANGED <<Pty, Threads, shown, status, final, exited, drained, Handle, typed,
                 pc, faults>>

ActorStep ==
  \/ Boots \/ BootFails \/ Activate \/ Abandoned
  \/ TakeOutput \/ TakeInput \/ TakeWriterFailed \/ TakeReaderClosed \/ TakeExited
  \/ DrainExpires \/ \E c \in Callers : TakeClose(c)
  \/ ForceKill \/ Confirm

-----------------------------------------------------------------------------
(* The callers: write_input, close, and whoever drops the handle.              *)

Input ==
  /\ listed /\ pc["owner"] = "idle"
  /\ typed < MaxInput
  /\ typed' = typed + 1
  /\ ~Gone /\ Room
  /\ queue' = Append(queue, "input")
  /\ UNCHANGED <<Pty, Threads, State, Handle, use, actor, serving, pc, reply, faults>>

Moves(c, to) == /\ pc' = [pc EXCEPT ![c] = to]
                /\ UNCHANGED <<Pty, Threads, State, creator, use, actor, typed, serving>>

\* request_close: a Terminal that has retired is only joined.
Close(c) ==
  /\ c \in Closers /\ pc[c] = "idle"
  /\ listed /\ pc["owner"] = "idle"
  /\ Moves(c, IF final THEN "join" ELSE "send")
  /\ UNCHANGED <<listed, joined, queue, reply, faults>>

\* The drop of the service, or of a retired Terminal that makes room for another.
Drop ==
  /\ listed /\ pc["owner"] = "idle"
  /\ creator = "idle" /\ \A c \in Closers : pc[c] = "idle"
  /\ Moves("owner", IF final THEN "join" ELSE "send")
  /\ UNCHANGED <<listed, joined, queue, reply, faults>>

Send(c) ==
  /\ pc[c] = "send"
  /\ ~Gone /\ Room
  /\ queue' = Append(queue, c)
  /\ Moves(c, "wait")
  /\ UNCHANGED <<listed, joined, reply, faults>>

\* Mutant: the owner joins before it kills.
JoinsOnError(c) == IF c = "owner" THEN "join" ELSE "idle"
\* What an error leads to: the owner kills the tree and joins.
OnError(c) == IF c = "owner" THEN "force" ELSE "idle"

SendFails(c) ==
  /\ pc[c] = "send"
  /\ Gone \/ ~Room
  /\ Moves(c, OnError(c))
  /\ UNCHANGED <<listed, joined, queue, reply, faults>>

\* A Shutdown is joined whatever its answer; then the owner sees the error.
Hear(c) ==
  /\ pc[c] = "wait"
  /\ reply[c] # "none"
  /\ reply' = [reply EXCEPT ![c] = "none"]
  /\ Moves(c, IF reply[c] = "ok" THEN "join" ELSE OnError(c))
  /\ UNCHANGED <<listed, joined, queue, faults>>

\* TERMINAL_CLOSE_ACK_TIMEOUT, or the actor ended without an answer.
Unheard(c) ==
  /\ pc[c] = "wait"
  /\ reply[c] = "none"
  /\ Moves(c, OnError(c))
  /\ UNCHANGED <<listed, joined, queue, reply, faults>>

\* shutdown_owned after an error: the tree is killed, and then joined without a bound.
ForceOwned ==
  /\ pc["owner"] = "force"
  /\ pc' = [pc EXCEPT !["owner"] = "join"]
  /\ \/ Kills /\ UNCHANGED faults
     \/ KillFails
     \/ final /\ UNCHANGED <<Tree, faults>> \* the tree was given up with the exit
  /\ UNCHANGED <<written, inputs, Threads, State, Handle, use, queue, actor, typed, serving, reply>>

\* join_actor: the first caller takes the handle and waits, another one does not.
Join(c) ==
  /\ pc[c] = "join"
  /\ joined' = TRUE
  /\ Moves(c, IF joined THEN "remove" ELSE "joining")
  /\ UNCHANGED <<listed, queue, reply, faults>>

Joined(c) ==
  /\ pc[c] = "joining"
  /\ Gone
  /\ Moves(c, "remove")
  /\ UNCHANGED <<listed, joined, queue, reply, faults>>

Remove(c) ==
  /\ pc[c] = "remove"
  /\ listed' = FALSE
  /\ Moves(c, IF c = "owner" THEN "end" ELSE "idle")
  /\ UNCHANGED <<joined, queue, reply, faults>>

CallStep(c) ==
  \/ Send(c) \/ SendFails(c) \/ Hear(c) \/ Unheard(c)
  \/ Join(c) \/ Joined(c) \/ Remove(c) \/ (c = "owner" /\ ForceOwned)

-----------------------------------------------------------------------------
ReaderStep == ReaderReads \/ ReaderEnds \/ ReaderCloses
WaiterStep == WaiterNotices \/ WaiterSends
WriterStep == WriterWrites \/ WriterSends \/ WriterEnds
CreatorStep == CreatorHears \/ CreatorTimesOut \/ List

Next ==
  \/ Create \/ CreatorStep \/ ActorStep
  \/ ChildWrites \/ ChildExits \/ RestEnds
  \/ ReaderStep \/ WaiterStep \/ WriterStep
  \/ Input \/ Drop
  \/ \E c \in Callers : Close(c) \/ CallStep(c)

\* Threads run and timeouts expire; nothing is assumed of the child. A thread that is
\* blocked in a send is served in its turn.
Fairness ==
  /\ WF_vars(CreatorStep)
  /\ WF_vars(ActorStep)
  /\ SF_vars(ReaderStep)
  /\ SF_vars(WaiterStep)
  /\ \A c \in Callers : WF_vars(CallStep(c))

Spec == Init /\ [][Next]_vars /\ Fairness

-----------------------------------------------------------------------------
(* Type correctness.                                                            *)
TypeOK ==
  /\ creator \in {"idle", "starting", "activating"}
  /\ listed \in BOOLEAN /\ use \in BOOLEAN /\ joined \in BOOLEAN
  /\ child \in {"none", "alive", "dead"}
  /\ rest \in {"none", "pty", "other"} /\ escaped \in BOOLEAN
  /\ written \in 0..MaxOutput /\ read \in 0..MaxOutput /\ shown \in 0..MaxOutput
  /\ reader \in {"off", "on", "eof", "end"} /\ notice \in BOOLEAN
  /\ waiter \in {"off", "on", "sending", "end"}
  /\ inputs \in 0..InputCapacity /\ writer \in {"off", "on", "failed", "end"}
  /\ queue \in Seq({"output", "readerClosed", "writerFailed", "exited", "input"} \cup Callers)
  /\ Len(queue) <= Capacity
  /\ typed \in 0..MaxInput
  /\ actor \in {"off", "boot", "hold", "handed", "run", "grace", "confirm", "end"}
  /\ serving \in Callers \cup {"none", "self"}
  /\ status \in {"Starting", "Running", "Terminating", "Failed", "Exited"}
  /\ final \in BOOLEAN /\ exited \in BOOLEAN /\ drained \in BOOLEAN /\ broken \in BOOLEAN
  /\ pc \in [Callers -> {"idle", "send", "wait", "force", "join", "joining", "remove", "end"}]
  /\ reply \in [Callers -> {"none", "ok", "failed"}]
  /\ faults \in 0..MaxFaults

(* A Terminal is published as Exited only when its final checkpoint shows all that *)
(* its processes ever wrote, and none of them is left that can write more: the exit *)
(* is reported by one thread, the output by another (service.rs 1219-1239, 1681).    *)
ExitedShowsEverything ==
  final /\ status = "Exited" => shown = written /\ child = "dead" /\ rest # "pty"

(* As long as a process of the tree lives its Project is held open, so that no      *)
(* shell runs in a Project that was closed (service.rs 1049-1058, 1681-1808). The    *)
(* exceptions: a start that was given up, a kill that failed, and on macOS what a    *)
(* kill that returned Ok has missed (native-process/src/lib.rs 3-8, 462-490); the   *)
(* shell itself is never missed, and on Windows nothing is.                         *)
LiveTreeHoldsProject ==
  child = "alive" \/ (rest # "none" /\ (Platform = "windows" \/ ~escaped)) =>
    use \/ actor = "hold" \/ serving = "self" \/ faults > 0

(* A writer that failed before the exit is published makes the Terminal Failed,     *)
(* even if its own report is still in the queue behind the exit (service.rs 1690).  *)
WriterFailureIsPublished ==
  [][~final /\ final' /\ writer = "failed" => status' = "Failed"]_vars

\* A kill failed and the shell lives on.
Unkillable == child = "alive" /\ faults > 0

(* No Terminal lingers. An actor that came up is listed or ends, also when its      *)
(* creator has given up in the meantime; a Terminal whose shell is gone retires,    *)
(* whoever else keeps its PTY open, however full its queue is and whoever closes it *)
(* meanwhile (service.rs 1049-1101, 1344-1423).                                     *)
NoTerminalLingers ==
  /\ actor = "boot" ~> listed \/ Gone \/ Unkillable
  /\ child = "dead" ~> Gone

(* Every close returns, and so does the drop of the service, which joins the actor  *)
(* without a bound: unless the shell cannot be killed (service.rs 797-881).         *)
CallsReturn ==
  \A c \in Callers :
    pc[c] \notin {"idle", "end"} ~>
      pc[c] \in {"idle", "end"} \/ Unkillable
================================================================================

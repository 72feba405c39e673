------------------------ MODULE TerminalSessionProofs ------------------------
(***************************************************************************)
(* Proofs about TerminalSession, on both platforms, for any number of      *)
(* closers, of chunks and of inputs, and any capacity of the queues.       *)
(* Holding says that what is left of the child's tree was killed, unless a *)
(* kill failed or missed it, before the Project is let go; Ordered and     *)
(* Counted relate what the emulator shows, what waits in the command queue *)
(* and what the reader has read.                                           *)
(***************************************************************************)
EXTENDS TerminalSession, FiniteSetTheorems, TLAPS

Commands == {"output", "readerClosed", "writerFailed", "exited", "input"} \cup Callers

\* TypeOK in two parts, with the chunks in the emulator bounded later, by what was read.
Values ==
  /\ creator \in {"idle", "starting", "activating"}
  /\ child \in {"none", "alive", "dead"} /\ rest \in {"none", "pty", "other"}
  /\ written \in 0..MaxOutput /\ read \in 0..MaxOutput /\ shown \in Nat
  /\ reader \in {"off", "on", "eof", "end"}
  /\ waiter \in {"off", "on", "sending", "end"}
  /\ inputs \in 0..InputCapacity /\ writer \in {"off", "on", "failed", "end"}
  /\ queue \in Seq(Commands)
  /\ Len(queue) <= Capacity
  /\ typed \in 0..MaxInput
  /\ actor \in {"off", "boot", "hold", "handed", "run", "grace", "confirm", "end"}
  /\ serving \in Callers \cup {"none", "self"}
  /\ status \in {"Starting", "Running", "Terminating", "Failed", "Exited"}
  /\ pc \in [Callers -> {"idle", "send", "wait", "force", "join", "joining", "remove", "end"}]
  /\ reply \in [Callers -> {"none", "ok", "failed"}]
  /\ faults \in 0..MaxFaults

Flags ==
  /\ listed \in BOOLEAN /\ use \in BOOLEAN /\ joined \in BOOLEAN
  /\ escaped \in BOOLEAN /\ notice \in BOOLEAN
  /\ final \in BOOLEAN /\ exited \in BOOLEAN /\ drained \in BOOLEAN /\ broken \in BOOLEAN

Typed == Values /\ Flags

\* Nothing of the child's tree is left but what a kill has missed, or a kill has failed.
Down == (child # "alive" /\ (rest = "none" \/ escaped)) \/ faults > 0

\* Before the actor is up there is nothing to kill, and nobody who would.
Unstarted ==
  /\ actor \in {"off", "boot"} =>
       /\ child = "none" /\ ~exited
       /\ status = "Starting" /\ reader = "off" /\ ~drained
  /\ creator = "activating" \/ listed \/ pc["owner"] # "idle" => actor \notin {"off", "boot"}
  /\ creator = "starting" => pc["owner"] = "idle"
  /\ child = "none" => rest = "none"

\* The Project use goes from the creator to the actor; who gives it up has seen the
\* tree down. Only a macOS kill misses a process.
Holding ==
  /\ creator = "starting" => use /\ actor \in {"boot", "hold", "end"}
  /\ creator = "starting" /\ actor = "end" => child = "none"
  /\ actor \in {"handed", "run"} => use
  /\ actor \in {"grace", "confirm"} => use \/ serving = "self"
  /\ actor \in {"confirm", "end"} \/ exited \/ status = "Failed" => Down
  /\ escaped => Platform # "windows"

\* The places of the queue that hold a chunk.
Chunks(q) == {i \in 1..Len(q) : q[i] = "output"}

\* The reader ends after the last chunk was written, and says so behind it.
Ordered ==
  ~Gone =>
    /\ reader \in {"eof", "end"} => read = written /\ child = "dead" /\ rest # "pty"
    /\ \A i \in 1..Len(queue) : queue[i] = "readerClosed" =>
         reader = "end" /\ \A j \in Chunks(queue) : j < i
    /\ drained => reader = "end" /\ Chunks(queue) = {}

\* Each chunk that was read is shown or in the queue.
Counted == ~Gone => shown + Cardinality(Chunks(queue)) = read

Published == (final => Gone) /\ ExitedShowsEverything

Terminal ==
  Typed /\ shown <= MaxOutput /\ Unstarted /\ Holding /\ Ordered /\ Counted /\ Published

USE DEF Tree, Pty, Threads, State, Handle

-----------------------------------------------------------------------------
(* The queue.                                                              *)

LEMMA ChunksFinite ==
  ASSUME NEW q \in Seq(Commands)
  PROVE  IsFiniteSet(Chunks(q)) /\ Cardinality(Chunks(q)) \in Nat
<1>1. IsFiniteSet(1..Len(q)) /\ Chunks(q) \subseteq 1..Len(q)
  BY FS_Interval DEF Chunks
<1> QED BY <1>1, FS_Subset, FS_CardinalityType

\* A chunk joins the queue behind the others; nothing else counts.
LEMMA AppendChunks ==
  ASSUME NEW q \in Seq(Commands), NEW x \in Commands
  PROVE  /\ Chunks(Append(q, x)) = IF x = "output" THEN Chunks(q) \cup {Len(q) + 1} ELSE Chunks(q)
         /\ Cardinality(Chunks(Append(q, x))) =
              IF x = "output" THEN Cardinality(Chunks(q)) + 1 ELSE Cardinality(Chunks(q))
<1>1. Chunks(Append(q, x)) = IF x = "output" THEN Chunks(q) \cup {Len(q) + 1} ELSE Chunks(q)
  BY DEF Chunks
<1>2. Len(q) + 1 \notin Chunks(q)
  BY DEF Chunks
<1> QED BY <1>1, <1>2, ChunksFinite, FS_AddElement

\* The others move up when the head is taken.
LEMMA TailChunks ==
  ASSUME NEW q \in Seq(Commands), q # <<>>
  PROVE  /\ Chunks(Tail(q)) = {i \in 1..(Len(q) - 1) : i + 1 \in Chunks(q)}
         /\ Cardinality(Chunks(Tail(q))) =
              IF Head(q) = "output" THEN Cardinality(Chunks(q)) - 1 ELSE Cardinality(Chunks(q))
<1>1. Chunks(Tail(q)) = {i \in 1..(Len(q) - 1) : i + 1 \in Chunks(q)}
  BY DEF Chunks
<1> DEFINE Behind == Chunks(q) \ {1}
           f == [i \in Chunks(Tail(q)) |-> i + 1]
<1>2. f \in Bijection(Chunks(Tail(q)), Behind)
  <2>1. \A i \in Chunks(Tail(q)) : i \in Nat /\ i + 1 \in Behind
    BY <1>1 DEF Chunks
  <2>2. f \in [Chunks(Tail(q)) -> Behind]
    BY <2>1
  <2>3. \A k \in Behind : \E i \in Chunks(Tail(q)) : f[i] = k
    <3>1. ASSUME NEW k \in Behind PROVE k - 1 \in Chunks(Tail(q)) /\ f[k - 1] = k
      BY <1>1 DEF Chunks
    <3> QED BY <3>1
  <2>4. \A i, j \in Chunks(Tail(q)) : f[i] = f[j] => i = j
    BY <2>1
  <2> HIDE DEF f
  <2> QED BY <2>2, <2>3, <2>4 DEF Bijection, Injection, IsInjective, Surjection
<1>3. Tail(q) \in Seq(Commands)
  OBVIOUS
<1>4. Cardinality(Chunks(Tail(q))) = Cardinality(Behind)
  BY <1>2, <1>3, ChunksFinite, FS_Bijection DEF ExistsBijection
<1>5. 1 \in Chunks(q) <=> Head(q) = "output"
  BY DEF Chunks
<1> QED BY <1>1, <1>4, <1>5, ChunksFinite, FS_RemoveElement

-----------------------------------------------------------------------------
(* Types.                                                                   *)

\* What a step does to the queue: nothing, one more command at its end, or one fewer at
\* its head, which only the actor takes, or none once the actor is gone.
Sent(x) == ~Gone /\ Len(queue) < Capacity /\ queue' = Append(queue, x)
Taken(x) == Takes(x) /\ queue' = Tail(queue)
QueueStep ==
  \/ UNCHANGED queue
  \/ queue' = <<>>
  \/ \E x \in Commands : Sent(x)
  \/ \E x \in Commands : Taken(x)

LEMMA QueueMoves ==
  ASSUME [Next]_vars
  PROVE  QueueStep
<1> USE DEF QueueStep, Sent, Taken, Commands
<1>1. CASE Create
  BY <1>1 DEF Create
<1>2. CASE CreatorHears
  BY <1>2 DEF CreatorHears
<1>3. CASE CreatorTimesOut
  BY <1>3 DEF CreatorTimesOut
<1>4. CASE List
  BY <1>4 DEF List
<1>5. CASE Boots
  BY <1>5 DEF Boots
<1>6. CASE BootFails
  BY <1>6 DEF BootFails
<1>7. CASE Activate
  BY <1>7 DEF Activate
<1>8. CASE Abandoned
  BY <1>8 DEF Abandoned
<1>9. CASE TakeOutput
  BY <1>9 DEF TakeOutput
<1>10. CASE TakeInput
  BY <1>10 DEF TakeInput
<1>11. CASE TakeWriterFailed
  BY <1>11 DEF TakeWriterFailed
<1>12. CASE TakeReaderClosed
  BY <1>12 DEF TakeReaderClosed, Keeps
<1>13. CASE TakeExited
  BY <1>13 DEF TakeExited, Keeps
<1>14. CASE DrainExpires
  BY <1>14 DEF DrainExpires, Keeps
<1>15. ASSUME NEW c \in Callers, TakeClose(c) PROVE QueueStep
  BY <1>15 DEF TakeClose, Keeps
<1>16. CASE ForceKill
  BY <1>16 DEF ForceKill
<1>17. CASE Confirm
  BY <1>17 DEF Confirm, Keeps
<1>18. CASE ChildWrites
  BY <1>18 DEF ChildWrites
<1>19. CASE ChildExits
  BY <1>19 DEF ChildExits
<1>20. CASE RestEnds
  BY <1>20 DEF RestEnds
<1>21. CASE ReaderReads
  BY <1>21 DEF ReaderReads, Sends, Gone, Room
<1>22. CASE ReaderEnds
  BY <1>22 DEF ReaderEnds, Gone
<1>23. CASE ReaderCloses
  BY <1>23 DEF ReaderCloses, Sends, Gone, Room
<1>24. CASE WaiterNotices
  BY <1>24 DEF WaiterNotices
<1>25. CASE WaiterSends
  BY <1>25 DEF WaiterSends, Sends, Gone, Room
<1>26. CASE WriterWrites
  BY <1>26 DEF WriterWrites
<1>27. CASE WriterSends
  BY <1>27 DEF WriterSends, Sends, Gone, Room
<1>28. CASE WriterEnds
  BY <1>28 DEF WriterEnds, Gone
<1>29. CASE Input
  BY <1>29 DEF Input, Gone, Room
<1>30. CASE Drop
  BY <1>30 DEF Drop, Moves
<1>31. ASSUME NEW c \in Callers, Close(c) PROVE QueueStep
  BY <1>31 DEF Close, Moves
<1>32. ASSUME NEW c \in Callers, Send(c) PROVE QueueStep
  BY <1>32 DEF Send, Moves, Gone, Room
<1>33. ASSUME NEW c \in Callers, SendFails(c) PROVE QueueStep
  BY <1>33 DEF SendFails, Moves, Gone, Room
<1>34. ASSUME NEW c \in Callers, Hear(c) PROVE QueueStep
  BY <1>34 DEF Hear, Moves
<1>35. ASSUME NEW c \in Callers, Unheard(c) PROVE QueueStep
  BY <1>35 DEF Unheard, Moves
<1>36. ASSUME NEW c \in Callers, Join(c) PROVE QueueStep
  BY <1>36 DEF Join, Moves
<1>37. ASSUME NEW c \in Callers, Joined(c) PROVE QueueStep
  BY <1>37 DEF Joined, Moves, Gone
<1>38. ASSUME NEW c \in Callers, Remove(c) PROVE QueueStep
  BY <1>38 DEF Remove, Moves
<1>39. CASE ForceOwned
  BY <1>39 DEF ForceOwned
<1>40. CASE UNCHANGED vars
  BY <1>40 DEF vars
<1> QED BY <1>1, <1>2, <1>3, <1>4, <1>5, <1>6, <1>7, <1>8, <1>9, <1>10, <1>11, <1>12, <1>13,
           <1>14, <1>15, <1>16, <1>17, <1>18, <1>19, <1>20, <1>21, <1>22, <1>23, <1>24, <1>25,
           <1>26, <1>27, <1>28, <1>29, <1>30, <1>31, <1>32, <1>33, <1>34, <1>35, <1>36, <1>37,
           <1>38, <1>39, <1>40
         DEF Next, CreatorStep, ActorStep, ReaderStep, WaiterStep, WriterStep, CallStep

LEMMA QueueTyped ==
  ASSUME Values, [Next]_vars
  PROVE  queue' \in Seq(Commands) /\ Len(queue') <= Capacity
<1>1. QueueStep
  BY QueueMoves
<1> USE DEF Values
<1>2. CASE UNCHANGED queue
  BY <1>2
<1>3. ASSUME NEW x \in Commands, Sent(x) PROVE queue' \in Seq(Commands) /\ Len(queue') <= Capacity
  BY <1>3, BoundAssumption DEF Sent
<1>4. ASSUME NEW x \in Commands, Taken(x) PROVE queue' \in Seq(Commands) /\ Len(queue') <= Capacity
  BY <1>4, BoundAssumption DEF Taken, Takes
<1>5. CASE queue' = <<>>
  BY <1>5, BoundAssumption
<1> QED BY <1>1, <1>2, <1>3, <1>4, <1>5 DEF QueueStep

LEMMA NextValues ==
  ASSUME Values, [Next]_vars
  PROVE  Values'
<1> USE CloserAssumption, BoundAssumption DEF Values, Callers
<1>0. queue' \in Seq(Commands) /\ Len(queue') <= Capacity
  BY QueueTyped
<1>1. CASE Create
  BY <1>1, <1>0 DEF Create
<1>2. CASE CreatorHears
  BY <1>2, <1>0 DEF CreatorHears
<1>3. CASE CreatorTimesOut
  BY <1>3, <1>0 DEF CreatorTimesOut
<1>4. CASE List
  BY <1>4, <1>0 DEF List
<1>5. CASE Boots
  BY <1>5, <1>0 DEF Boots
<1>6. CASE BootFails
  BY <1>6, <1>0 DEF BootFails
<1>7. CASE Activate
  BY <1>7, <1>0 DEF Activate
<1>8. CASE Abandoned
  BY <1>8, <1>0 DEF Abandoned
<1>9. CASE TakeOutput
  BY <1>9, <1>0 DEF TakeOutput, Takes, Runs, Feeds, WriterAlive, FailsWriter, Kills, KillFails,
         LeftOf
<1>10. CASE TakeInput
  BY <1>10, <1>0 DEF TakeInput, Takes, Runs, Feeds, WriterAlive, FailsWriter, Kills, KillFails,
         LeftOf
<1>11. CASE TakeWriterFailed
  BY <1>11, <1>0 DEF TakeWriterFailed, Takes, Runs, FailsWriter, Kills, KillFails, LeftOf
<1>12. CASE TakeReaderClosed
  BY <1>12, <1>0 DEF TakeReaderClosed, Takes, Runs, Retires, ExitStatus, WriterFailure, Keeps
<1>13. CASE TakeExited
  BY <1>13, <1>0 DEF TakeExited, Takes, Runs, Kills, KillFails, LeftOf, Retires, ExitStatus,
         WriterFailure, Keeps
<1>14. CASE DrainExpires
  BY <1>14, <1>0 DEF DrainExpires, Runs, Retires, ExitStatus, WriterFailure, Keeps
<1>15. ASSUME NEW c \in Callers, TakeClose(c) PROVE Values'
  BY <1>15, <1>0 DEF TakeClose, Takes, Runs, Ends, Answers, Keeps
<1>16. CASE ForceKill
  BY <1>16, <1>0 DEF ForceKill, Kills, KillFails, LeftOf
<1>17. CASE Confirm
  BY <1>17, <1>0 DEF Confirm, Ends, Answers, Keeps
<1>18. CASE ChildWrites
  BY <1>18, <1>0 DEF ChildWrites
<1>19. CASE ChildExits
  BY <1>19, <1>0 DEF ChildExits
<1>20. CASE RestEnds
  BY <1>20, <1>0 DEF RestEnds, LeftOf
<1>21. CASE ReaderReads
  BY <1>21, <1>0 DEF ReaderReads, Sends, Gone, Room
<1>22. CASE ReaderEnds
  BY <1>22, <1>0 DEF ReaderEnds, Gone
<1>23. CASE ReaderCloses
  BY <1>23, <1>0 DEF ReaderCloses, Sends, Gone, Room
<1>24. CASE WaiterNotices
  BY <1>24, <1>0 DEF WaiterNotices
<1>25. CASE WaiterSends
  BY <1>25, <1>0 DEF WaiterSends, Sends, Gone, Room
<1>26. CASE WriterWrites
  BY <1>26, <1>0 DEF WriterWrites
<1>27. CASE WriterSends
  BY <1>27, <1>0 DEF WriterSends, Sends, Gone, Room
<1>28. CASE WriterEnds
  BY <1>28, <1>0 DEF WriterEnds, Gone
<1>29. CASE Input
  BY <1>29, <1>0 DEF Input, Gone, Room
<1>30. CASE Drop
  BY <1>30, <1>0 DEF Drop, Moves
<1>31. ASSUME NEW c \in Callers, Close(c) PROVE Values'
  BY <1>31, <1>0 DEF Close, Moves
<1>32. ASSUME NEW c \in Callers, Send(c) PROVE Values'
  BY <1>32, <1>0 DEF Send, Moves, Gone, Room
<1>33. ASSUME NEW c \in Callers, SendFails(c) PROVE Values'
  BY <1>33, <1>0 DEF SendFails, Moves, OnError, Gone, Room
<1>34. ASSUME NEW c \in Callers, Hear(c) PROVE Values'
  BY <1>34, <1>0 DEF Hear, Moves, OnError
<1>35. ASSUME NEW c \in Callers, Unheard(c) PROVE Values'
  BY <1>35, <1>0 DEF Unheard, Moves, OnError
<1>36. ASSUME NEW c \in Callers, Join(c) PROVE Values'
  BY <1>36, <1>0 DEF Join, Moves
<1>37. ASSUME NEW c \in Callers, Joined(c) PROVE Values'
  BY <1>37, <1>0 DEF Joined, Moves, Gone
<1>38. ASSUME NEW c \in Callers, Remove(c) PROVE Values'
  BY <1>38, <1>0 DEF Remove, Moves
<1>39. CASE ForceOwned
  BY <1>39, <1>0 DEF ForceOwned, Kills, KillFails, LeftOf
<1>40. CASE UNCHANGED vars
  BY <1>40 DEF vars, Tree, Pty, Threads, State, Handle
<1> QED BY <1>1, <1>2, <1>3, <1>4, <1>5, <1>6, <1>7, <1>8, <1>9, <1>10, <1>11, <1>12, <1>13,
           <1>14, <1>15, <1>16, <1>17, <1>18, <1>19, <1>20, <1>21, <1>22, <1>23, <1>24, <1>25,
           <1>26, <1>27, <1>28, <1>29, <1>30, <1>31, <1>32, <1>33, <1>34, <1>35, <1>36, <1>37,
           <1>38, <1>39, <1>40
         DEF Next, CreatorStep, ActorStep, ReaderStep, WaiterStep, WriterStep, CallStep

LEMMA NextFlags ==
  ASSUME Flags, [Next]_vars
  PROVE  Flags'
<1> USE DEF Flags
<1>1. CASE Create
  BY <1>1 DEF Create
<1>2. CASE CreatorHears
  BY <1>2 DEF CreatorHears
<1>3. CASE CreatorTimesOut
  BY <1>3 DEF CreatorTimesOut
<1>4. CASE List
  BY <1>4 DEF List
<1>5. CASE Boots
  BY <1>5 DEF Boots
<1>6. CASE BootFails
  BY <1>6 DEF BootFails
<1>7. CASE Activate
  BY <1>7 DEF Activate
<1>8. CASE Abandoned
  BY <1>8 DEF Abandoned
<1>9. CASE TakeOutput
  BY <1>9 DEF TakeOutput, Takes, Runs, Feeds, WriterAlive, FailsWriter, Kills, KillFails, LeftOf
<1>10. CASE TakeInput
  BY <1>10 DEF TakeInput, Takes, Runs, Feeds, WriterAlive, FailsWriter, Kills, KillFails, LeftOf
<1>11. CASE TakeWriterFailed
  BY <1>11 DEF TakeWriterFailed, Takes, Runs, FailsWriter, Kills, KillFails, LeftOf
<1>12. CASE TakeReaderClosed
  BY <1>12 DEF TakeReaderClosed, Takes, Runs, Retires, ExitStatus, WriterFailure, Keeps
<1>13. CASE TakeExited
  BY <1>13 DEF TakeExited, Takes, Runs, Kills, KillFails, LeftOf, Retires, ExitStatus,
         WriterFailure, Keeps
<1>14. CASE DrainExpires
  BY <1>14 DEF DrainExpires, Runs, Retires, ExitStatus, WriterFailure, Keeps
<1>15. ASSUME NEW c \in Callers, TakeClose(c) PROVE Flags'
  BY <1>15 DEF TakeClose, Takes, Runs, Ends, Answers, Keeps
<1>16. CASE ForceKill
  BY <1>16 DEF ForceKill, Kills, KillFails, LeftOf
<1>17. CASE Confirm
  BY <1>17 DEF Confirm, Ends, Answers, Keeps
<1>18. CASE ChildWrites
  BY <1>18 DEF ChildWrites
<1>19. CASE ChildExits
  BY <1>19 DEF ChildExits
<1>20. CASE RestEnds
  BY <1>20 DEF RestEnds, LeftOf
<1>21. CASE ReaderReads
  BY <1>21 DEF ReaderReads, Sends, Gone, Room
<1>22. CASE ReaderEnds
  BY <1>22 DEF ReaderEnds, Gone
<1>23. CASE ReaderCloses
  BY <1>23 DEF ReaderCloses, Sends, Gone, Room
<1>24. CASE WaiterNotices
  BY <1>24 DEF WaiterNotices
<1>25. CASE WaiterSends
  BY <1>25 DEF WaiterSends, Sends, Gone, Room
<1>26. CASE WriterWrites
  BY <1>26 DEF WriterWrites
<1>27. CASE WriterSends
  BY <1>27 DEF WriterSends, Sends, Gone, Room
<1>28. CASE WriterEnds
  BY <1>28 DEF WriterEnds, Gone
<1>29. CASE Input
  BY <1>29 DEF Input, Gone, Room
<1>30. CASE Drop
  BY <1>30 DEF Drop, Moves
<1>31. ASSUME NEW c \in Callers, Close(c) PROVE Flags'
  BY <1>31 DEF Close, Moves
<1>32. ASSUME NEW c \in Callers, Send(c) PROVE Flags'
  BY <1>32 DEF Send, Moves, Gone, Room
<1>33. ASSUME NEW c \in Callers, SendFails(c) PROVE Flags'
  BY <1>33 DEF SendFails, Moves, OnError, Gone, Room
<1>34. ASSUME NEW c \in Callers, Hear(c) PROVE Flags'
  BY <1>34 DEF Hear, Moves, OnError
<1>35. ASSUME NEW c \in Callers, Unheard(c) PROVE Flags'
  BY <1>35 DEF Unheard, Moves, OnError
<1>36. ASSUME NEW c \in Callers, Join(c) PROVE Flags'
  BY <1>36 DEF Join, Moves
<1>37. ASSUME NEW c \in Callers, Joined(c) PROVE Flags'
  BY <1>37 DEF Joined, Moves, Gone
<1>38. ASSUME NEW c \in Callers, Remove(c) PROVE Flags'
  BY <1>38 DEF Remove, Moves
<1>39. CASE ForceOwned
  BY <1>39 DEF ForceOwned, Kills, KillFails, LeftOf
<1>40. CASE UNCHANGED vars
  BY <1>40 DEF vars, Tree, Pty, Threads, State, Handle
<1> QED BY <1>1, <1>2, <1>3, <1>4, <1>5, <1>6, <1>7, <1>8, <1>9, <1>10, <1>11, <1>12, <1>13,
           <1>14, <1>15, <1>16, <1>17, <1>18, <1>19, <1>20, <1>21, <1>22, <1>23, <1>24, <1>25,
           <1>26, <1>27, <1>28, <1>29, <1>30, <1>31, <1>32, <1>33, <1>34, <1>35, <1>36, <1>37,
           <1>38, <1>39, <1>40
         DEF Next, CreatorStep, ActorStep, ReaderStep, WaiterStep, WriterStep, CallStep

-----------------------------------------------------------------------------
(* The tree and the Project.                                                *)

LEMMA NextUnstarted ==
  ASSUME Values, Unstarted, Holding, [Next]_vars
  PROVE  Unstarted'
<1> USE CloserAssumption DEF Values, Unstarted, Callers
<1>1. CASE Create
  BY <1>1 DEF Create
<1>2. CASE CreatorHears
  BY <1>2 DEF CreatorHears, Holding
<1>3. CASE CreatorTimesOut
  BY <1>3 DEF CreatorTimesOut, Holding
<1>4. CASE List
  BY <1>4 DEF List, Holding
<1>5. CASE Boots
  BY <1>5 DEF Boots
<1>6. CASE BootFails
  BY <1>6 DEF BootFails
<1>7. CASE Activate
  BY <1>7 DEF Activate
<1>8. CASE Abandoned
  BY <1>8 DEF Abandoned
<1>9. CASE TakeOutput
  BY <1>9 DEF TakeOutput, Takes, Runs, Feeds, WriterAlive, FailsWriter, Kills, KillFails, LeftOf
<1>10. CASE TakeInput
  BY <1>10 DEF TakeInput, Takes, Runs, Feeds, WriterAlive, FailsWriter, Kills, KillFails, LeftOf
<1>11. CASE TakeWriterFailed
  BY <1>11 DEF TakeWriterFailed, Takes, Runs, FailsWriter, Kills, KillFails, LeftOf
<1>12. CASE TakeReaderClosed
  BY <1>12 DEF TakeReaderClosed, Takes, Runs, Retires, ExitStatus, WriterFailure, Keeps
<1>13. CASE TakeExited
  BY <1>13 DEF TakeExited, Takes, Runs, Kills, KillFails, LeftOf, Retires, ExitStatus,
         WriterFailure, Keeps
<1>14. CASE DrainExpires
  BY <1>14 DEF DrainExpires, Runs, Retires, ExitStatus, WriterFailure, Keeps
<1>15. ASSUME NEW c \in Callers, TakeClose(c) PROVE Unstarted'
  BY <1>15 DEF TakeClose, Takes, Runs, Ends, Answers, Keeps
<1>16. CASE ForceKill
  BY <1>16 DEF ForceKill, Kills, KillFails, LeftOf
<1>17. CASE Confirm
  BY <1>17 DEF Confirm, Ends, Answers, Keeps
<1>18. CASE ChildWrites
  BY <1>18 DEF ChildWrites
<1>19. CASE ChildExits
  BY <1>19 DEF ChildExits
<1>20. CASE RestEnds
  BY <1>20 DEF RestEnds, LeftOf
<1>21. CASE ReaderReads
  BY <1>21 DEF ReaderReads, Sends, Gone, Room
<1>22. CASE ReaderEnds
  BY <1>22 DEF ReaderEnds, Gone
<1>23. CASE ReaderCloses
  BY <1>23 DEF ReaderCloses, Sends, Gone, Room
<1>24. CASE WaiterNotices
  BY <1>24 DEF WaiterNotices
<1>25. CASE WaiterSends
  BY <1>25 DEF WaiterSends, Sends, Gone, Room
<1>26. CASE WriterWrites
  BY <1>26 DEF WriterWrites
<1>27. CASE WriterSends
  BY <1>27 DEF WriterSends, Sends, Gone, Room
<1>28. CASE WriterEnds
  BY <1>28 DEF WriterEnds, Gone
<1>29. CASE Input
  BY <1>29 DEF Input, Gone, Room
<1>30. CASE Drop
  BY <1>30 DEF Drop, Moves
<1>31. ASSUME NEW c \in Callers, Close(c) PROVE Unstarted'
  BY <1>31 DEF Close, Moves
<1>32. ASSUME NEW c \in Callers, Send(c) PROVE Unstarted'
  BY <1>32 DEF Send, Moves, Gone, Room
<1>33. ASSUME NEW c \in Callers, SendFails(c) PROVE Unstarted'
  BY <1>33 DEF SendFails, Moves, OnError, Gone, Room
<1>34. ASSUME NEW c \in Callers, Hear(c) PROVE Unstarted'
  BY <1>34 DEF Hear, Moves, OnError
<1>35. ASSUME NEW c \in Callers, Unheard(c) PROVE Unstarted'
  BY <1>35 DEF Unheard, Moves, OnError
<1>36. ASSUME NEW c \in Callers, Join(c) PROVE Unstarted'
  BY <1>36 DEF Join, Moves
<1>37. ASSUME NEW c \in Callers, Joined(c) PROVE Unstarted'
  BY <1>37 DEF Joined, Moves, Gone
<1>38. ASSUME NEW c \in Callers, Remove(c) PROVE Unstarted'
  BY <1>38 DEF Remove, Moves
<1>39. CASE ForceOwned
  BY <1>39 DEF ForceOwned, Kills, KillFails, LeftOf
<1>40. CASE UNCHANGED vars
  BY <1>40 DEF vars, Tree, Pty, Threads, State, Handle
<1> QED BY <1>1, <1>2, <1>3, <1>4, <1>5, <1>6, <1>7, <1>8, <1>9, <1>10, <1>11, <1>12, <1>13,
           <1>14, <1>15, <1>16, <1>17, <1>18, <1>19, <1>20, <1>21, <1>22, <1>23, <1>24, <1>25,
           <1>26, <1>27, <1>28, <1>29, <1>30, <1>31, <1>32, <1>33, <1>34, <1>35, <1>36, <1>37,
           <1>38, <1>39, <1>40
         DEF Next, CreatorStep, ActorStep, ReaderStep, WaiterStep, WriterStep, CallStep

\* After a kill nothing is left but what it has missed, unless it failed.
LEMMA Killed ==
  ASSUME Kills
  PROVE  child' = "dead" /\ (rest' = "none" \/ escaped') /\ (escaped' => Platform # "windows")
<1>1. child' = "dead" /\ escaped' = (rest' # "none") /\ (Platform = "windows" => rest' = "none")
  BY DEF Kills
<1> QED BY <1>1

LEMMA KilledOrFailed ==
  ASSUME Values, Holding, (Kills /\ UNCHANGED faults) \/ KillFails
  PROVE  Down' /\ (escaped' => Platform # "windows")
<1>1. CASE Kills
  BY <1>1, Killed DEF Down
<1>2. CASE KillFails
  BY <1>2, BoundAssumption DEF KillFails, Down, Values, Holding
<1> QED BY <1>1, <1>2

LEMMA NextHolding ==
  ASSUME Values, Unstarted, Holding, [Next]_vars
  PROVE  Holding'
<1> USE CloserAssumption, BoundAssumption DEF Values, Unstarted, Holding, Down, Callers
<1>1. CASE Create
  BY <1>1 DEF Create
<1>2. CASE CreatorHears
  BY <1>2 DEF CreatorHears
<1>3. CASE CreatorTimesOut
  BY <1>3 DEF CreatorTimesOut
<1>4. CASE List
  BY <1>4 DEF List
<1>5. CASE Boots
  BY <1>5 DEF Boots
<1>6. CASE BootFails
  BY <1>6 DEF BootFails
<1>7. CASE Activate
  BY <1>7 DEF Activate
<1>8. CASE Abandoned
  BY <1>8 DEF Abandoned
<1>9. CASE TakeOutput
  BY <1>9, KilledOrFailed DEF TakeOutput, Takes, Runs, Feeds, WriterAlive, FailsWriter
<1>10. CASE TakeInput
  BY <1>10, KilledOrFailed DEF TakeInput, Takes, Runs, Feeds, WriterAlive, FailsWriter
<1>11. CASE TakeWriterFailed
  BY <1>11, KilledOrFailed DEF TakeWriterFailed, Takes, Runs, FailsWriter
<1>12. CASE TakeReaderClosed
  BY <1>12 DEF TakeReaderClosed, Takes, Runs, Retires, ExitStatus, WriterFailure, Keeps
<1>13. CASE TakeExited
  <2>1. Down' /\ (escaped' => Platform # "windows")
    <3>1. (Kills /\ UNCHANGED faults) \/ KillFails
      BY <1>13 DEF TakeExited
    <3> QED BY <3>1, KilledOrFailed
  <2>2. actor = "run" /\ actor' \in {"run", "end"} /\ creator' = creator
        /\ (actor' = "run" => use')
    BY <1>13 DEF TakeExited, Takes, Runs, Retires
  <2> QED BY <2>1, <2>2
<1>14. CASE DrainExpires
  BY <1>14 DEF DrainExpires, Runs, Retires, ExitStatus, WriterFailure, Keeps
<1>15. ASSUME NEW c \in Callers, TakeClose(c) PROVE Holding'
  BY <1>15 DEF TakeClose, Takes, Runs, Ends, Answers, Keeps
<1>16. CASE ForceKill
  BY <1>16, KilledOrFailed DEF ForceKill
<1>17. CASE Confirm
  BY <1>17 DEF Confirm, Ends, Answers, Keeps
<1>18. CASE ChildWrites
  BY <1>18 DEF ChildWrites
<1>19. CASE ChildExits
  BY <1>19 DEF ChildExits
<1>20. CASE RestEnds
  BY <1>20 DEF RestEnds, LeftOf
<1>21. CASE ReaderReads
  BY <1>21 DEF ReaderReads, Sends, Gone, Room
<1>22. CASE ReaderEnds
  BY <1>22 DEF ReaderEnds, Gone
<1>23. CASE ReaderCloses
  BY <1>23 DEF ReaderCloses, Sends, Gone, Room
<1>24. CASE WaiterNotices
  BY <1>24 DEF WaiterNotices
<1>25. CASE WaiterSends
  BY <1>25 DEF WaiterSends, Sends, Gone, Room
<1>26. CASE WriterWrites
  BY <1>26 DEF WriterWrites
<1>27. CASE WriterSends
  BY <1>27 DEF WriterSends, Sends, Gone, Room
<1>28. CASE WriterEnds
  BY <1>28 DEF WriterEnds, Gone
<1>29. CASE Input
  BY <1>29 DEF Input, Gone, Room
<1>30. CASE Drop
  BY <1>30 DEF Drop, Moves
<1>31. ASSUME NEW c \in Callers, Close(c) PROVE Holding'
  BY <1>31 DEF Close, Moves
<1>32. ASSUME NEW c \in Callers, Send(c) PROVE Holding'
  BY <1>32 DEF Send, Moves, Gone, Room
<1>33. ASSUME NEW c \in Callers, SendFails(c) PROVE Holding'
  BY <1>33 DEF SendFails, Moves, OnError, Gone, Room
<1>34. ASSUME NEW c \in Callers, Hear(c) PROVE Holding'
  BY <1>34 DEF Hear, Moves, OnError
<1>35. ASSUME NEW c \in Callers, Unheard(c) PROVE Holding'
  BY <1>35 DEF Unheard, Moves, OnError
<1>36. ASSUME NEW c \in Callers, Join(c) PROVE Holding'
  BY <1>36 DEF Join, Moves
<1>37. ASSUME NEW c \in Callers, Joined(c) PROVE Holding'
  BY <1>37 DEF Joined, Moves, Gone
<1>38. ASSUME NEW c \in Callers, Remove(c) PROVE Holding'
  BY <1>38 DEF Remove, Moves
<1>39. CASE ForceOwned
  BY <1>39, KilledOrFailed DEF ForceOwned
<1>40. CASE UNCHANGED vars
  BY <1>40 DEF vars, Tree, Pty, Threads, State, Handle
<1> QED BY <1>1, <1>2, <1>3, <1>4, <1>5, <1>6, <1>7, <1>8, <1>9, <1>10, <1>11, <1>12, <1>13,
           <1>14, <1>15, <1>16, <1>17, <1>18, <1>19, <1>20, <1>21, <1>22, <1>23, <1>24, <1>25,
           <1>26, <1>27, <1>28, <1>29, <1>30, <1>31, <1>32, <1>33, <1>34, <1>35, <1>36, <1>37,
           <1>38, <1>39, <1>40
         DEF Next, CreatorStep, ActorStep, ReaderStep, WaiterStep, WriterStep, CallStep

-----------------------------------------------------------------------------
(* What is written, read, queued and shown.                                 *)

\* A step that leaves the tree alone, or kills what it can of it.
Lessens ==
  \/ UNCHANGED <<child, rest>>
  \/ child' = "dead" /\ (child # "alive" /\ rest # "pty" => rest' # "pty")

\* A command of another kind joins the queue or is taken from its head.
LEMMA OtherCommand ==
  ASSUME Values, Ordered, Counted, NEW x \in Commands, x \notin {"output", "readerClosed"},
         Sent(x) \/ Taken(x), ~Gone, UNCHANGED <<reader, read, written, shown, drained>>,
         Lessens
  PROVE  Ordered' /\ Counted'
<1> USE DEF Values, Gone
<1>1. CASE Sent(x)
  <2>1. /\ Chunks(queue') = Chunks(queue)
        /\ Cardinality(Chunks(queue')) = Cardinality(Chunks(queue))
    BY <1>1, AppendChunks DEF Sent
  <2>2. \A i \in 1..Len(queue') : queue'[i] = "readerClosed" =>
          i \in 1..Len(queue) /\ queue[i] = "readerClosed"
    BY <1>1 DEF Sent
  <2>3. Ordered'
    BY <2>1, <2>2 DEF Ordered, Lessens
  <2> QED BY <2>1, <2>3 DEF Counted
<1>2. CASE Taken(x)
  <2>1. /\ Chunks(queue') = {i \in 1..(Len(queue) - 1) : i + 1 \in Chunks(queue)}
        /\ Cardinality(Chunks(queue')) = Cardinality(Chunks(queue))
    BY <1>2, TailChunks DEF Taken, Takes
  <2>2. \A i \in 1..Len(queue') : i + 1 \in 1..Len(queue) /\ queue'[i] = queue[i + 1]
    BY <1>2 DEF Taken, Takes
  <2>3. \A i \in 1..Len(queue') : queue'[i] = "readerClosed" =>
          reader = "end" /\ \A j \in Chunks(queue') : j < i
    <3>1. \A j \in Chunks(queue') : j \in Nat /\ j + 1 \in Chunks(queue)
      BY <2>1
    <3>2. \A i \in 1..Len(queue) : queue[i] = "readerClosed" =>
            reader = "end" /\ \A j \in Chunks(queue) : j < i
      BY DEF Ordered
    <3> QED BY <2>2, <3>1, <3>2
  <2>4. drained => Chunks(queue') = {}
    BY <2>1 DEF Ordered
  <2>5. Ordered'
    BY <2>3, <2>4 DEF Ordered, Lessens
  <2> QED BY <2>1, <2>5 DEF Counted
<1> QED BY <1>1, <1>2

LEMMA TakenOutput ==
  ASSUME Values, Ordered, Counted, Taken("output"),
         UNCHANGED <<reader, read, written, drained>>, shown' = shown + 1, ~Gone,
         Lessens
  PROVE  Ordered' /\ Counted'
<1> USE DEF Values, Gone
<1>1. /\ Chunks(queue') = {i \in 1..(Len(queue) - 1) : i + 1 \in Chunks(queue)}
      /\ Cardinality(Chunks(queue')) = Cardinality(Chunks(queue)) - 1
  BY TailChunks DEF Taken, Takes
<1>2. \A i \in 1..Len(queue') : i + 1 \in 1..Len(queue) /\ queue'[i] = queue[i + 1]
  BY DEF Taken, Takes
<1>3. \A i \in 1..Len(queue') : queue'[i] = "readerClosed" =>
        reader = "end" /\ \A j \in Chunks(queue') : j < i
  <2>1. \A j \in Chunks(queue') : j \in Nat /\ j + 1 \in Chunks(queue)
    BY <1>1
  <2> QED BY <1>2, <2>1 DEF Ordered
<1>5. drained => Chunks(queue') = {}
  BY <1>1 DEF Ordered
<1>6. Ordered'
  BY <1>3, <1>5 DEF Ordered, Lessens
<1>4. Cardinality(Chunks(queue)) \in Nat
  BY ChunksFinite
<1> QED BY <1>1, <1>4, <1>6 DEF Counted

\* Behind the word of the reader no chunk is left, and none comes.
LEMMA ReaderClosedShows ==
  ASSUME Values, Ordered, Counted, Takes("readerClosed"), ~Gone
  PROVE  /\ reader = "end" /\ Chunks(queue) = {}
         /\ shown = written /\ child = "dead" /\ rest # "pty"
<1>1. 1 \in 1..Len(queue) /\ queue[1] = "readerClosed"
  BY DEF Takes, Values
<1>2. reader = "end" /\ Chunks(queue) = {}
  BY <1>1 DEF Ordered, Chunks, Values
<1>3. Cardinality(Chunks(queue)) = 0
  BY <1>2, FS_EmptySet
<1> QED BY <1>2, <1>3 DEF Ordered, Counted, Values

LEMMA TakenReaderClosed ==
  ASSUME Values, Ordered, Counted, Taken("readerClosed"),
         UNCHANGED <<reader, read, written, shown, child, rest>>, ~Gone
  PROVE  Ordered' /\ Counted'
<1> USE DEF Values, Gone
<1>1. Takes("readerClosed") /\ "readerClosed" \in Commands
  BY DEF Taken, Commands
<1>2. /\ Chunks(queue') = {i \in 1..(Len(queue) - 1) : i + 1 \in Chunks(queue)}
      /\ Cardinality(Chunks(queue')) = Cardinality(Chunks(queue))
  BY TailChunks DEF Taken, Takes, Commands
<1>3. \A i \in 1..Len(queue') : i + 1 \in 1..Len(queue) /\ queue'[i] = queue[i + 1]
  BY DEF Taken, Takes
<1>4. reader = "end" /\ Chunks(queue') = {} /\ child = "dead" /\ rest # "pty"
  BY <1>1, <1>2, ReaderClosedShows
<1>5. Ordered'
  BY <1>3, <1>4 DEF Ordered
<1> QED BY <1>2, <1>5 DEF Counted

LEMMA ReadsOrdered ==
  ASSUME Values, Unstarted, Ordered, Counted, ReaderReads
  PROVE  Ordered' /\ Counted'
<1> USE DEF Values, Gone
<1>1. CASE Gone
  BY <1>1 DEF ReaderReads, Ordered, Counted
<1>2. CASE ~Gone
  <2>1. Sent("output") /\ "output" \in Commands
        /\ reader = "on" /\ reader' = "on" /\ read' = read + 1
        /\ UNCHANGED <<shown, written, actor, drained>>
    BY <1>2 DEF ReaderReads, Sends, Sent, Room, Commands
  <2>2. Cardinality(Chunks(queue')) = Cardinality(Chunks(queue)) + 1
    BY <2>1, AppendChunks DEF Sent
  <2>3. \A i \in 1..Len(queue') : queue'[i] # "readerClosed"
    BY <1>2, <2>1 DEF Sent, Ordered
  <2>4. Ordered'
    BY <1>2, <2>1, <2>3 DEF Ordered
  <2>5. Cardinality(Chunks(queue)) \in Nat /\ shown + Cardinality(Chunks(queue)) = read
    BY <1>2, ChunksFinite DEF Counted
  <2>6. shown' + Cardinality(Chunks(queue')) = read'
    BY <2>1, <2>2, <2>5
  <2> QED BY <2>4, <2>6 DEF Counted
<1> QED BY <1>1, <1>2

LEMMA ClosesOrdered ==
  ASSUME Values, Unstarted, Ordered, Counted, ReaderCloses
  PROVE  Ordered' /\ Counted'
<1> USE DEF Values, Gone
<1>1. CASE Gone
  BY <1>1 DEF ReaderCloses, Ordered, Counted
<1>2. CASE ~Gone
  <2>1. Sent("readerClosed") /\ "readerClosed" \in Commands
        /\ reader = "eof" /\ reader' = "end"
        /\ UNCHANGED <<shown, read, written, child, rest, actor, drained>>
    BY <1>2 DEF ReaderCloses, Sends, Sent, Room, Commands
  <2>2. /\ Chunks(queue') = Chunks(queue)
        /\ Cardinality(Chunks(queue')) = Cardinality(Chunks(queue))
    BY <2>1, AppendChunks DEF Sent
  <2>3. \A i \in 1..Len(queue') : queue'[i] = "readerClosed" => i = Len(queue) + 1
    BY <1>2, <2>1 DEF Sent, Ordered
  <2>4. \A j \in Chunks(queue) : j < Len(queue) + 1
    BY DEF Chunks
  <2>5. Ordered'
    BY <1>2, <2>1, <2>2, <2>3, <2>4 DEF Ordered
  <2> QED BY <1>2, <2>1, <2>2, <2>5 DEF Counted
<1> QED BY <1>1, <1>2

\* A step that neither the queue nor the reader notices.
LEMMA QuietOrdered ==
  ASSUME Ordered, Counted, UNCHANGED <<queue, reader, read, written, shown, drained>>,
         Lessens, Gone => Gone'
  PROVE  Ordered' /\ Counted'
BY DEF Ordered, Counted, Lessens

\* Nothing is told of a Terminal that is gone.
LEMMA GoneOrdered ==
  ASSUME actor' = "end"
  PROVE  Ordered' /\ Counted'
BY DEF Ordered, Counted, Gone

LEMMA NextOrdered ==
  ASSUME Values, Unstarted, Ordered, Counted, [Next]_vars
  PROVE  Ordered' /\ Counted'
<1>1. CASE Create
  BY <1>1, QuietOrdered DEF Create, Lessens, Gone
<1>2. CASE CreatorHears
  BY <1>2, QuietOrdered DEF CreatorHears, Lessens, Gone
<1>3. CASE CreatorTimesOut
  BY <1>3, QuietOrdered DEF CreatorTimesOut, Lessens, Gone
<1>4. CASE List
  BY <1>4, QuietOrdered DEF List, Lessens, Gone
<1>5. CASE Boots
  BY <1>5 DEF Boots, Unstarted, Ordered, Counted, Gone
<1>6. CASE BootFails
  BY <1>6, GoneOrdered DEF BootFails, Lessens
<1>7. CASE Activate
  BY <1>7, QuietOrdered DEF Activate, Lessens, Gone
<1>8. CASE Abandoned
  BY <1>8, QuietOrdered DEF Abandoned, Lessens, Gone
<1>9. CASE TakeOutput
  BY <1>9, TakenOutput DEF TakeOutput, Takes, Runs, Feeds, WriterAlive, FailsWriter, Kills,
         KillFails, LeftOf, Lessens, Taken, Gone
<1>10. CASE TakeInput
  BY <1>10, OtherCommand DEF TakeInput, Takes, Runs, Feeds, WriterAlive, FailsWriter, Kills,
         KillFails, LeftOf, Lessens, Taken, Gone, Commands
<1>11. CASE TakeWriterFailed
  BY <1>11, OtherCommand DEF TakeWriterFailed, Takes, Runs, FailsWriter, Kills, KillFails,
         LeftOf, Lessens, Taken, Gone, Commands
<1>12. CASE TakeReaderClosed
  <2>1. CASE exited
    BY <1>12, <2>1, GoneOrdered DEF TakeReaderClosed, Retires
  <2>2. CASE ~exited
    <3>1. drained' = TRUE /\ UNCHANGED <<reader, read, written, shown, child, rest, actor>>
          /\ Taken("readerClosed") /\ ~Gone
      BY <1>12, <2>2 DEF TakeReaderClosed, Taken, Takes, Keeps, Runs, Gone
    <3> QED BY <3>1, TakenReaderClosed
  <2> QED BY <2>1, <2>2
<1>13. CASE TakeExited
  <2>1. CASE drained
    BY <1>13, <2>1, GoneOrdered DEF TakeExited, Retires
  <2>2. CASE ~drained
    BY <1>13, <2>2, OtherCommand
       DEF TakeExited, Taken, Takes, Runs, Keeps, Kills, KillFails, LeftOf, Lessens, Gone, Commands
  <2> QED BY <2>1, <2>2
<1>14. CASE DrainExpires
  BY <1>14, GoneOrdered DEF DrainExpires, Runs, Retires, ExitStatus, WriterFailure, Keeps,
         Lessens
<1>15. ASSUME NEW c \in Callers, TakeClose(c) PROVE Ordered' /\ Counted'
  <2>1. CASE status = "Failed"
    BY <1>15, <2>1, GoneOrdered DEF TakeClose, Ends
  <2>2. CASE status # "Failed"
    BY <1>15, <2>2, OtherCommand, CloserAssumption
       DEF TakeClose, Taken, Takes, Runs, Keeps, Lessens, Gone, Commands, Callers
  <2> QED BY <2>1, <2>2
<1>16. CASE ForceKill
  BY <1>16, QuietOrdered DEF ForceKill, Kills, KillFails, LeftOf, Lessens, Gone
<1>17. CASE Confirm
  BY <1>17, QuietOrdered, GoneOrdered DEF Confirm, Ends, Answers, Keeps, Lessens, Gone
<1>18. CASE ChildWrites
  BY <1>18 DEF ChildWrites, Ordered, Counted, Gone
<1>19. CASE ChildExits
  BY <1>19 DEF ChildExits, Ordered, Counted, Gone
<1>20. CASE RestEnds
  BY <1>20 DEF RestEnds, LeftOf, Ordered, Counted, Gone
<1>21. CASE ReaderReads
  BY <1>21, ReadsOrdered
<1>22. CASE ReaderEnds
  BY <1>22 DEF ReaderEnds, Ordered, Counted, Gone, Values
<1>23. CASE ReaderCloses
  BY <1>23, ClosesOrdered
<1>24. CASE WaiterNotices
  BY <1>24, QuietOrdered DEF WaiterNotices, Lessens, Gone
<1>25. CASE WaiterSends
  <2>1. CASE Gone
    BY <1>25, <2>1, QuietOrdered DEF WaiterSends, Sends, Lessens, Gone
  <2>2. CASE ~Gone
    <3>1. Sent("exited") /\ "exited" \in Commands
      BY <1>25, <2>2 DEF WaiterSends, Sends, Sent, Room, Commands
    <3> QED BY <1>25, <2>2, <3>1, OtherCommand DEF WaiterSends, Lessens
  <2> QED BY <2>1, <2>2
<1>26. CASE WriterWrites
  BY <1>26, QuietOrdered DEF WriterWrites, Lessens, Gone
<1>27. CASE WriterSends
  <2>1. CASE Gone
    BY <1>27, <2>1, QuietOrdered DEF WriterSends, Sends, Lessens, Gone
  <2>2. CASE ~Gone
    <3>1. Sent("writerFailed") /\ "writerFailed" \in Commands
      BY <1>27, <2>2 DEF WriterSends, Sends, Sent, Room, Commands
    <3> QED BY <1>27, <2>2, <3>1, OtherCommand DEF WriterSends, Lessens
  <2> QED BY <2>1, <2>2
<1>28. CASE WriterEnds
  BY <1>28, QuietOrdered DEF WriterEnds, Gone, Lessens
<1>29. CASE Input
  <2>1. Sent("input") /\ "input" \in Commands /\ ~Gone
    BY <1>29 DEF Input, Sent, Room, Commands
  <2> QED BY <1>29, <2>1, OtherCommand DEF Input, Lessens
<1>30. CASE Drop
  BY <1>30, QuietOrdered DEF Drop, Moves, Lessens, Gone
<1>31. ASSUME NEW c \in Callers, Close(c) PROVE Ordered' /\ Counted'
  BY <1>31, QuietOrdered DEF Close, Moves, Lessens, Gone
<1>32. ASSUME NEW c \in Callers, Send(c) PROVE Ordered' /\ Counted'
  <2>1. Sent(c) /\ c \in Commands /\ ~Gone /\ c \notin {"output", "readerClosed"}
    BY <1>32, CloserAssumption DEF Send, Sent, Room, Commands, Callers
  <2> QED BY <1>32, <2>1, OtherCommand DEF Send, Moves, Lessens
<1>33. ASSUME NEW c \in Callers, SendFails(c) PROVE Ordered' /\ Counted'
  BY <1>33, QuietOrdered DEF SendFails, Moves, OnError, Gone, Room, Lessens
<1>34. ASSUME NEW c \in Callers, Hear(c) PROVE Ordered' /\ Counted'
  BY <1>34, QuietOrdered DEF Hear, Moves, OnError, Lessens, Gone
<1>35. ASSUME NEW c \in Callers, Unheard(c) PROVE Ordered' /\ Counted'
  BY <1>35, QuietOrdered DEF Unheard, Moves, OnError, Lessens, Gone
<1>36. ASSUME NEW c \in Callers, Join(c) PROVE Ordered' /\ Counted'
  BY <1>36, QuietOrdered DEF Join, Moves, Lessens, Gone
<1>37. ASSUME NEW c \in Callers, Joined(c) PROVE Ordered' /\ Counted'
  BY <1>37, QuietOrdered DEF Joined, Moves, Gone, Lessens
<1>38. ASSUME NEW c \in Callers, Remove(c) PROVE Ordered' /\ Counted'
  BY <1>38, QuietOrdered DEF Remove, Moves, Lessens, Gone
<1>39. CASE ForceOwned
  BY <1>39, QuietOrdered DEF ForceOwned, Kills, KillFails, LeftOf, Lessens, Gone
<1>40. CASE UNCHANGED vars
  BY <1>40, QuietOrdered DEF vars, Lessens, Gone
<1> QED BY <1>1, <1>2, <1>3, <1>4, <1>5, <1>6, <1>7, <1>8, <1>9, <1>10, <1>11, <1>12, <1>13,
           <1>14, <1>15, <1>16, <1>17, <1>18, <1>19, <1>20, <1>21, <1>22, <1>23, <1>24, <1>25,
           <1>26, <1>27, <1>28, <1>29, <1>30, <1>31, <1>32, <1>33, <1>34, <1>35, <1>36, <1>37,
           <1>38, <1>39, <1>40
         DEF Next, CreatorStep, ActorStep, ReaderStep, WaiterStep, WriterStep, CallStep

-----------------------------------------------------------------------------
(* The exit that is published.                                              *)

\* Once the word of the reader was taken, all that was written is shown.
LEMMA DrainedShows ==
  ASSUME Values, Ordered, Counted, drained, ~Gone
  PROVE  shown = written /\ child = "dead" /\ rest # "pty"
<1>1. reader = "end" /\ Chunks(queue) = {}
  BY DEF Ordered
<1>2. Cardinality(Chunks(queue)) = 0
  BY <1>1, FS_EmptySet
<1> QED BY <1>1, <1>2 DEF Ordered, Counted, Values

\* What is published is that the Terminal exited only if all was read.
LEMMA RetiresShown ==
  ASSUME NEW allRead, NEW clean, Retires(allRead, clean),
         allRead => shown' = written' /\ child' = "dead" /\ rest' # "pty"
  PROVE  Published'
BY DEF Retires, ExitStatus, Published, ExitedShowsEverything, Gone

LEMMA NextPublished ==
  ASSUME Values, Flags, Unstarted, Ordered, Counted, Published, [Next]_vars
  PROVE  Published'
<1> USE DEF Values, Published, ExitedShowsEverything, Gone
<1>1. CASE Create
  BY <1>1 DEF Create
<1>2. CASE CreatorHears
  BY <1>2 DEF CreatorHears
<1>3. CASE CreatorTimesOut
  BY <1>3 DEF CreatorTimesOut
<1>4. CASE List
  BY <1>4 DEF List
<1>5. CASE Boots
  BY <1>5 DEF Boots
<1>6. CASE BootFails
  BY <1>6 DEF BootFails
<1>7. CASE Activate
  BY <1>7 DEF Activate
<1>8. CASE Abandoned
  BY <1>8 DEF Abandoned
<1>9. CASE TakeOutput
  BY <1>9 DEF TakeOutput, Takes, Runs, Feeds, WriterAlive, FailsWriter, Kills, KillFails, LeftOf
<1>10. CASE TakeInput
  BY <1>10 DEF TakeInput, Takes, Runs, Feeds, WriterAlive, FailsWriter, Kills, KillFails, LeftOf
<1>11. CASE TakeWriterFailed
  BY <1>11 DEF TakeWriterFailed, Takes, Runs, FailsWriter, Kills, KillFails, LeftOf
<1>12. CASE TakeReaderClosed
  <2>1. CASE exited
    <3>1. shown = written /\ child = "dead" /\ rest # "pty"
      BY <1>12, ReaderClosedShows DEF TakeReaderClosed, Takes, Runs, Gone
    <3>2. Retires(TRUE, ~broken) /\ shown' = written' /\ child' = "dead" /\ rest' # "pty"
      BY <1>12, <2>1, <3>1 DEF TakeReaderClosed
    <3> QED BY <3>2, RetiresShown
  <2>2. CASE ~exited
    BY <1>12, <2>2 DEF TakeReaderClosed
  <2> QED BY <2>1, <2>2
<1>13. CASE TakeExited
  <2>1. CASE drained
    <3>1. shown = written /\ child = "dead" /\ rest # "pty"
      BY <1>13, <2>1, DrainedShows DEF TakeExited, Takes, Runs
    <3>2. Lessens
      BY <1>13 DEF TakeExited, Kills, KillFails, LeftOf, Lessens
    <3>3. child' = "dead" /\ rest' # "pty"
      BY <3>1, <3>2 DEF Lessens
    <3>4. UNCHANGED <<shown, written>> /\ Retires(TRUE, ~broken')
      BY <1>13, <2>1 DEF TakeExited
    <3> QED BY <3>1, <3>3, <3>4, RetiresShown
  <2>2. CASE ~drained
    BY <1>13, <2>2 DEF TakeExited, Takes, Runs
  <2> QED BY <2>1, <2>2
<1>14. CASE DrainExpires
  <2>1. drained => shown = written /\ child = "dead" /\ rest # "pty"
    BY <1>14, DrainedShows DEF DrainExpires, Runs
  <2>2. Retires(drained, ~broken) /\ (drained => shown' = written' /\ child' = "dead" /\ rest' # "pty")
    BY <1>14, <2>1 DEF DrainExpires
  <2> QED BY <2>2, RetiresShown
<1>15. ASSUME NEW c \in Callers, TakeClose(c) PROVE Published'
  BY <1>15 DEF TakeClose, Takes, Runs, Ends, Answers, Keeps
<1>16. CASE ForceKill
  BY <1>16 DEF ForceKill, Kills, KillFails, LeftOf
<1>17. CASE Confirm
  BY <1>17 DEF Confirm, Ends, Answers, Keeps
<1>18. CASE ChildWrites
  BY <1>18 DEF ChildWrites
<1>19. CASE ChildExits
  BY <1>19 DEF ChildExits
<1>20. CASE RestEnds
  BY <1>20 DEF RestEnds, LeftOf
<1>21. CASE ReaderReads
  BY <1>21 DEF ReaderReads, Sends, Gone, Room
<1>22. CASE ReaderEnds
  BY <1>22 DEF ReaderEnds, Gone
<1>23. CASE ReaderCloses
  BY <1>23 DEF ReaderCloses, Sends, Gone, Room
<1>24. CASE WaiterNotices
  BY <1>24 DEF WaiterNotices
<1>25. CASE WaiterSends
  BY <1>25 DEF WaiterSends, Sends, Gone, Room
<1>26. CASE WriterWrites
  BY <1>26 DEF WriterWrites
<1>27. CASE WriterSends
  BY <1>27 DEF WriterSends, Sends, Gone, Room
<1>28. CASE WriterEnds
  BY <1>28 DEF WriterEnds, Gone
<1>29. CASE Input
  BY <1>29 DEF Input, Gone, Room
<1>30. CASE Drop
  BY <1>30 DEF Drop, Moves
<1>31. ASSUME NEW c \in Callers, Close(c) PROVE Published'
  BY <1>31 DEF Close, Moves
<1>32. ASSUME NEW c \in Callers, Send(c) PROVE Published'
  BY <1>32 DEF Send, Moves, Gone, Room
<1>33. ASSUME NEW c \in Callers, SendFails(c) PROVE Published'
  BY <1>33 DEF SendFails, Moves, OnError, Gone, Room
<1>34. ASSUME NEW c \in Callers, Hear(c) PROVE Published'
  BY <1>34 DEF Hear, Moves, OnError
<1>35. ASSUME NEW c \in Callers, Unheard(c) PROVE Published'
  BY <1>35 DEF Unheard, Moves, OnError
<1>36. ASSUME NEW c \in Callers, Join(c) PROVE Published'
  BY <1>36 DEF Join, Moves
<1>37. ASSUME NEW c \in Callers, Joined(c) PROVE Published'
  BY <1>37 DEF Joined, Moves, Gone
<1>38. ASSUME NEW c \in Callers, Remove(c) PROVE Published'
  BY <1>38 DEF Remove, Moves
<1>39. CASE ForceOwned
  BY <1>39 DEF ForceOwned, Kills, KillFails, LeftOf
<1>40. CASE UNCHANGED vars
  BY <1>40 DEF vars, Tree, Pty, Threads, State, Handle
<1> QED BY <1>1, <1>2, <1>3, <1>4, <1>5, <1>6, <1>7, <1>8, <1>9, <1>10, <1>11, <1>12, <1>13,
           <1>14, <1>15, <1>16, <1>17, <1>18, <1>19, <1>20, <1>21, <1>22, <1>23, <1>24, <1>25,
           <1>26, <1>27, <1>28, <1>29, <1>30, <1>31, <1>32, <1>33, <1>34, <1>35, <1>36, <1>37,
           <1>38, <1>39, <1>40
         DEF Next, CreatorStep, ActorStep, ReaderStep, WaiterStep, WriterStep, CallStep

\* Only an actor that is there shows a chunk.
LEMMA OnlyTaking ==
  ASSUME [Next]_vars
  PROVE  UNCHANGED shown \/ ~Gone'
<1> USE DEF Gone
<1>1. CASE Create
  BY <1>1 DEF Create
<1>2. CASE CreatorHears
  BY <1>2 DEF CreatorHears
<1>3. CASE CreatorTimesOut
  BY <1>3 DEF CreatorTimesOut
<1>4. CASE List
  BY <1>4 DEF List
<1>5. CASE Boots
  BY <1>5 DEF Boots
<1>6. CASE BootFails
  BY <1>6 DEF BootFails
<1>7. CASE Activate
  BY <1>7 DEF Activate
<1>8. CASE Abandoned
  BY <1>8 DEF Abandoned
<1>9. CASE TakeOutput
  BY <1>9 DEF TakeOutput, Takes, Runs, Feeds, WriterAlive, FailsWriter, Kills, KillFails, LeftOf
<1>10. CASE TakeInput
  BY <1>10 DEF TakeInput, Takes, Runs, Feeds, WriterAlive, FailsWriter, Kills, KillFails, LeftOf
<1>11. CASE TakeWriterFailed
  BY <1>11 DEF TakeWriterFailed, Takes, Runs, FailsWriter, Kills, KillFails, LeftOf
<1>12. CASE TakeReaderClosed
  BY <1>12 DEF TakeReaderClosed, Takes, Runs, Retires, ExitStatus, WriterFailure, Keeps
<1>13. CASE TakeExited
  BY <1>13 DEF TakeExited, Takes, Runs, Kills, KillFails, LeftOf, Retires, ExitStatus,
         WriterFailure, Keeps
<1>14. CASE DrainExpires
  BY <1>14 DEF DrainExpires, Runs, Retires, ExitStatus, WriterFailure, Keeps
<1>15. ASSUME NEW c \in Callers, TakeClose(c) PROVE UNCHANGED shown \/ ~Gone'
  BY <1>15 DEF TakeClose, Takes, Runs, Ends, Answers, Keeps
<1>16. CASE ForceKill
  BY <1>16 DEF ForceKill, Kills, KillFails, LeftOf
<1>17. CASE Confirm
  BY <1>17 DEF Confirm, Ends, Answers, Keeps
<1>18. CASE ChildWrites
  BY <1>18 DEF ChildWrites
<1>19. CASE ChildExits
  BY <1>19 DEF ChildExits
<1>20. CASE RestEnds
  BY <1>20 DEF RestEnds, LeftOf
<1>21. CASE ReaderReads
  BY <1>21 DEF ReaderReads, Sends, Gone, Room
<1>22. CASE ReaderEnds
  BY <1>22 DEF ReaderEnds, Gone
<1>23. CASE ReaderCloses
  BY <1>23 DEF ReaderCloses, Sends, Gone, Room
<1>24. CASE WaiterNotices
  BY <1>24 DEF WaiterNotices
<1>25. CASE WaiterSends
  BY <1>25 DEF WaiterSends, Sends, Gone, Room
<1>26. CASE WriterWrites
  BY <1>26 DEF WriterWrites
<1>27. CASE WriterSends
  BY <1>27 DEF WriterSends, Sends, Gone, Room
<1>28. CASE WriterEnds
  BY <1>28 DEF WriterEnds, Gone
<1>29. CASE Input
  BY <1>29 DEF Input, Gone, Room
<1>30. CASE Drop
  BY <1>30 DEF Drop, Moves
<1>31. ASSUME NEW c \in Callers, Close(c) PROVE UNCHANGED shown \/ ~Gone'
  BY <1>31 DEF Close, Moves
<1>32. ASSUME NEW c \in Callers, Send(c) PROVE UNCHANGED shown \/ ~Gone'
  BY <1>32 DEF Send, Moves, Gone, Room
<1>33. ASSUME NEW c \in Callers, SendFails(c) PROVE UNCHANGED shown \/ ~Gone'
  BY <1>33 DEF SendFails, Moves, OnError, Gone, Room
<1>34. ASSUME NEW c \in Callers, Hear(c) PROVE UNCHANGED shown \/ ~Gone'
  BY <1>34 DEF Hear, Moves, OnError
<1>35. ASSUME NEW c \in Callers, Unheard(c) PROVE UNCHANGED shown \/ ~Gone'
  BY <1>35 DEF Unheard, Moves, OnError
<1>36. ASSUME NEW c \in Callers, Join(c) PROVE UNCHANGED shown \/ ~Gone'
  BY <1>36 DEF Join, Moves
<1>37. ASSUME NEW c \in Callers, Joined(c) PROVE UNCHANGED shown \/ ~Gone'
  BY <1>37 DEF Joined, Moves, Gone
<1>38. ASSUME NEW c \in Callers, Remove(c) PROVE UNCHANGED shown \/ ~Gone'
  BY <1>38 DEF Remove, Moves
<1>39. CASE ForceOwned
  BY <1>39 DEF ForceOwned, Kills, KillFails, LeftOf
<1>40. CASE UNCHANGED vars
  BY <1>40 DEF vars, Tree, Pty, Threads, State, Handle
<1> QED BY <1>1, <1>2, <1>3, <1>4, <1>5, <1>6, <1>7, <1>8, <1>9, <1>10, <1>11, <1>12, <1>13,
           <1>14, <1>15, <1>16, <1>17, <1>18, <1>19, <1>20, <1>21, <1>22, <1>23, <1>24, <1>25,
           <1>26, <1>27, <1>28, <1>29, <1>30, <1>31, <1>32, <1>33, <1>34, <1>35, <1>36, <1>37,
           <1>38, <1>39, <1>40
         DEF Next, CreatorStep, ActorStep, ReaderStep, WaiterStep, WriterStep, CallStep

\* No more is shown than was read.
LEMMA NextShown ==
  ASSUME Values, Values', Counted', shown <= MaxOutput, [Next]_vars
  PROVE  shown' <= MaxOutput
<1>1. CASE UNCHANGED shown
  BY <1>1
<1>2. CASE ~Gone'
  <2>1. queue' \in Seq(Commands) /\ shown' \in Nat /\ read' \in 0..MaxOutput
    BY DEF Values
  <2>2. Cardinality(Chunks(queue')) \in Nat
    BY <2>1, ChunksFinite
  <2>3. shown' + Cardinality(Chunks(queue')) = read'
    BY <1>2 DEF Counted
  <2> QED BY <2>1, <2>2, <2>3, BoundAssumption
<1> QED BY <1>1, <1>2, OnlyTaking

-----------------------------------------------------------------------------
LEMMA InitTerminal == Init => Terminal
<1> SUFFICES ASSUME Init PROVE Terminal
  OBVIOUS
<1> USE DEF Init
<1>1. <<>> \in Seq(Commands) /\ Len(<<>>) = 0
  OBVIOUS
<1>2. Values
  BY <1>1, BoundAssumption DEF Values
<1>3. Flags
  BY DEF Flags
<1>4. Unstarted /\ Holding
  BY DEF Unstarted, Holding, Callers
<1>5. Chunks(<<>>) = {} /\ Cardinality(Chunks(<<>>)) = 0
  BY <1>1, FS_EmptySet DEF Chunks
<1>6. Ordered /\ Counted /\ Published
  BY <1>1, <1>5 DEF Ordered, Counted, Published, ExitedShowsEverything
<1>7. shown <= MaxOutput
  BY BoundAssumption
<1> QED BY <1>2, <1>3, <1>4, <1>6, <1>7 DEF Terminal, Typed

LEMMA AlwaysTerminal == Spec => []Terminal
<1>1. Terminal /\ [Next]_vars => Terminal'
  BY NextValues, NextFlags, NextUnstarted, NextHolding, NextOrdered, NextPublished, NextShown
     DEF Terminal, Typed
<1> QED BY <1>1, InitTerminal, PTL DEF Spec

\* Every variable keeps its type: the command queue never holds more than its capacity,
\* nor the writer's queue, and no chunk is shown that was not written.
THEOREM TypeCorrect == Spec => []TypeOK
<1>1. Terminal => TypeOK
  BY BoundAssumption DEF Terminal, Typed, Values, Flags, Commands, TypeOK
<1> QED BY <1>1, AlwaysTerminal, PTL

\* publish_exit_if_ready: the status Exited is published only when the final checkpoint
\* shows all that the processes of the Terminal ever wrote and none of them is left,
\* however the word of the wait thread and the chunks of the reader interleave.
THEOREM ExitIsComplete == Spec => []ExitedShowsEverything
<1>1. Terminal => ExitedShowsEverything
  BY DEF Terminal, Published
<1> QED BY <1>1, AlwaysTerminal, PTL

\* spawn_terminal and run_terminal_actor: the Project is held open for as long as a
\* process of the tree lives, through the hand-over of the use, each way to close and
\* each way to retire. On Windows only an abandoned start and a kill that failed are
\* excepted; on macOS also a process, never the shell, that a kill which returned Ok has
\* missed.
THEOREM LiveTreeIsHeld == Spec => []LiveTreeHoldsProject
<1>1. Terminal => LiveTreeHoldsProject
  BY BoundAssumption DEF Terminal, Typed, Values, Unstarted, Holding, Down, LiveTreeHoldsProject
<1> QED BY <1>1, AlwaysTerminal, PTL

\* The final checkpoint is set by the exit alone.
LEMMA OnlyRetiring ==
  ASSUME [Next]_vars
  PROVE  UNCHANGED final \/ (writer = "failed" => status' = "Failed")
<1>1. CASE Create
  BY <1>1 DEF Create
<1>2. CASE CreatorHears
  BY <1>2 DEF CreatorHears
<1>3. CASE CreatorTimesOut
  BY <1>3 DEF CreatorTimesOut
<1>4. CASE List
  BY <1>4 DEF List
<1>5. CASE Boots
  BY <1>5 DEF Boots
<1>6. CASE BootFails
  BY <1>6 DEF BootFails
<1>7. CASE Activate
  BY <1>7 DEF Activate
<1>8. CASE Abandoned
  BY <1>8 DEF Abandoned
<1>9. CASE TakeOutput
  BY <1>9 DEF TakeOutput, Takes, Runs, Feeds, WriterAlive, FailsWriter, Kills, KillFails, LeftOf
<1>10. CASE TakeInput
  BY <1>10 DEF TakeInput, Takes, Runs, Feeds, WriterAlive, FailsWriter, Kills, KillFails, LeftOf
<1>11. CASE TakeWriterFailed
  BY <1>11 DEF TakeWriterFailed, Takes, Runs, FailsWriter, Kills, KillFails, LeftOf
<1>12. CASE TakeReaderClosed
  BY <1>12 DEF TakeReaderClosed, Takes, Runs, Retires, ExitStatus, WriterFailure, Keeps
<1>13. CASE TakeExited
  BY <1>13 DEF TakeExited, Takes, Runs, Kills, KillFails, LeftOf, Retires, ExitStatus,
         WriterFailure, Keeps
<1>14. CASE DrainExpires
  BY <1>14 DEF DrainExpires, Runs, Retires, ExitStatus, WriterFailure, Keeps
<1>15. ASSUME NEW c \in Callers, TakeClose(c) PROVE UNCHANGED final \/ (writer = "failed" => status' = "Failed")
  BY <1>15 DEF TakeClose, Takes, Runs, Ends, Answers, Keeps
<1>16. CASE ForceKill
  BY <1>16 DEF ForceKill, Kills, KillFails, LeftOf
<1>17. CASE Confirm
  BY <1>17 DEF Confirm, Ends, Answers, Keeps
<1>18. CASE ChildWrites
  BY <1>18 DEF ChildWrites
<1>19. CASE ChildExits
  BY <1>19 DEF ChildExits
<1>20. CASE RestEnds
  BY <1>20 DEF RestEnds, LeftOf
<1>21. CASE ReaderReads
  BY <1>21 DEF ReaderReads, Sends, Gone, Room
<1>22. CASE ReaderEnds
  BY <1>22 DEF ReaderEnds, Gone
<1>23. CASE ReaderCloses
  BY <1>23 DEF ReaderCloses, Sends, Gone, Room
<1>24. CASE WaiterNotices
  BY <1>24 DEF WaiterNotices
<1>25. CASE WaiterSends
  BY <1>25 DEF WaiterSends, Sends, Gone, Room
<1>26. CASE WriterWrites
  BY <1>26 DEF WriterWrites
<1>27. CASE WriterSends
  BY <1>27 DEF WriterSends, Sends, Gone, Room
<1>28. CASE WriterEnds
  BY <1>28 DEF WriterEnds, Gone
<1>29. CASE Input
  BY <1>29 DEF Input, Gone, Room
<1>30. CASE Drop
  BY <1>30 DEF Drop, Moves
<1>31. ASSUME NEW c \in Callers, Close(c) PROVE UNCHANGED final \/ (writer = "failed" => status' = "Failed")
  BY <1>31 DEF Close, Moves
<1>32. ASSUME NEW c \in Callers, Send(c) PROVE UNCHANGED final \/ (writer = "failed" => status' = "Failed")
  BY <1>32 DEF Send, Moves, Gone, Room
<1>33. ASSUME NEW c \in Callers, SendFails(c) PROVE UNCHANGED final \/ (writer = "failed" => status' = "Failed")
  BY <1>33 DEF SendFails, Moves, OnError, Gone, Room
<1>34. ASSUME NEW c \in Callers, Hear(c) PROVE UNCHANGED final \/ (writer = "failed" => status' = "Failed")
  BY <1>34 DEF Hear, Moves, OnError
<1>35. ASSUME NEW c \in Callers, Unheard(c) PROVE UNCHANGED final \/ (writer = "failed" => status' = "Failed")
  BY <1>35 DEF Unheard, Moves, OnError
<1>36. ASSUME NEW c \in Callers, Join(c) PROVE UNCHANGED final \/ (writer = "failed" => status' = "Failed")
  BY <1>36 DEF Join, Moves
<1>37. ASSUME NEW c \in Callers, Joined(c) PROVE UNCHANGED final \/ (writer = "failed" => status' = "Failed")
  BY <1>37 DEF Joined, Moves, Gone
<1>38. ASSUME NEW c \in Callers, Remove(c) PROVE UNCHANGED final \/ (writer = "failed" => status' = "Failed")
  BY <1>38 DEF Remove, Moves
<1>39. CASE ForceOwned
  BY <1>39 DEF ForceOwned, Kills, KillFails, LeftOf
<1>40. CASE UNCHANGED vars
  BY <1>40 DEF vars, Tree, Pty, Threads, State, Handle
<1> QED BY <1>1, <1>2, <1>3, <1>4, <1>5, <1>6, <1>7, <1>8, <1>9, <1>10, <1>11, <1>12, <1>13,
           <1>14, <1>15, <1>16, <1>17, <1>18, <1>19, <1>20, <1>21, <1>22, <1>23, <1>24, <1>25,
           <1>26, <1>27, <1>28, <1>29, <1>30, <1>31, <1>32, <1>33, <1>34, <1>35, <1>36, <1>37,
           <1>38, <1>39, <1>40
         DEF Next, CreatorStep, ActorStep, ReaderStep, WaiterStep, WriterStep, CallStep

\* publish_exit_if_ready reads the writer's own note, so the failure is published even
\* if its report is still behind the exit.
THEOREM WriterFailureCounts == Spec => WriterFailureIsPublished
<1>1. [Next]_vars => [~final /\ final' /\ writer = "failed" => status' = "Failed"]_vars
  BY OnlyRetiring
<1> QED BY <1>1, PTL DEF Spec, WriterFailureIsPublished
=============================================================================

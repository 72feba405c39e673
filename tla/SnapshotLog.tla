---------------------------- MODULE SnapshotLog ----------------------------
(***************************************************************************)
(* What a Runtime authority promises to the observer of its snapshots: the *)
(* snapshots it commits form a log, and the observer is given that log one *)
(* entry at a time, in order, each entry once and none left out, however   *)
(* many threads commit and however long one delivery takes.                *)
(***************************************************************************)
EXTENDS Naturals, Sequences

CONSTANTS Snapshots, MaxLog

VARIABLES
  log,  \* the snapshots committed so far
  seen  \* the snapshots the observer was given

logVars == <<log, seen>>

LogInit == log = <<>> /\ seen = <<>>

Commit(s) ==
  /\ Len(log) < MaxLog
  /\ log' = Append(log, s)
  /\ UNCHANGED seen

Observe ==
  /\ Len(seen) < Len(log)
  /\ seen' = Append(seen, log[Len(seen) + 1])
  /\ UNCHANGED log

LogNext == Observe \/ \E s \in Snapshots : Commit(s)

LogSafety == LogInit /\ [][LogNext]_logVars

LogSpec == LogSafety /\ WF_logVars(Observe)
=============================================================================

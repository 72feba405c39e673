--------------------------- MODULE ProductRemoval ---------------------------
(* The removal of the whole Product (product/removal.rs), composed with the    *)
(* lifecycle that admits it: what prepare_removal stages outside the Product,   *)
(* the detached finalizer that request_product_removal launches, and the        *)
(* Runtime it waits for.                                                        *)
(*                                                                             *)
(* Of the Product the model tells apart the projections (command path, login    *)
(* item, skills, installer registration), the home with its two configuration   *)
(* files, and the Desktop application.                                          *)
EXTENDS RuntimeControl

CONSTANT MaxFaults \* bound on crashes and I/O failures

ASSUME FaultAssumption == MaxFaults \in Nat

VARIABLES
  process,   \* the Runtime process: "up" or "exited"
  kept,      \* keep_config of each removal that is prepared
  staging,   \* the transaction directory of each: "none", "plan" or "config"
  finalizer, \* the detached process of each
  home,      \* "whole", "partial", "gone" or "config"
  removed,   \* of the projections and the Desktop application, what is gone
  cut,       \* history: the Runtime stopped with work that it had admitted
  faults

finalization == <<finalizer, home, removed>>
removalVars == <<vars, process, kept, staging, finalization, cut, faults>>

RemovalInit ==
  /\ Init
  /\ process = "up"
  /\ kept = [r \in Removers |-> FALSE]
  /\ staging = [r \in Removers |-> "none"]
  /\ finalizer = [r \in Removers |-> "none"]
  /\ home = "whole"
  /\ removed = {}
  /\ cut = FALSE /\ faults = 0

Fails == faults < MaxFaults /\ faults' = faults + 1

-----------------------------------------------------------------------------
(* The Runtime.                                                              *)

\* prepare: the plan and, when asked, a copy of the configuration.
Prepares(r) == removal[r] = "admitted" /\ removal'[r] = "prepared"
\* cancel, and with_staging_cleanup after a launch that failed.
Cancels(r) == removal[r] = "prepared" /\ removal'[r] = "answered"

\* A step of the Runtime, with what it does outside the process.
Runs(step) ==
  /\ process = "up"
  /\ step
  /\ \E keep \in IF \E r \in Removers : Prepares(r) THEN BOOLEAN ELSE {FALSE} :
       kept' = [r \in Removers |->
                  IF Prepares(r) THEN keep ELSE ~Cancels(r) /\ kept[r]]
  /\ staging' = [r \in Removers |->
                   IF Prepares(r) THEN IF kept'[r] THEN "config" ELSE "plan"
                   ELSE IF Cancels(r) THEN "none" ELSE staging[r]]
  /\ finalizer' = [r \in Removers |->
                     IF r \in launched' \ launched THEN "wait" ELSE finalizer[r]]
  /\ UNCHANGED <<process, home, removed, cut, faults>>

\* What the process had in memory is gone.
Ends ==
  /\ process = "up" /\ process' = "exited"
  /\ main' = "starting" /\ lifecycle' = "starting"
  /\ transaction' = Nobody /\ writer' = Nobody
  /\ permits' = {} /\ active' = 0
  /\ update' = [u \in Updates |-> "idle"]
  /\ removal' = [r \in Removers |-> "idle"] /\ drain' = [r \in Removers |-> "none"]
  /\ quit' = [q \in Quitters |-> "idle"]
  /\ activation' = [a \in Activations |-> "idle"]
  /\ connection' = [c \in Connections |-> "closed"]
  /\ UNCHANGED <<launched, told, kept, staging, finalization>>

\* The main thread has seen is_stopping.
Exits ==
  /\ main = "running" /\ lifecycle \in Stopping
  /\ cut' = (permits # {})
  /\ Ends
  /\ UNCHANGED faults

\* A service fails or the process dies while a finalizer waits; before that there
\* is nothing to finalize.
Crashes ==
  /\ launched # {}
  /\ Fails
  /\ Ends
  /\ UNCHANGED cut

-----------------------------------------------------------------------------
(* The finalizer.                                                            *)

At(r, from, to) == finalizer[r] = from /\ finalizer' = [finalizer EXCEPT ![r] = to]

\* Mutant: the finalizer does not wait for the Runtime.
GoesOn(r) ==
  /\ At(r, "wait", "projections")
  /\ UNCHANGED <<vars, process, kept, cut, staging, home, removed, faults>>
\* wait_for_process_exit
RuntimeGone(r) ==
  /\ process = "exited"
  /\ At(r, "wait", "projections")
  /\ UNCHANGED <<vars, process, kept, cut, staging, home, removed, faults>>

\* FINALIZER_WAIT_TIMEOUT runs from the acceptance; the drain has no bound.
WaitTimesOut(r) ==
  /\ process = "up"
  /\ At(r, "wait", "failed")
  /\ UNCHANGED <<vars, process, kept, cut, staging, home, removed, faults>>

RemoveProjections(r) ==
  /\ At(r, "projections", "home")
  /\ removed' = removed \cup {"projections"}
  /\ UNCHANGED <<vars, process, kept, cut, staging, home, faults>>

RemoveHome(r) ==
  /\ At(r, "home", IF kept[r] THEN "restore" ELSE "staging")
  /\ home' = "gone"
  /\ UNCHANGED <<vars, process, kept, cut, staging, removed, faults>>

\* Mutant: what is staged is removed before it is restored.
RestoreAfterRemoval(r) ==
  /\ At(r, "restore", "restore")
  /\ staging[r] = "config"
  /\ staging' = [staging EXCEPT ![r] = "plan"]
  /\ UNCHANGED <<vars, process, kept, cut, home, removed, faults>>
\* restore_retained_config
Restore(r) ==
  /\ At(r, "restore", "retained")
  /\ home' = "config"
  /\ UNCHANGED <<vars, process, kept, cut, staging, removed, faults>>

RemoveRetained(r) ==
  /\ At(r, "retained", "staging")
  /\ staging' = [staging EXCEPT ![r] = "plan"]
  /\ UNCHANGED <<vars, process, kept, cut, home, removed, faults>>

\* cleanup_removal_staging
RemoveStaging(r) ==
  /\ At(r, "staging", "desktop")
  /\ staging' = [staging EXCEPT ![r] = "none"]
  /\ UNCHANGED <<vars, process, kept, cut, home, removed, faults>>

RemoveDesktop(r) ==
  /\ At(r, "desktop", "done")
  /\ removed' = removed \cup {"desktop"}
  /\ UNCHANGED <<vars, process, kept, cut, staging, home, faults>>

\* A step fails, having done a part of its work, or the process dies; nothing
\* launches it again.
FinalizerFails(r) ==
  /\ finalizer[r] \notin {"none", "done", "failed"}
  /\ Fails
  /\ finalizer' = [finalizer EXCEPT ![r] = "failed"]
  /\ home' = IF finalizer[r] \in {"home", "restore"} THEN "partial" ELSE home
  /\ UNCHANGED <<vars, process, kept, cut, staging, removed>>

FinalizerStep(r) ==
  \/ RuntimeGone(r) \/ RemoveProjections(r) \/ RemoveHome(r) \/ Restore(r)
  \/ RemoveRetained(r) \/ RemoveStaging(r) \/ RemoveDesktop(r)

-----------------------------------------------------------------------------
RemovalNext ==
  \/ Runs(Next)
  \/ Exits \/ Crashes
  \/ \E r \in Removers : FinalizerStep(r) \/ WaitTimesOut(r) \/ FinalizerFails(r)

\* Threads run, admitted work and activations end, the main thread polls is_stopping,
\* and the write lock, once awaited for ever, is granted: a waiting writer keeps new
\* readers out of a std::sync::RwLock, so activations that come and go cannot starve
\* it. Nothing is asked of the finalizer.
RemovalSpec ==
  /\ RemovalInit /\ [][RemovalNext]_removalVars
  /\ \A w \in Workers : WF_removalVars(Runs(WorkEnd(w)))
  /\ \A u \in Updates : /\ WF_removalVars(Runs(UpdateHandler(u)))
                        /\ SF_removalVars(Runs(UpdateThread(u)))
  /\ \A r \in Removers : /\ SF_removalVars(Runs(RemovalHandler(r)))
                         /\ SF_removalVars(Runs(DrainThread(r)))
  /\ \A q \in Quitters : SF_removalVars(Runs(QuitStep(q)))
  /\ \A a \in Activations : WF_removalVars(Runs(ActivationStep(a)))
  /\ WF_removalVars(Exits)

-----------------------------------------------------------------------------
(* A removal takes nothing that was to stay. It touches the Product only when  *)
(* the Runtime is gone, which leaves no admitted work unless it crashed; and the *)
(* configuration that was to be kept is in its place or staged, whichever step   *)
(* fails or dies (removal.rs 107-121, 294-320, 583-605, server.rs 556-572).      *)
RemovalLosesNothing ==
  /\ home # "whole" \/ removed # {} =>
       process = "exited" /\ ~cut
  /\ \A r \in launched : kept[r] =>
       home \in {"whole", "config"} \/ staging[r] = "config"

(* An accepted update ends, the Runtime being replaced or Ready again; an        *)
(* accepted removal drains the work and reaches Removing unless the Runtime      *)
(* crashes; Product Quit is answered. Except, all three, where a removal waits   *)
(* for the lock with a permit in hand (server.rs 427-595, 663-685).              *)
RequestsSettleUnlessBlocked ==
  /\ lifecycle = "updatePreparing" ~> lifecycle # "updatePreparing" \/ PermitWaitsForLock
  /\ lifecycle = "removalPreparing" ~>
       lifecycle = "removing" \/ (process = "exited" /\ faults > 0) \/ PermitWaitsForLock
  /\ \A q \in Quitters : quit[q] = "waiting" ~> quit[q] # "waiting" \/ PermitWaitsForLock
=============================================================================

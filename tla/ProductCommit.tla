----------------------------- MODULE ProductCommit -----------------------------
(* The whole-product update: product/commit.rs and product/store.rs, driven by   *)
(* the Apply of product/service.rs, by the startup of a Runtime (main.rs) and by *)
(* `install-product` of a Product Installer (main.rs).                           *)
(*                                                                               *)
(* Versions are numbers in semver order. What is on disk (Disk, Pending, Staging *)
(* below) survives a crash; a process does not, and its store lock goes with it. *)
(* Every durable write is a step of its own, so that a crash can fall between    *)
(* any two of them. Crashes and I/O errors are counted by `faults`.              *)
EXTENDS Naturals

CONSTANTS MaxVersion, \* the newest release
          MaxFaults,  \* bound on crashes and I/O failures
          Platform    \* "macos" or "windows": they differ in the Installer's preflight

ASSUME VersionAssumption == MaxVersion \in Nat \ {0}
ASSUME FaultAssumption == MaxFaults \in Nat
ASSUME PlatformAssumption == Platform \in {"macos", "windows"}

Versions == 1..MaxVersion
Phases == {"none", "Staged", "DesktopInstalled", "CurrentSelected", "RuntimeReady"}
Actors == {"apply", "installer"} \* who runs continue_commit

VARIABLES
  current,   \* the `current` pointer
  versions,  \* versions/<v>: "absent", "intact", "partial" (a removal was cut short)
  desktop,   \* the version of the installed Desktop
  phase,     \* the latest phase file of the pending commit
  from,      \* its from_version
  target,    \* its target_version
  staged,    \* its entry cut: it carries a staged Desktop asset
  txn,       \* its transaction id
  updates,   \* updates/<v>: the staged Desktop assets
  tombstone, \* .retired-pending-<v>, 0 for none
  receipts,  \* transactions whose continuation is claimed
  reopened,  \* history: how often each transaction's surface was reopened
  lock,      \* .product.lock
  runtime,   \* the version of the Runtime that owns Control, 0 for none
  main,      \* its main thread
  requested, \* its DEBRUTE_COMPLETE_PRODUCT_UPDATE, 0 for none
  waiting,   \* a launched target Runtime that waits for Control, 0 for none
  pc,        \* the update thread of the Runtime, and the Product Installer
  mine,      \* the transaction each of them continues
  goal,      \* the release the update thread stages
  seed,      \* the version the Product Installer carries
  faults     \* crashes and I/O failures so far

Disk == <<current, versions, desktop>>
Pending == <<phase, from, target, staged, txn>>
Staging == <<updates, tombstone>>
Resume == <<receipts, reopened>>
Process == <<runtime, main, requested, waiting>>
Actor == <<pc, mine, goal, seed>>
vars == <<Disk, Pending, Staging, Resume, lock, Process, Actor, faults>>

-----------------------------------------------------------------------------
(* The store.                                                                  *)

\* One update to 2, one to 3, ...: a commit is begun only for a newer version.
Transactions == 1..MaxVersion

Init ==
  /\ current = 1
  /\ versions = [v \in Versions |-> IF v = 1 THEN "intact" ELSE "absent"]
  /\ desktop = 1
  /\ phase = "none" /\ from = 1 /\ target = 1 /\ staged = FALSE /\ txn = 0
  /\ updates = {} /\ tombstone = 0
  /\ receipts = {} /\ reopened = [t \in Transactions |-> 0]
  /\ lock = "free"
  /\ runtime = 0 /\ main = "off" /\ requested = 0 /\ waiting = 0
  /\ pc = [a \in Actors |-> "idle"] /\ mine = [a \in Actors |-> 0]
  /\ goal = 0 /\ seed = 0
  /\ faults = 0

\* retire_update_at_root, for the version the tombstone names.
Retired == updates \ {tombstone}

\* lock_transaction: whoever takes the lock first finishes what a tombstone asks for.
Replays == /\ updates' = Retired
           /\ tombstone' = 0

\* A critical section that one step covers.
Atomically == /\ lock = "free"
              /\ Replays
              /\ UNCHANGED lock

\* The start of one that durable writes divide.
Takes(holder) == /\ lock = "free"
                 /\ Replays
                 /\ lock' = holder

Frees(holder) == /\ lock = holder
                 /\ lock' = "free"

Fault == /\ faults < MaxFaults
         /\ faults' = faults + 1

\* write_pending_unlocked: one more phase file of the same transaction.
Writes(next) == /\ phase' = next
                /\ UNCHANGED <<from, target, staged, txn>>

-----------------------------------------------------------------------------
(* continue_commit, by the update thread of a Runtime or by a Product Installer. *)

RunningVersion(a) == IF a = "apply" THEN runtime ELSE seed

\* authorize_running_product.
Authorized(a) ==
  /\ a = "apply" \/ phase # "RuntimeReady"
  /\ RunningVersion(a) = IF a = "installer" \/ phase = "RuntimeReady" THEN target ELSE from
  /\ versions[RunningVersion(a)] = "intact"

\* committing_failure and what request_product_update makes of it: the Runtime is
\* Replacing all the same and goes; the Installer reports and exits.
Fails(a) ==
  /\ pc' = [pc EXCEPT ![a] = IF a = "apply" THEN "ended" ELSE "idle"]
  /\ seed' = IF a = "installer" THEN 0 ELSE seed
  /\ UNCHANGED <<mine, goal>>

Goes(a, next) == /\ pc' = [pc EXCEPT ![a] = next]
                 /\ UNCHANGED <<mine, goal, seed>>

\* The first read of continue_commit.
Continue(a) ==
  /\ pc[a] = "continue"
  /\ Atomically
  /\ IF phase # "none" /\ Authorized(a)
     THEN /\ pc' = [pc EXCEPT ![a] = IF phase = "Staged" THEN "install" ELSE "select"]
          /\ mine' = [mine EXCEPT ![a] = txn]
          /\ UNCHANGED <<goal, seed>>
     ELSE Fails(a)
  /\ UNCHANGED <<Disk, Pending, Resume, Process, faults>>

MayInstall(a) == phase = "Staged" /\ Authorized(a)

\* install_desktop up to the native installer, which only a Runtime runs.
Install(a) ==
  /\ pc[a] = "install"
  /\ MayInstall(a)
  /\ Takes(a)
  /\ desktop' = IF a = "apply" THEN target ELSE desktop
  /\ Goes(a, "attest")
  /\ UNCHANGED <<current, versions, Pending, Resume, Process, faults>>

InstallFails(a) ==
  /\ pc[a] = "install"
  /\ Atomically
  /\ IF MayInstall(a)
     THEN /\ a = "apply" /\ desktop # target
          /\ desktop' \in {desktop, target}
          /\ Fault
     ELSE UNCHANGED <<desktop, faults>>
  /\ Fails(a)
  /\ UNCHANGED <<current, versions, Pending, Resume, Process>>

\* desktop_identity_matches, read after the native installer returned.
Attested == desktop = target

Attest(a) ==
  /\ pc[a] = "attest"
  /\ Frees(a)
  /\ IF Attested
     THEN Writes("DesktopInstalled") /\ Goes(a, "select")
     ELSE Fails(a) /\ UNCHANGED Pending
  /\ UNCHANGED <<Disk, Staging, Resume, Process, faults>>

\* The second read of continue_commit.
Reread(a) ==
  /\ pc[a] = "select"
  /\ Atomically
  /\ IF phase = "none" THEN Fails(a)
     ELSE Goes(a, IF phase = "DesktopInstalled" THEN "point" ELSE "launch")
  /\ UNCHANGED <<Disk, Pending, Resume, Process, faults>>

\* What select_current checks under the lock.
MaySelect(a) ==
  /\ phase = "DesktopInstalled"
  /\ Authorized(a)
  /\ versions[target] = "intact"

\* select_current_unlocked: `current` is replaced atomically ...
Point(a) ==
  /\ pc[a] = "point"
  /\ MaySelect(a)
  /\ Takes(a)
  /\ current' = target
  /\ Goes(a, "record")
  /\ UNCHANGED <<versions, desktop, Pending, Resume, Process, faults>>

PointRefused(a) ==
  /\ pc[a] = "point"
  /\ ~MaySelect(a)
  /\ Atomically
  /\ Fails(a)
  /\ UNCHANGED <<Disk, Pending, Resume, Process, faults>>

\* ... and then the phase that says so is written.
Record(a) ==
  /\ pc[a] = "record"
  /\ Frees(a)
  /\ Writes("CurrentSelected")
  /\ Goes(a, "launch")
  /\ UNCHANGED <<Disk, Staging, Resume, Process, faults>>

MayLaunch(a) ==
  /\ phase = "CurrentSelected"
  /\ txn = mine[a]
  /\ Authorized(a)
  /\ current = target

\* launch_runtime: a Runtime that launched the target goes, the Installer waits for
\* the installation to be Ready and changes nothing more.
Launch(a) ==
  /\ pc[a] = "launch"
  /\ MayLaunch(a)
  /\ Atomically
  /\ waiting' = target
  /\ Fails(a)
  /\ UNCHANGED <<Disk, Pending, Resume, runtime, main, requested, faults>>

LaunchFails(a) ==
  /\ pc[a] = "launch"
  /\ Atomically
  /\ IF MayLaunch(a) THEN Fault ELSE UNCHANGED faults
  /\ Fails(a)
  /\ UNCHANGED <<Disk, Pending, Resume, Process>>

ContinueStep(a) ==
  \/ Continue(a) \/ Install(a) \/ InstallFails(a) \/ Attest(a) \/ Reread(a)
  \/ Point(a) \/ PointRefused(a) \/ Record(a) \/ Launch(a) \/ LaunchFails(a)

-----------------------------------------------------------------------------
(* Apply, in a Runtime that has reported startup (product/service.rs).          *)

Started == main \notin {"off", "starting", "recover"}

\* apply with a pending commit; at RuntimeReady it only returns the state.
ApplyPending ==
  /\ Started /\ pc["apply"] = "idle"
  /\ phase \notin {"none", "RuntimeReady"}
  /\ Atomically
  /\ Goes("apply", "continue")
  /\ UNCHANGED <<Disk, Pending, Resume, Process, faults>>

\* apply of a release newer than the running Product: stage_available makes the
\* version and its Desktop asset complete before the commit begins.
Stage(v) ==
  /\ Started /\ pc["apply"] = "idle"
  /\ phase = "none"
  /\ v > runtime
  /\ lock = "free"
  /\ versions' = [versions EXCEPT ![v] = "intact"]
  /\ updates' = Retired \cup {v}
  /\ tombstone' = 0
  /\ goal' = v
  /\ pc' = [pc EXCEPT !["apply"] = "begin"]
  /\ UNCHANGED <<current, desktop, Pending, Resume, lock, Process, mine, seed, faults>>

\* Mutant: the target is compared with the running Product, not with current.
NewerThanRunning(v) == v > runtime \/ runtime = 0
\* target > from in begin and begin_with_installed_desktop.
Newer(v) == v > current

WritesFirst(v, cut) ==
  /\ phase' = IF cut THEN "Staged" ELSE "DesktopInstalled"
  /\ from' = current
  /\ target' = v
  /\ staged' = cut
  /\ txn' = txn + 1

\* begin; a refusal is reversible, and the Runtime goes back to Ready.
Begin ==
  /\ pc["apply"] = "begin"
  /\ Atomically
  /\ IF phase = "none" /\ Newer(goal)
     THEN /\ WritesFirst(goal, TRUE)
          /\ pc' = [pc EXCEPT !["apply"] = "continue"]
     ELSE /\ pc' = [pc EXCEPT !["apply"] = "idle"]
          /\ UNCHANGED Pending
  /\ goal' = 0
  /\ UNCHANGED <<Disk, Resume, Process, mine, seed, faults>>

-----------------------------------------------------------------------------
(* A Product Installer: preflight, stop the Runtime, replace the Desktop, run     *)
(* install-product as the Desktop seed that is now installed.                     *)

\* preflight_desktop_seed (macOS) and preflight-product-version (Windows).
Preflight(v) == /\ v >= current
                /\ Platform = "macos" => phase = "none"

InstallerStart(v) ==
  /\ pc["installer"] = "idle"
  /\ Preflight(v)
  /\ Atomically
  /\ seed' = v
  /\ pc' = [pc EXCEPT !["installer"] = "stop"]
  /\ UNCHANGED <<Disk, Pending, Resume, Process, mine, goal, faults>>

\* stop-product-for-installation found no Runtime, or gave up.
InstallerReplace ==
  /\ pc["installer"] = "stop"
  /\ \/ /\ runtime = 0
        /\ desktop' = seed
        /\ Goes("installer", "product")
     \/ /\ runtime # 0
        /\ UNCHANGED desktop
        /\ Fails("installer")
  /\ UNCHANGED <<current, versions, Pending, Staging, Resume, lock, Process, faults>>

\* recover_pending: the seed is the target of the pending commit. (The seed of the
\* old Product at Staged only starts the old Runtime: RuntimeStarts.)
SeedRecovers == phase # "none" /\ seed = target

InstallProduct ==
  /\ pc["installer"] = "product"
  /\ lock = "free"
  /\ tombstone' = 0
  /\ IF phase = "none" /\ Newer(seed)
     THEN /\ versions' = [versions EXCEPT ![seed] = "intact"] \* materialize_desktop_seed
          /\ Goes("installer", "begin")
          /\ UNCHANGED waiting
     ELSE IF SeedRecovers /\ phase # "RuntimeReady"
     THEN Goes("installer", "continue") /\ UNCHANGED <<versions, waiting>>
     ELSE /\ waiting' = IF SeedRecovers THEN target ELSE waiting \* launch_selected_runtime
          /\ Fails("installer")
          /\ UNCHANGED versions
  /\ updates' = Retired
  /\ UNCHANGED <<current, desktop, Pending, Resume, lock, runtime, main, requested, faults>>

\* begin_with_installed_desktop.
SeedBegin ==
  /\ pc["installer"] = "begin"
  /\ Atomically
  /\ IF phase = "none" /\ Newer(seed) /\ desktop = seed
     THEN WritesFirst(seed, FALSE) /\ Goes("installer", "continue")
     ELSE Fails("installer") /\ UNCHANGED Pending
  /\ UNCHANGED <<Disk, Resume, Process, faults>>

-----------------------------------------------------------------------------
(* A Runtime: startup, completion of the update, and its end.                     *)

\* The stable entrypoint executes what current names.
RuntimeStarts ==
  /\ runtime = 0
  /\ runtime' = current
  /\ main' = "starting"
  /\ UNCHANGED <<Disk, Pending, Staging, Resume, lock, requested, waiting, Actor, faults>>

\* complete-product-update: the launched target becomes the owner of Control.
TargetStarts ==
  /\ runtime = 0
  /\ waiting # 0
  /\ runtime' = waiting
  /\ requested' = waiting
  /\ waiting' = 0
  /\ main' = "starting"
  /\ UNCHANGED <<Disk, Pending, Staging, Resume, lock, Actor, faults>>

\* It waits for two minutes at most.
TargetGivesUp ==
  /\ waiting # 0
  /\ waiting' = 0
  /\ UNCHANGED <<Disk, Pending, Staging, Resume, lock, runtime, main, requested, Actor, faults>>

Exits == /\ runtime' = 0
         /\ main' = "off"
         /\ requested' = 0
         /\ pc' = [pc EXCEPT !["apply"] = "idle"]
         /\ goal' = 0
         /\ UNCHANGED <<waiting, mine, seed>>

Main(next) == /\ main' = next
              /\ UNCHANGED <<runtime, requested, waiting>>

\* validate_running_product.
MayRun ==
  /\ \/ current = runtime
     \/ /\ phase \in {"CurrentSelected", "RuntimeReady"}
        /\ from = runtime
        /\ target = current
  /\ versions[runtime] = "intact"

Validate ==
  /\ main = "starting"
  /\ Atomically
  /\ IF MayRun THEN Main("recover") /\ UNCHANGED Actor ELSE Exits
  /\ UNCHANGED <<Disk, Pending, Resume, faults>>

\* Mutant: only a commit that is not Ready yet is recovered at startup.
RecoveredBeforeReady ==
  IF requested # 0 THEN requested ELSE IF phase = "CurrentSelected" THEN target ELSE 0
\* requested_completion.or(recovered_completion).
Completion ==
  IF requested # 0 THEN requested
  ELSE IF phase \in {"CurrentSelected", "RuntimeReady"} THEN target ELSE 0

\* The rest of run_runtime_services up to finish_startup, with finalize_current.
FinishStartup ==
  /\ main = "recover"
  /\ Atomically
  /\ IF Completion = 0 THEN Main("serving") /\ UNCHANGED <<Actor, faults>>
     ELSE IF Completion = current
     THEN \/ Main("complete") /\ UNCHANGED <<Actor, faults>>
          \/ Exits /\ Fault
     ELSE Exits /\ UNCHANGED faults
  /\ UNCHANGED <<Disk, Pending, Resume>>

\* Mutant: whichever Runtime is running reports the target Ready.
AnyReports == current = target
\* ready_identity is the target, and so is current.
TargetReports == runtime = target /\ current = target

\* complete_ready: the Ready cut.
Ready ==
  /\ main = "complete"
  /\ Atomically
  /\ IF phase \in {"CurrentSelected", "RuntimeReady"} /\ TargetReports
     THEN Writes("RuntimeReady") /\ Main("claim")
     ELSE Main("serving") /\ UNCHANGED Pending
  /\ UNCHANGED <<Disk, Resume, Actor, faults>>

\* Mutant: the claim is kept in memory.
ClaimInMemory ==
  /\ main = "claim"
  /\ Atomically
  /\ Main("dispatch")
  /\ UNCHANGED <<Disk, Pending, Resume, Actor, faults>>
\* claim_resume: one claim for each transaction, durable before the surface opens.
Claim ==
  /\ main = "claim"
  /\ Atomically
  /\ IF txn \in receipts
     THEN Main("cleanup") /\ UNCHANGED receipts
     ELSE Main("dispatch") /\ receipts' = receipts \cup {txn}
  /\ UNCHANGED <<Disk, Pending, reopened, Actor, faults>>

\* The resume handler; whether it succeeds changes nothing that is modelled.
Dispatch ==
  /\ main = "dispatch"
  /\ reopened' = [reopened EXCEPT ![txn] = @ + 1]
  /\ Main("cleanup")
  /\ UNCHANGED <<Disk, Pending, Staging, receipts, lock, Actor, faults>>

\* remove_version_unlocked of the old Product, which is never the current one ...
Cleanup ==
  /\ main = "cleanup"
  /\ Takes("main")
  /\ versions' = [versions EXCEPT ![from] = "absent"]
  /\ Main("clear")
  /\ UNCHANGED <<current, desktop, Pending, Resume, Actor, faults>>

\* ... or part of it: the commit stays pending, and Ready.
CleanupFails ==
  /\ main = "cleanup"
  /\ Atomically
  /\ versions' = [versions EXCEPT ![from] = "partial"]
  /\ Main("serving")
  /\ Fault
  /\ UNCHANGED <<current, desktop, Pending, Resume, Actor>>

\* Mutant: the staged asset is retired before the pending commit.
ClearAfterRetiring ==
  /\ main = "clear"
  /\ updates' = updates \ {target}
  /\ phase' = IF target \in updates THEN phase ELSE "none"
  /\ tombstone' = IF target \in updates THEN tombstone ELSE target
  /\ Main(IF target \in updates THEN "clear" ELSE "retire")
  /\ UNCHANGED <<Disk, from, target, staged, txn, Resume, lock, Actor, faults>>
\* clear_pending_unlocked: the directory of the pending commit becomes a tombstone ...
Clear ==
  /\ main = "clear"
  /\ phase' = "none"
  /\ tombstone' = target
  /\ Main("retire")
  /\ UNCHANGED <<Disk, from, target, staged, txn, updates, Resume, lock, Actor, faults>>

\* ... the staged asset is retired ...
Retire ==
  /\ main = "retire"
  /\ updates' = Retired
  /\ Main("bury")
  /\ UNCHANGED <<Disk, Pending, tombstone, Resume, lock, Actor, faults>>

\* ... and the tombstone removed. If either fails, the next lock does both.
Bury ==
  /\ main \in {"retire", "bury"}
  /\ Frees("main")
  /\ IF main = "bury" THEN tombstone' = 0 /\ UNCHANGED faults
     ELSE Fault /\ UNCHANGED tombstone
  /\ Main("serving")
  /\ UNCHANGED <<Disk, Pending, updates, Resume, Actor>>

\* Quit, or the end of a Runtime whose update thread made it Replacing.
RuntimeEnds ==
  /\ main = "serving"
  /\ pc["apply"] \in {"idle", "ended"}
  /\ Exits
  /\ UNCHANGED <<Disk, Pending, Staging, Resume, lock, faults>>

RuntimeCrashes ==
  /\ runtime # 0
  /\ Fault
  /\ Exits
  /\ lock' = IF lock \in {"main", "apply"} THEN "free" ELSE lock
  /\ UNCHANGED <<Disk, Pending, Staging, Resume>>

InstallerCrashes ==
  /\ pc["installer"] # "idle"
  /\ Fault
  /\ Fails("installer")
  /\ lock' = IF lock = "installer" THEN "free" ELSE lock
  /\ UNCHANGED <<Disk, Pending, Staging, Resume, Process>>

-----------------------------------------------------------------------------
MainStep ==
  \/ Validate \/ FinishStartup \/ Ready \/ Claim \/ Dispatch
  \/ Cleanup \/ CleanupFails \/ Clear \/ Retire \/ Bury

Next ==
  \/ \E a \in Actors : ContinueStep(a)
  \/ ApplyPending \/ Begin \/ \E v \in Versions : Stage(v)
  \/ InstallerReplace \/ InstallProduct \/ SeedBegin
  \/ \E v \in Versions : InstallerStart(v)
  \/ RuntimeStarts \/ TargetStarts \/ TargetGivesUp
  \/ MainStep \/ RuntimeEnds \/ RuntimeCrashes \/ InstallerCrashes

\* Running processes take their steps (whoever holds the lock lets it go within two),
\* and sooner or later a Runtime that runs is ended and one that does not is started:
\* a session, a login.
Fairness ==
  /\ WF_vars(MainStep)
  /\ WF_vars(ContinueStep("apply") \/ Begin)
  /\ WF_vars(ContinueStep("installer") \/ InstallerReplace \/ InstallProduct \/ SeedBegin)
  /\ WF_vars(RuntimeStarts)
  /\ SF_vars(RuntimeEnds)

Spec == Init /\ [][Next]_vars /\ Fairness

-----------------------------------------------------------------------------
(* Type correctness.                                                            *)
TypeOK ==
  /\ current \in Versions
  /\ versions \in [Versions -> {"absent", "intact", "partial"}]
  /\ desktop \in Versions
  /\ phase \in Phases /\ from \in Versions /\ target \in Versions
  /\ staged \in BOOLEAN /\ txn \in Nat
  /\ updates \subseteq Versions /\ tombstone \in 0..MaxVersion
  /\ receipts \subseteq Nat /\ reopened \in [Transactions -> Nat]
  /\ lock \in Actors \cup {"free", "main"}
  /\ runtime \in 0..MaxVersion /\ requested \in 0..MaxVersion /\ waiting \in 0..MaxVersion
  /\ main \in {"off", "starting", "recover", "serving", "complete", "claim", "dispatch",
               "cleanup", "clear", "retire", "bury"}
  /\ pc \in [Actors -> {"idle", "begin", "continue", "install", "attest", "select", "point",
                        "record", "launch", "ended", "stop", "product"}]
  /\ mine \in [Actors -> Nat]
  /\ goal \in 0..MaxVersion /\ seed \in 0..MaxVersion
  /\ faults \in 0..MaxFaults

(* A crash may fall at any point: the machine has a Product to start and can go on  *)
(* with the commit. current names a complete version, and so does whatever the       *)
(* pending commit still needs, the old version until the Ready cut and the target    *)
(* throughout; a Runtime that serves runs from a complete version; and the staged     *)
(* Desktop asset that every read of the pending commit validates is still there, by   *)
(* whichever path the commit was cleared before (store.rs 334-369, 801-809,           *)
(* 1108-1134, 1562-1613, commit.rs 692-771).                                          *)
CrashIsSurvivable ==
  /\ versions[current] = "intact"
  /\ phase # "none" => versions[target] = "intact"
  /\ phase \in {"Staged", "DesktopInstalled", "CurrentSelected"} => versions[from] = "intact"
  /\ Started => versions[runtime] = "intact"
  /\ phase # "none" /\ staged => target \in updates /\ tombstone # target

(* The initiating surface is reopened at most once for each transaction, however    *)
(* often the completion is retried after a crash (platform.rs 188-199).             *)
ReopenedOnce == \A t \in Transactions : reopened[t] <= 1

(* An update is one forward switch: the commit implements the atomic ProductSwitch. *)
Switch == INSTANCE ProductSwitch WITH
            selected <- current,
            goal <- IF phase = "none" THEN 0 ELSE target
ImplementsSwitch == Switch!Spec

(* Once current is selected, the update finishes, whatever crashes and failures     *)
(* came in between: some later start completes it (main.rs 982-1062).               *)
SelectedCommitFinishes ==
  phase \in {"CurrentSelected", "RuntimeReady"} ~> phase = "none"
=============================================================================

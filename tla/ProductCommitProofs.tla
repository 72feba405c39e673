------------------------- MODULE ProductCommitProofs -------------------------
(***************************************************************************)
(* Proofs about ProductCommit, for any number of versions, of crashes and  *)
(* of failed writes, on both platforms: what is on disk is enough to go on *)
(* from at every moment, and the commit is one forward switch.             *)
(*                                                                         *)
(* Everything rests on what the phase file and the holder of the store     *)
(* lock say together (Held, Cut, Reported).  A version is only removed by  *)
(* the Runtime that reported the Ready cut, and that one runs the target,  *)
(* which is current (Reported); what has still to be begun is newer than   *)
(* current, and so is no version that is removed and no staged asset that  *)
(* is retired (Prepared).                                                  *)
(***************************************************************************)
EXTENDS ProductCommit, TLAPS

Running == main \notin {"off", "starting"}
Finishing == {"claim", "dispatch", "cleanup", "clear"}

\* Who holds the store lock is between two durable writes of one critical section.
Held ==
  /\ \A a \in Actors : lock = a <=> pc[a] \in {"attest", "record"}
  /\ lock = "main" <=> main \in {"clear", "retire", "bury"}
  /\ \A a \in Actors : pc[a] = "attest" => phase = "Staged"
  /\ \A a \in Actors : pc[a] = "record" => phase = "DesktopInstalled" /\ current = target
  /\ main \in {"retire", "bury"} => phase = "none"

\* A process that is not there does nothing, and Apply waits for the startup.
Present ==
  /\ runtime = 0 <=> main = "off"
  /\ ~Started => pc["apply"] = "idle"

\* What the phase file says of current.
Cut ==
  /\ phase # "none" => from < target
  /\ phase = "Staged" => current = from
  /\ phase = "DesktopInstalled" => current \in {from, target}
  /\ phase \in {"CurrentSelected", "RuntimeReady"} => current = target

\* The versions that a start, the pending commit and the running Product need.
Intact ==
  /\ versions[current] = "intact"
  /\ phase # "none" => versions[target] = "intact"
  /\ phase \in {"Staged", "DesktopInstalled", "CurrentSelected"} => versions[from] = "intact"
  /\ Running => versions[runtime] = "intact"

\* What Stage and InstallProduct made complete, and no commit names yet.
Prepared ==
  /\ pc["apply"] = "begin" /\ goal > current =>
       versions[goal] = "intact" /\ goal \in updates /\ tombstone # goal
  /\ pc["installer"] = "begin" /\ seed > current => versions[seed] = "intact"

Assets == phase # "none" /\ staged => target \in updates /\ tombstone # target

\* Who finishes the commit is the target, after the Ready cut.
Reported == main \in Finishing => phase = "RuntimeReady" /\ runtime = target

\* Transactions are fewer than versions, and each is claimed before it is reopened.
Counted == IF phase = "none" THEN txn < current ELSE txn \in 1..(target - 1)
Reopens ==
  /\ \A t \in Transactions : reopened[t] = 0 \/ (reopened[t] = 1 /\ t \in receipts)
  /\ main = "dispatch" => txn \in receipts /\ reopened[txn] = 0

Commit == /\ Held /\ Present /\ Cut /\ Intact /\ Prepared /\ Assets /\ Reported
          /\ Counted /\ Reopens

USE VersionAssumption, FaultAssumption
USE DEF Versions, Phases, Actors, Transactions, Disk, Pending, Staging, Resume, Process, Actor,
        Retired, Replays, Atomically, Takes, Frees, Fault, Writes, RunningVersion, Fails, Goes,
        Exits, Main

-----------------------------------------------------------------------------
\* Every action keeps the types. What InstallerReplace installs is the version that the
\* Installer carries.
PendingTyped == /\ phase \in Phases /\ from \in Versions /\ target \in Versions
                /\ staged \in BOOLEAN /\ txn \in Nat
ProgressTyped ==
  /\ pc \in [Actors -> {"idle", "begin", "continue", "install", "attest", "select", "point",
                        "record", "launch", "ended", "stop", "product"}]
  /\ mine \in [Actors -> Nat]
ReleaseTyped == /\ goal \in 0..MaxVersion /\ seed \in 0..MaxVersion
                /\ pc["installer"] \in {"stop", "product"} => seed # 0
DiskTyped == /\ current \in Versions /\ desktop \in Versions
             /\ versions \in [Versions -> {"absent", "intact", "partial"}]
             /\ updates \subseteq Versions /\ tombstone \in 0..MaxVersion
             /\ faults \in 0..MaxFaults
ResumeTyped == /\ receipts \subseteq Nat
               /\ reopened \in [Transactions -> Nat]
ProcessTyped ==
  /\ lock \in Actors \cup {"free", "main"}
  /\ runtime \in 0..MaxVersion /\ requested \in 0..MaxVersion /\ waiting \in 0..MaxVersion
  /\ main \in {"off", "starting", "recover", "serving", "complete", "claim", "dispatch",
               "cleanup", "clear", "retire", "bury"}
Typed == /\ PendingTyped /\ ProgressTyped /\ ReleaseTyped /\ DiskTyped /\ ResumeTyped
         /\ ProcessTyped

LEMMA TypedIsTypeOK == Typed => TypeOK
BY DEF Typed, TypeOK, PendingTyped, ProgressTyped, ReleaseTyped, DiskTyped, ResumeTyped,
       ProcessTyped

LEMMA InitTyped == Init => Typed
<1> SUFFICES ASSUME Init PROVE Typed
  OBVIOUS
<1> USE DEF Init
<1>1. PendingTyped
  <2>1. staged \in BOOLEAN
    BY Zenon
  <2> QED BY <2>1 DEF PendingTyped
<1>2. ProgressTyped
  BY DEF ProgressTyped
<1>3. ReleaseTyped
  BY DEF ReleaseTyped
<1>4. DiskTyped
  BY DEF DiskTyped
<1>5. ResumeTyped
  BY DEF ResumeTyped
<1>6. ProcessTyped
  BY DEF ProcessTyped
<1> QED BY <1>1, <1>2, <1>3, <1>4, <1>5, <1>6 DEF Typed

LEMMA NextTyped == Typed /\ [Next]_vars => Typed'
<1> SUFFICES ASSUME Typed, [Next]_vars PROVE Typed'
  OBVIOUS
<1> USE DEF Typed, PendingTyped, ProgressTyped, ReleaseTyped, DiskTyped, ResumeTyped, ProcessTyped
<1>1. ASSUME NEW a \in Actors, Continue(a) PROVE Typed'
  <2> USE <1>1 DEF Continue
  <2>1. PendingTyped'
    OBVIOUS
  <2>2. ProgressTyped'
    OBVIOUS
  <2>3. ReleaseTyped'
    OBVIOUS
  <2>4. DiskTyped'
    OBVIOUS
  <2>5. ResumeTyped'
    OBVIOUS
  <2>6. ProcessTyped'
    OBVIOUS
  <2> QED BY <2>1, <2>2, <2>3, <2>4, <2>5, <2>6 DEF Typed
<1>2. ASSUME NEW a \in Actors, Install(a) PROVE Typed'
  BY <1>2 DEF Install, MayInstall, Authorized, Typed
<1>3. ASSUME NEW a \in Actors, InstallFails(a) PROVE Typed'
  BY <1>3 DEF InstallFails, MayInstall, Typed
<1>4. ASSUME NEW a \in Actors, Attest(a) PROVE Typed'
  <2> USE <1>4 DEF Attest, Attested
  <2>1. PendingTyped'
    OBVIOUS
  <2>2. ProgressTyped'
    OBVIOUS
  <2>3. ReleaseTyped'
    BY SMTT(30)
  <2>4. DiskTyped'
    OBVIOUS
  <2>5. ResumeTyped'
    OBVIOUS
  <2>6. ProcessTyped'
    OBVIOUS
  <2> QED BY <2>1, <2>2, <2>3, <2>4, <2>5, <2>6 DEF Typed
<1>5. ASSUME NEW a \in Actors, Reread(a) PROVE Typed'
  BY <1>5 DEF Reread, Typed
<1>6. ASSUME NEW a \in Actors, Point(a) PROVE Typed'
  BY <1>6 DEF Point, MaySelect, Authorized, Typed
<1>7. ASSUME NEW a \in Actors, PointRefused(a) PROVE Typed'
  BY <1>7 DEF PointRefused, Typed
<1>8. ASSUME NEW a \in Actors, Record(a) PROVE Typed'
  BY <1>8 DEF Record, Typed
<1>9. ASSUME NEW a \in Actors, Launch(a) PROVE Typed'
  BY <1>9 DEF Launch, MayLaunch, Typed
<1>10. ASSUME NEW a \in Actors, LaunchFails(a) PROVE Typed'
  BY <1>10 DEF LaunchFails, Typed
<1>11. ASSUME NEW v \in Versions, Stage(v) PROVE Typed'
  BY <1>11 DEF Stage, Started, Typed
<1>12. ASSUME NEW v \in Versions, InstallerStart(v) PROVE Typed'
  BY <1>12 DEF InstallerStart, Typed
<1>13. ASSUME ApplyPending PROVE Typed'
  BY <1>13 DEF ApplyPending, Started, Typed
<1>14. ASSUME Begin PROVE Typed'
  <2> USE <1>14 DEF Begin, Newer, WritesFirst
  <2>1. PendingTyped'
    <3>1. staged' \in BOOLEAN
      BY Zenon
    <3>2. phase' \in Phases /\ from' \in Versions /\ target' \in Versions /\ txn' \in Nat
      BY SMTT(30)
    <3> QED BY <3>1, <3>2
  <2>2. ProgressTyped'
    OBVIOUS
  <2>3. ReleaseTyped'
    OBVIOUS
  <2>4. DiskTyped'
    OBVIOUS
  <2>5. ResumeTyped'
    OBVIOUS
  <2>6. ProcessTyped'
    OBVIOUS
  <2> QED BY <2>1, <2>2, <2>3, <2>4, <2>5, <2>6 DEF Typed
<1>15. ASSUME InstallerReplace PROVE Typed'
  BY <1>15 DEF InstallerReplace, Typed
<1>16. ASSUME InstallProduct PROVE Typed'
  <2> USE <1>16 DEF InstallProduct, Newer, SeedRecovers
  <2>1. PendingTyped'
    OBVIOUS
  <2>2. ProgressTyped'
    OBVIOUS
  <2>3. ReleaseTyped'
    OBVIOUS
  <2>4. DiskTyped'
    OBVIOUS
  <2>5. ResumeTyped'
    OBVIOUS
  <2>6. ProcessTyped'
    OBVIOUS
  <2> QED BY <2>1, <2>2, <2>3, <2>4, <2>5, <2>6 DEF Typed
<1>17. ASSUME SeedBegin PROVE Typed'
  <2> USE <1>17 DEF SeedBegin, Newer, WritesFirst
  <2>1. PendingTyped'
    <3>1. staged' \in BOOLEAN
      BY Zenon
    <3>2. phase' \in Phases /\ from' \in Versions /\ target' \in Versions /\ txn' \in Nat
      BY SMTT(30)
    <3> QED BY <3>1, <3>2
  <2>2. ProgressTyped'
    OBVIOUS
  <2>3. ReleaseTyped'
    OBVIOUS
  <2>4. DiskTyped'
    OBVIOUS
  <2>5. ResumeTyped'
    OBVIOUS
  <2>6. ProcessTyped'
    OBVIOUS
  <2> QED BY <2>1, <2>2, <2>3, <2>4, <2>5, <2>6 DEF Typed
<1>18. ASSUME RuntimeStarts PROVE Typed'
  BY <1>18 DEF RuntimeStarts, Typed
<1>19. ASSUME TargetStarts PROVE Typed'
  BY <1>19 DEF TargetStarts, Typed
<1>20. ASSUME TargetGivesUp PROVE Typed'
  BY <1>20 DEF TargetGivesUp, Typed
<1>21. ASSUME Validate PROVE Typed'
  <2> USE <1>21 DEF Validate, MayRun
  <2>1. PendingTyped'
    OBVIOUS
  <2>2. ProgressTyped'
    OBVIOUS
  <2>3. ReleaseTyped'
    OBVIOUS
  <2>4. DiskTyped'
    OBVIOUS
  <2>5. ResumeTyped'
    OBVIOUS
  <2>6. ProcessTyped'
    OBVIOUS
  <2> QED BY <2>1, <2>2, <2>3, <2>4, <2>5, <2>6 DEF Typed
<1>22. ASSUME FinishStartup PROVE Typed'
  <2> USE <1>22 DEF FinishStartup, Completion
  <2>1. PendingTyped'
    OBVIOUS
  <2>2. ProgressTyped'
    OBVIOUS
  <2>3. ReleaseTyped'
    OBVIOUS
  <2>4. DiskTyped'
    BY SMTT(30)
  <2>5. ResumeTyped'
    OBVIOUS
  <2>6. ProcessTyped'
    BY SMTT(30)
  <2> QED BY <2>1, <2>2, <2>3, <2>4, <2>5, <2>6 DEF Typed
<1>23. ASSUME Ready PROVE Typed'
  <2> USE <1>23 DEF Ready, TargetReports
  <2>1. PendingTyped'
    OBVIOUS
  <2>2. ProgressTyped'
    OBVIOUS
  <2>3. ReleaseTyped'
    OBVIOUS
  <2>4. DiskTyped'
    OBVIOUS
  <2>5. ResumeTyped'
    OBVIOUS
  <2>6. ProcessTyped'
    OBVIOUS
  <2> QED BY <2>1, <2>2, <2>3, <2>4, <2>5, <2>6 DEF Typed
<1>24. ASSUME Claim PROVE Typed'
  <2> USE <1>24 DEF Claim
  <2>1. PendingTyped'
    OBVIOUS
  <2>2. ProgressTyped'
    OBVIOUS
  <2>3. ReleaseTyped'
    OBVIOUS
  <2>4. DiskTyped'
    OBVIOUS
  <2>5. ResumeTyped'
    OBVIOUS
  <2>6. ProcessTyped'
    OBVIOUS
  <2> QED BY <2>1, <2>2, <2>3, <2>4, <2>5, <2>6 DEF Typed
<1>25. ASSUME Dispatch PROVE Typed'
  <2> USE <1>25 DEF Dispatch
  <2>1. PendingTyped'
    OBVIOUS
  <2>2. ProgressTyped'
    OBVIOUS
  <2>3. ReleaseTyped'
    OBVIOUS
  <2>4. DiskTyped'
    OBVIOUS
  <2>5. ResumeTyped'
    <3>1. ASSUME NEW t \in Transactions PROVE reopened'[t] \in Nat
      <4>1. CASE t = txn
        BY <4>1
      <4>2. CASE t # txn
        BY <4>2
      <4> QED BY <4>1, <4>2
    <3> QED BY <3>1
  <2>6. ProcessTyped'
    OBVIOUS
  <2> QED BY <2>1, <2>2, <2>3, <2>4, <2>5, <2>6 DEF Typed
<1>26. ASSUME Cleanup PROVE Typed'
  BY <1>26 DEF Cleanup, Typed
<1>27. ASSUME CleanupFails PROVE Typed'
  BY <1>27 DEF CleanupFails, Typed
<1>28. ASSUME Clear PROVE Typed'
  BY <1>28 DEF Clear, Typed
<1>29. ASSUME Retire PROVE Typed'
  BY <1>29 DEF Retire, Typed
<1>30. ASSUME Bury PROVE Typed'
  BY <1>30 DEF Bury, Typed
<1>31. ASSUME RuntimeEnds PROVE Typed'
  BY <1>31 DEF RuntimeEnds, Typed
<1>32. ASSUME RuntimeCrashes PROVE Typed'
  BY <1>32 DEF RuntimeCrashes, Typed
<1>33. ASSUME InstallerCrashes PROVE Typed'
  BY <1>33 DEF InstallerCrashes, Typed
<1>34. ASSUME UNCHANGED vars PROVE Typed'
  BY <1>34 DEF vars, Typed
<1> QED BY <1>1, <1>2, <1>3, <1>4, <1>5, <1>6, <1>7, <1>8, <1>9, <1>10, <1>11, <1>12, <1>13,
  <1>14, <1>15, <1>16, <1>17, <1>18, <1>19, <1>20, <1>21, <1>22, <1>23, <1>24, <1>25,
  <1>26, <1>27, <1>28, <1>29, <1>30, <1>31, <1>32, <1>33, <1>34
  DEF Next, ContinueStep, MainStep

\* Every variable of ProductCommit keeps its type.
THEOREM TypeCorrect == Spec => []TypeOK
BY TypedIsTypeOK, InitTyped, NextTyped, PTL DEF Spec

-----------------------------------------------------------------------------
LEMMA InitCommit == Init => Commit
BY DEF Init, Commit, Held, Present, Cut, Intact, Prepared, Assets, Reported, Counted, Reopens,
       Started, Running, Finishing

LEMMA NextCommit == Typed /\ Commit /\ [Next]_vars => Commit'
<1> SUFFICES ASSUME Typed, Commit, [Next]_vars PROVE Commit'
  OBVIOUS
<1> USE DEF Typed, PendingTyped, ProgressTyped, ReleaseTyped, DiskTyped, ResumeTyped, ProcessTyped,
            Commit, Held, Present, Cut, Intact, Prepared, Assets, Reported, Counted,
            Reopens, Started, Running, Finishing
<1>1. ASSUME NEW a \in Actors, Continue(a) PROVE Commit'
  <2> USE <1>1 DEF Continue
  <2>1. Held'
    BY SMTT(30)
  <2>2. Present'
    OBVIOUS
  <2>3. Cut'
    OBVIOUS
  <2>4. Intact'
    OBVIOUS
  <2>5. Prepared'
    <3>1. UNCHANGED <<current, versions, goal>> /\ updates' = updates \ {tombstone} /\ tombstone' = 0
      OBVIOUS
    <3>2. pc'["apply"] = "begin" => pc["apply"] = "begin"
      OBVIOUS
    <3>3. pc'["installer"] = "begin" => pc["installer"] = "begin" /\ seed' = seed
      OBVIOUS
    <3>4. goal > current => goal # 0
      OBVIOUS
    <3> QED BY ONLY <3>1, <3>2, <3>3, <3>4, Prepared DEF Prepared
  <2>6. Assets'
    OBVIOUS
  <2>7. Reported'
    OBVIOUS
  <2>8. Counted'
    OBVIOUS
  <2>9. Reopens'
    OBVIOUS
  <2> QED BY <2>1, <2>2, <2>3, <2>4, <2>5, <2>6, <2>7, <2>8, <2>9 DEF Commit
<1>2. ASSUME NEW a \in Actors, Install(a) PROVE Commit'
  BY <1>2 DEF Install, MayInstall, Authorized, Commit
<1>3. ASSUME NEW a \in Actors, InstallFails(a) PROVE Commit'
  <2> USE <1>3 DEF InstallFails, MayInstall
  <2>1. Held'
    BY SMTT(30)
  <2>2. Present'
    OBVIOUS
  <2>3. Cut'
    OBVIOUS
  <2>4. Intact'
    OBVIOUS
  <2>5. Prepared'
    OBVIOUS
  <2>6. Assets'
    OBVIOUS
  <2>7. Reported'
    OBVIOUS
  <2>8. Counted'
    OBVIOUS
  <2>9. Reopens'
    OBVIOUS
  <2> QED BY <2>1, <2>2, <2>3, <2>4, <2>5, <2>6, <2>7, <2>8, <2>9 DEF Commit
<1>4. ASSUME NEW a \in Actors, Attest(a) PROVE Commit'
  <2> USE <1>4 DEF Attest, Attested
  <2>1. Held'
    BY SMTT(30)
  <2>2. Present'
    OBVIOUS
  <2>3. Cut'
    OBVIOUS
  <2>4. Intact'
    OBVIOUS
  <2>5. Prepared'
    <3>1. UNCHANGED <<current, versions, goal, updates, tombstone>>
      OBVIOUS
    <3>2. pc'["apply"] = "begin" => pc["apply"] = "begin"
      OBVIOUS
    <3>3. pc'["installer"] = "begin" => pc["installer"] = "begin" /\ seed' = seed
      OBVIOUS
    <3>4. goal > current => goal # 0
      OBVIOUS
    <3> QED BY ONLY <3>1, <3>2, <3>3, <3>4, Prepared DEF Prepared
  <2>6. Assets'
    OBVIOUS
  <2>7. Reported'
    OBVIOUS
  <2>8. Counted'
    OBVIOUS
  <2>9. Reopens'
    OBVIOUS
  <2> QED BY <2>1, <2>2, <2>3, <2>4, <2>5, <2>6, <2>7, <2>8, <2>9 DEF Commit
<1>5. ASSUME NEW a \in Actors, Reread(a) PROVE Commit'
  <2> USE <1>5 DEF Reread
  <2>1. Held'
    BY SMTT(30)
  <2>2. Present'
    OBVIOUS
  <2>3. Cut'
    OBVIOUS
  <2>4. Intact'
    OBVIOUS
  <2>5. Prepared'
    <3>1. UNCHANGED <<current, versions, goal>> /\ updates' = updates \ {tombstone} /\ tombstone' = 0
      OBVIOUS
    <3>2. pc'["apply"] = "begin" => pc["apply"] = "begin"
      OBVIOUS
    <3>3. pc'["installer"] = "begin" => pc["installer"] = "begin" /\ seed' = seed
      OBVIOUS
    <3>4. goal > current => goal # 0
      OBVIOUS
    <3> QED BY ONLY <3>1, <3>2, <3>3, <3>4, Prepared DEF Prepared
  <2>6. Assets'
    OBVIOUS
  <2>7. Reported'
    OBVIOUS
  <2>8. Counted'
    OBVIOUS
  <2>9. Reopens'
    OBVIOUS
  <2> QED BY <2>1, <2>2, <2>3, <2>4, <2>5, <2>6, <2>7, <2>8, <2>9 DEF Commit
<1>6. ASSUME NEW a \in Actors, Point(a) PROVE Commit'
  BY <1>6 DEF Point, MaySelect, Authorized, Commit
<1>7. ASSUME NEW a \in Actors, PointRefused(a) PROVE Commit'
  BY <1>7 DEF PointRefused, Commit
<1>8. ASSUME NEW a \in Actors, Record(a) PROVE Commit'
  BY <1>8 DEF Record, Commit
<1>9. ASSUME NEW a \in Actors, Launch(a) PROVE Commit'
  BY <1>9 DEF Launch, MayLaunch, Commit
<1>10. ASSUME NEW a \in Actors, LaunchFails(a) PROVE Commit'
  BY <1>10 DEF LaunchFails, Commit
<1>11. ASSUME NEW v \in Versions, Stage(v) PROVE Commit'
  BY <1>11 DEF Stage, Started, Commit
<1>12. ASSUME NEW v \in Versions, InstallerStart(v) PROVE Commit'
  BY <1>12 DEF InstallerStart, Commit
<1>13. ASSUME ApplyPending PROVE Commit'
  BY <1>13 DEF ApplyPending, Started, Commit
<1>14. ASSUME Begin PROVE Commit'
  <2> USE <1>14 DEF Begin, Newer, WritesFirst
  <2>1. Held'
    BY SMTT(30)
  <2>2. Present'
    OBVIOUS
  <2>3. Cut'
    OBVIOUS
  <2>4. Intact'
    OBVIOUS
  <2>5. Prepared'
    OBVIOUS
  <2>6. Assets'
    <3>1. CASE phase = "none" /\ goal > current
      <4>1. goal \in updates' /\ tombstone' # goal
        BY <3>1
      <4> QED BY <3>1, <4>1
    <3>2. CASE ~(phase = "none" /\ goal > current)
      <4>1. UNCHANGED <<phase, target, staged>>
        BY <3>2
      <4>2. phase # "none" /\ staged => target \in updates' /\ tombstone' # target
        OBVIOUS
      <4> QED BY <4>1, <4>2
    <3> QED BY <3>1, <3>2
  <2>7. Reported'
    OBVIOUS
  <2>8. Counted'
    <3>1. CASE phase = "none" /\ goal > current
      <4>1. txn' = txn + 1 /\ target' = goal /\ phase' # "none"
        BY <3>1
      <4>2. txn < current /\ txn + 1 \in 1..(goal - 1)
        BY <3>1
      <4> QED BY <4>1, <4>2
    <3>2. CASE ~(phase = "none" /\ goal > current)
      <4>1. UNCHANGED <<phase, target, txn, current>>
        BY <3>2
      <4> QED BY <4>1
    <3> QED BY <3>1, <3>2
  <2>9. Reopens'
    OBVIOUS
  <2> QED BY <2>1, <2>2, <2>3, <2>4, <2>5, <2>6, <2>7, <2>8, <2>9 DEF Commit
<1>15. ASSUME InstallerReplace PROVE Commit'
  <2> USE <1>15 DEF InstallerReplace
  <2>1. Held'
    BY SMTT(30)
  <2>2. Present'
    OBVIOUS
  <2>3. Cut'
    OBVIOUS
  <2>4. Intact'
    OBVIOUS
  <2>5. Prepared'
    OBVIOUS
  <2>6. Assets'
    OBVIOUS
  <2>7. Reported'
    OBVIOUS
  <2>8. Counted'
    OBVIOUS
  <2>9. Reopens'
    OBVIOUS
  <2> QED BY <2>1, <2>2, <2>3, <2>4, <2>5, <2>6, <2>7, <2>8, <2>9 DEF Commit
<1>16. ASSUME InstallProduct PROVE Commit'
  <2> USE <1>16 DEF InstallProduct, Newer, SeedRecovers
  <2>1. Held'
    BY SMTT(30)
  <2>2. Present'
    OBVIOUS
  <2>3. Cut'
    OBVIOUS
  <2>4. Intact'
    BY SMTT(30)
  <2>5. Prepared'
    <3>1. UNCHANGED <<current, goal>> /\ updates' = updates \ {tombstone} /\ tombstone' = 0
      OBVIOUS
    <3>2. pc'["apply"] = pc["apply"]
      OBVIOUS
    <3>3. \A v \in Versions : versions[v] = "intact" => versions'[v] = "intact"
      OBVIOUS
    <3>4. pc'["installer"] = "begin" => versions'[seed'] = "intact"
      OBVIOUS
    <3>5. goal > current => goal \in Versions /\ goal # 0
      OBVIOUS
    <3> QED BY ONLY <3>1, <3>2, <3>3, <3>4, <3>5, Prepared DEF Prepared
  <2>6. Assets'
    OBVIOUS
  <2>7. Reported'
    OBVIOUS
  <2>8. Counted'
    OBVIOUS
  <2>9. Reopens'
    OBVIOUS
  <2> QED BY <2>1, <2>2, <2>3, <2>4, <2>5, <2>6, <2>7, <2>8, <2>9 DEF Commit
<1>17. ASSUME SeedBegin PROVE Commit'
  <2> USE <1>17 DEF SeedBegin, Newer, WritesFirst
  <2>1. Held'
    BY SMTT(30)
  <2>2. Present'
    OBVIOUS
  <2>3. Cut'
    OBVIOUS
  <2>4. Intact'
    OBVIOUS
  <2>5. Prepared'
    <3>1. UNCHANGED <<current, versions, goal>> /\ updates' = updates \ {tombstone} /\ tombstone' = 0
      OBVIOUS
    <3>2. pc'["apply"] = pc["apply"]
      OBVIOUS
    <3>3. pc'["installer"] # "begin"
      OBVIOUS
    <3>4. goal > current => goal # 0
      OBVIOUS
    <3> QED BY ONLY <3>1, <3>2, <3>3, <3>4, Prepared DEF Prepared
  <2>6. Assets'
    <3>1. (staged' <=> FALSE) \/ UNCHANGED <<phase, target, staged>>
      BY Zenon
    <3>2. phase # "none" /\ staged => target \in updates' /\ tombstone' # target
      OBVIOUS
    <3> QED BY <3>1, <3>2
  <2>7. Reported'
    OBVIOUS
  <2>8. Counted'
    BY SMTT(30)
  <2>9. Reopens'
    OBVIOUS
  <2> QED BY <2>1, <2>2, <2>3, <2>4, <2>5, <2>6, <2>7, <2>8, <2>9 DEF Commit
<1>18. ASSUME RuntimeStarts PROVE Commit'
  BY <1>18 DEF RuntimeStarts, Commit
<1>19. ASSUME TargetStarts PROVE Commit'
  BY <1>19 DEF TargetStarts, Commit
<1>20. ASSUME TargetGivesUp PROVE Commit'
  BY <1>20 DEF TargetGivesUp, Commit
<1>21. ASSUME Validate PROVE Commit'
  <2> USE <1>21 DEF Validate, MayRun
  <2>1. Held'
    BY SMTT(30)
  <2>2. Present'
    OBVIOUS
  <2>3. Cut'
    OBVIOUS
  <2>4. Intact'
    OBVIOUS
  <2>5. Prepared'
    OBVIOUS
  <2>6. Assets'
    OBVIOUS
  <2>7. Reported'
    OBVIOUS
  <2>8. Counted'
    OBVIOUS
  <2>9. Reopens'
    OBVIOUS
  <2> QED BY <2>1, <2>2, <2>3, <2>4, <2>5, <2>6, <2>7, <2>8, <2>9 DEF Commit
<1>22. ASSUME FinishStartup PROVE Commit'
  <2> USE <1>22 DEF FinishStartup, Completion
  <2>1. Held'
    BY SMTT(30)
  <2>2. Present'
    OBVIOUS
  <2>3. Cut'
    OBVIOUS
  <2>4. Intact'
    OBVIOUS
  <2>5. Prepared'
    OBVIOUS
  <2>6. Assets'
    OBVIOUS
  <2>7. Reported'
    OBVIOUS
  <2>8. Counted'
    OBVIOUS
  <2>9. Reopens'
    OBVIOUS
  <2> QED BY <2>1, <2>2, <2>3, <2>4, <2>5, <2>6, <2>7, <2>8, <2>9 DEF Commit
<1>23. ASSUME Ready PROVE Commit'
  <2> USE <1>23 DEF Ready, TargetReports
  <2>1. Held'
    BY SMTT(30)
  <2>2. Present'
    OBVIOUS
  <2>3. Cut'
    OBVIOUS
  <2>4. Intact'
    OBVIOUS
  <2>5. Prepared'
    OBVIOUS
  <2>6. Assets'
    <3>1. UNCHANGED <<target, staged>> /\ (phase' # "none" => phase # "none")
      OBVIOUS
    <3>2. phase # "none" /\ staged => target \in updates' /\ tombstone' # target
      OBVIOUS
    <3> QED BY <3>1, <3>2
  <2>7. Reported'
    OBVIOUS
  <2>8. Counted'
    OBVIOUS
  <2>9. Reopens'
    OBVIOUS
  <2> QED BY <2>1, <2>2, <2>3, <2>4, <2>5, <2>6, <2>7, <2>8, <2>9 DEF Commit
<1>24. ASSUME Claim PROVE Commit'
  <2> USE <1>24 DEF Claim
  <2>1. Held'
    BY SMTT(30)
  <2>2. Present'
    OBVIOUS
  <2>3. Cut'
    OBVIOUS
  <2>4. Intact'
    OBVIOUS
  <2>5. Prepared'
    OBVIOUS
  <2>6. Assets'
    OBVIOUS
  <2>7. Reported'
    OBVIOUS
  <2>8. Counted'
    OBVIOUS
  <2>9. Reopens'
    OBVIOUS
  <2> QED BY <2>1, <2>2, <2>3, <2>4, <2>5, <2>6, <2>7, <2>8, <2>9 DEF Commit
<1>25. ASSUME Dispatch PROVE Commit'
  BY <1>25 DEF Dispatch, Commit
<1>26. ASSUME Cleanup PROVE Commit'
  BY <1>26 DEF Cleanup, Commit
<1>27. ASSUME CleanupFails PROVE Commit'
  BY <1>27 DEF CleanupFails, Commit
<1>28. ASSUME Clear PROVE Commit'
  BY <1>28 DEF Clear, Commit
<1>29. ASSUME Retire PROVE Commit'
  BY <1>29 DEF Retire, Commit
<1>30. ASSUME Bury PROVE Commit'
  BY <1>30 DEF Bury, Commit
<1>31. ASSUME RuntimeEnds PROVE Commit'
  BY <1>31 DEF RuntimeEnds, Commit
<1>32. ASSUME RuntimeCrashes PROVE Commit'
  BY <1>32 DEF RuntimeCrashes, Commit
<1>33. ASSUME InstallerCrashes PROVE Commit'
  BY <1>33 DEF InstallerCrashes, Commit
<1>34. ASSUME UNCHANGED vars PROVE Commit'
  BY <1>34 DEF vars, Commit
<1> QED BY <1>1, <1>2, <1>3, <1>4, <1>5, <1>6, <1>7, <1>8, <1>9, <1>10, <1>11, <1>12, <1>13,
  <1>14, <1>15, <1>16, <1>17, <1>18, <1>19, <1>20, <1>21, <1>22, <1>23, <1>24, <1>25,
  <1>26, <1>27, <1>28, <1>29, <1>30, <1>31, <1>32, <1>33, <1>34
  DEF Next, ContinueStep, MainStep

LEMMA Invariant == Spec => [](Typed /\ Commit)
BY InitTyped, NextTyped, InitCommit, NextCommit, PTL DEF Spec

\* A crash may fall at any point: current and whatever version the pending commit still needs
\* are complete, a Runtime that serves runs from a complete version, and the staged Desktop
\* asset that every read of the pending commit validates is there.
THEOREM CrashSurvived == Spec => []CrashIsSurvivable
<1>1. Typed /\ Commit => CrashIsSurvivable
  BY DEF Typed, ProcessTyped, Commit, Intact, Assets, CrashIsSurvivable, Started, Running
<1> QED BY <1>1, Invariant, PTL

\* However often a completion is retried, the surface that asked for the update is reopened
\* once at most: the claim is durable before the surface opens.
THEOREM SurfaceReopenedOnce == Spec => []ReopenedOnce
<1>1. Commit => ReopenedOnce
  BY DEF Commit, Reopens, ReopenedOnce
<1> QED BY <1>1, Invariant, PTL

-----------------------------------------------------------------------------
\* The commit as one switch: begin names the goal, the replacement of current reaches it, and
\* the removal of the pending commit ends it. No other write shows.
LEMMA InitSwitches == Init => Switch!Init
BY DEF Init, Switch!Init

Shown == <<current, IF phase = "none" THEN 0 ELSE target>>

LEMMA NextSwitches == Typed /\ Commit /\ [Next]_vars => [Switch!Next]_(Switch!vars)
<1> SUFFICES ASSUME Typed, Commit, [Next]_vars
             PROVE  Switch!Next \/ UNCHANGED Shown
  BY DEF Shown, Switch!vars
<1>h. UNCHANGED <<current, phase, target>> => UNCHANGED Shown
  BY DEF Shown
<1>1. ASSUME NEW a \in Actors, Point(a) PROVE Switch!Next \/ UNCHANGED Shown
  <2>1. /\ phase' = phase /\ phase = "DesktopInstalled"
        /\ target' = target /\ current' = target
    BY <1>1 DEF Point, MaySelect
  <2>2. current < target \/ current = target
    BY <2>1 DEF Typed, PendingTyped, DiskTyped, Commit, Cut
  <2> QED BY <2>1, <2>2, <1>h DEF Switch!Next, Switch!Switch
<1>2. ASSUME NEW a \in Actors, Attest(a) PROVE UNCHANGED Shown
  <2>1. phase = "Staged" /\ phase' \in {"Staged", "DesktopInstalled"}
    BY <1>2 DEF Attest, Commit, Held
  <2>2. UNCHANGED <<current, target>>
    BY <1>2 DEF Attest
  <2> QED BY <2>1, <2>2 DEF Shown
<1>3. ASSUME NEW a \in Actors, Record(a) PROVE UNCHANGED Shown
  BY <1>3 DEF Record, Commit, Held, Shown
<1>4. CASE Ready
  BY <1>4 DEF Ready, Shown
<1>5. CASE Begin
  <2>1. CASE phase = "none" /\ goal > current
    BY <1>5, <2>1 DEF Begin, Newer, WritesFirst, Typed, ReleaseTyped, DiskTyped,
                      Switch!Next, Switch!Begin
  <2>2. CASE ~(phase = "none" /\ goal > current)
    BY <1>5, <2>2, <1>h DEF Begin, Newer
  <2> QED BY <2>1, <2>2
<1>6. CASE SeedBegin
  <2>1. CASE phase = "none" /\ seed > current /\ desktop = seed
    BY <1>6, <2>1 DEF SeedBegin, Newer, WritesFirst, Typed, ReleaseTyped, DiskTyped,
                      Switch!Next, Switch!Begin
  <2>2. CASE ~(phase = "none" /\ seed > current /\ desktop = seed)
    BY <1>6, <2>2, <1>h DEF SeedBegin, Newer
  <2> QED BY <2>1, <2>2
<1>7. CASE Clear
  BY <1>7 DEF Clear, Commit, Cut, Reported, Finishing, Switch!Next, Switch!Finish
<1>8. ASSUME NEW a \in Actors,
             \/ Continue(a) \/ Install(a) \/ InstallFails(a) \/ Reread(a)
             \/ PointRefused(a) \/ Launch(a) \/ LaunchFails(a)
      PROVE  UNCHANGED Shown
  BY <1>8, <1>h DEF Continue, Install, InstallFails, Reread, PointRefused, Launch, LaunchFails
<1>9. ASSUME NEW v \in Versions, Stage(v) \/ InstallerStart(v) PROVE UNCHANGED Shown
  BY <1>9, <1>h DEF Stage, InstallerStart
<1>10. CASE ApplyPending \/ InstallerReplace \/ InstallProduct
  BY <1>10, <1>h DEF ApplyPending, InstallerReplace, InstallProduct
<1>11. CASE Validate \/ FinishStartup \/ Claim \/ Dispatch
  BY <1>11, <1>h DEF Validate, FinishStartup, Claim, Dispatch
<1>12. CASE Cleanup \/ CleanupFails \/ Retire \/ Bury
  BY <1>12, <1>h DEF Cleanup, CleanupFails, Retire, Bury
<1>13. CASE RuntimeStarts \/ TargetStarts \/ TargetGivesUp
  BY <1>13, <1>h DEF RuntimeStarts, TargetStarts, TargetGivesUp
<1>14. CASE RuntimeEnds \/ RuntimeCrashes \/ InstallerCrashes \/ UNCHANGED vars
  BY <1>14, <1>h DEF RuntimeEnds, RuntimeCrashes, InstallerCrashes, vars
<1> QED BY <1>1, <1>2, <1>3, <1>4, <1>5, <1>6, <1>7, <1>8, <1>9, <1>10, <1>11, <1>12, <1>13,
           <1>14 DEF Next, ContinueStep, MainStep

\* An update is one forward switch: however the two installers, the Runtimes and the crashes
\* interleave, the commit implements the atomic ProductSwitch.
THEOREM RefinesSwitch == Spec => ImplementsSwitch
BY Invariant, InitSwitches, NextSwitches, PTL DEF Spec, ImplementsSwitch, Switch!Spec
=============================================================================

----------------------- MODULE ProjectRegistryProofs -----------------------
(***************************************************************************)
(* Proofs about ProjectRegistry, for any number of callers, of callers of  *)
(* close and of roots: what the maps of the registry say of the callers    *)
(* and the sessions at every moment (Shape), that at most one session      *)
(* has a claim on a root (OneClaim), and what the shutdown knows of every  *)
(* session (Accounts).                                                     *)
(*                                                                         *)
(* A claim is only ever made by OpenBegins, which finds the registry open  *)
(* and the root neither live nor closed to admission.  ClaimIsKept says    *)
(* that, while the registry is open, whoever has a claim shows in one of   *)
(* the two maps: the root is then without any claim.  After the shutdown   *)
(* began the maps say less, but no claim is made any more: AccountOf says  *)
(* instead what the caller of close still has to do about each session.    *)
(***************************************************************************)
EXTENDS ProjectRegistry, TLAPS

Before == {"idle", "asked", "wait", "load"}
Preparing == {"load", "refresh", "unwatch", "failed", "ready"}
Using == {"attach", "wedged", "finish", "held"}
Past == Using \cup {"releasing", "settle", "done"}

\* While open_new_project prepares a session its transition closes the root.
OpenerHasRoot ==
  \A c \in Callers : pc[c] \in Preparing => transitions_by_root[root[c]] = <<c, "open">>

\* While release_use cleans a session up its transition closes the root.
ReleaserHasRoot ==
  \A c \in Callers : pc[c] = "releasing" =>
    /\ transitions_by_root[root[c]] = <<c, "release">>
    /\ victim[c] \in Callers

\* The transition of a cleanup closes the root its caller asked for, no other.
TransitionOfRoot ==
  \A r \in Roots : \A c \in Callers : transitions_by_root[r] = <<c, "release">> => root[c] = r

\* A live session is of its root, which no transition closes, and it is
\* published, open, watched and nobody's to close.
LiveSession ==
  \A r \in Roots : \A s \in Callers : sessions_by_root[r] = s =>
    /\ root[s] = r
    /\ transitions_by_root[r] = Nobody
    /\ pc[s] \in Past
    /\ worker[s] \notin {"none", "stopped"}
    /\ closing[s] = "no"
    /\ s \in published
    /\ s \notin session_closed
    /\ s \notin stopping

\* A root has uses exactly while its session is live, and until the shutdown
\* its uses are those of the callers that hold one.
UsesOfSession ==
  /\ \A r \in Roots : (sessions_by_root[r] = Nobody) <=> (uses_by_root[r] = {})
  /\ \A r \in Roots : \A c \in uses_by_root[r] : root[c] = r /\ pc[c] \in Using
  /\ ~closed => \A c \in Callers : pc[c] \in Using => c \in uses_by_root[root[c]]

ClosedIsEmpty == closed => \A r \in Roots : sessions_by_root[r] = Nobody

\* What close has still to close was live, and nobody else closes it.
DrainedIsUntouched ==
  \A s \in drained : closed /\ closing[s] = "no" /\ worker[s] # "none" /\ pc[s] \in Past

\* The watcher of a session that is being prepared.
Watchers ==
  \A c \in Callers :
    /\ pc[c] \in Before => worker[c] = "none"
    /\ pc[c] \in {"refresh", "ready"} => worker[c] # "stopped"
    /\ pc[c] \in Before \cup {"refresh", "ready"} =>
         closing[c] = "no" /\ c \notin session_closed /\ c \notin stopping
    /\ pc[c] \in {"failed", "fails"} => worker[c] \in {"none", "stopped"}
    /\ pc[c] \in {"refresh", "unwatch", "ready", "discard"} => worker[c] # "none"
    /\ closing[c] # "no" => worker[c] # "none"

\* A cleanup that failed keeps its transition in the map.
FailureKept ==
  \A c \in Callers : outcome[<<c, "release">>] = "unclean" =>
    pc[c] = "done" /\ transitions_by_root[root[c]] = <<c, "release">>

Shape ==
  /\ OpenerHasRoot /\ ReleaserHasRoot /\ TransitionOfRoot /\ LiveSession /\ UsesOfSession
  /\ ClosedIsEmpty /\ DrainedIsUntouched /\ Watchers /\ FailureKept

\* The claim of a session on its root begins when its opener has the root.
Claims(s) == pc[s] = "load" \/ Owns(s)

OneClaim == \A s, u \in Callers : Claims(s) /\ Claims(u) /\ root[s] = root[u] => s = u

\* Where the maps show the claim of s.
Kept(s) ==
  \/ sessions_by_root[root[s]] = s
  \/ transitions_by_root[root[s]] = <<s, "open">>
  \/ \E c \in Callers : transitions_by_root[root[s]] = <<c, "release">> /\ victim[c] = s

ClaimIsKept == ~closed => \A s \in Callers : Claims(s) => Kept(s)

-----------------------------------------------------------------------------
\* Every action keeps the types.
LEMMA NextTyped == TypeOK /\ [Next]_vars => TypeOK'
<1> SUFFICES ASSUME TypeOK, [Next]_vars PROVE TypeOK'
  OBVIOUS
<1> USE CallerAssumption, SignalAssumption
    DEF TypeOK, CallerPc, Transitions, Reasons, maps, call, session, watcher, shutdown, others,
        Becomes, Finish
<1>1. ASSUME NEW c \in Callers, Ask(c) PROVE TypeOK'
  BY <1>1 DEF Ask
<1>2. ASSUME NEW c \in Callers, AcquireRefused(c) PROVE TypeOK'
  BY <1>2 DEF AcquireRefused, Free, Refuse
<1>3. ASSUME NEW c \in Callers, Acquire(c) PROVE TypeOK'
  BY <1>3 DEF Acquire, Free, Share
<1>4. ASSUME NEW c \in Callers, ReleaseLeaves(c) PROVE TypeOK'
  BY <1>4 DEF ReleaseLeaves, Free
<1>5. ASSUME NEW c \in Callers, ReleaseLast(c) PROVE TypeOK'
  BY <1>5 DEF ReleaseLast, Free
<1>6. ASSUME NEW c \in Callers, OpenRefused(c) PROVE TypeOK'
  BY <1>6 DEF OpenRefused, Free, Refuse
<1>7. ASSUME NEW c \in Callers, OpenShares(c) PROVE TypeOK'
  BY <1>7 DEF OpenShares, Free, Share
<1>8. ASSUME NEW c \in Callers, OpenWaits(c) PROVE TypeOK'
  BY <1>8 DEF OpenWaits, Free
<1>9. ASSUME NEW c \in Callers, OpenBegins(c) PROVE TypeOK'
  BY <1>9 DEF OpenBegins, Free
<1>10. ASSUME NEW c \in Callers, Waited(c) PROVE TypeOK'
  BY <1>10 DEF Waited
<1>11. ASSUME NEW c \in Callers, LoadFails(c) PROVE TypeOK'
  BY <1>11 DEF LoadFails
<1>12. ASSUME NEW c \in Callers, Load(c) PROVE TypeOK'
  BY <1>12 DEF Load
<1>13. ASSUME NEW c \in Callers, Refreshed(c) PROVE TypeOK'
  BY <1>13 DEF Refreshed
<1>14. ASSUME NEW c \in Callers, RefreshFails(c) PROVE TypeOK'
  BY <1>14 DEF RefreshFails
<1>15. ASSUME NEW c \in Callers, Unwatched(c) PROVE TypeOK'
  BY <1>15 DEF Unwatched
<1>16. ASSUME NEW c \in Callers, OpenFails(c) PROVE TypeOK'
  BY <1>16 DEF OpenFails, Free, LeaveRoot
<1>17. ASSUME NEW c \in Callers, OpenFailed(c) PROVE TypeOK'
  BY <1>17 DEF OpenFailed
<1>18. ASSUME NEW c \in Callers, OpenInstalls(c) PROVE TypeOK'
  BY <1>18 DEF OpenInstalls, Free, LeaveRoot
<1>19. ASSUME NEW c \in Callers, OpenDiscards(c) PROVE TypeOK'
  BY <1>19 DEF OpenDiscards, Free, LeaveRoot
<1>20. ASSUME NEW c \in Callers, Discarded(c) PROVE TypeOK'
  BY <1>20 DEF Discarded, Closed
<1>21. ASSUME NEW c \in Callers, Attach(c) PROVE TypeOK'
  BY <1>21 DEF Attach
<1>22. ASSUME NEW c \in Callers, AttachReports(c) PROVE TypeOK'
  BY <1>22 DEF AttachReports
<1>23. ASSUME NEW c \in Callers, OpenFinishes(c) PROVE TypeOK'
  BY <1>23 DEF OpenFinishes
<1>24. ASSUME NEW c \in Callers, Released(c) PROVE TypeOK'
  BY <1>24 DEF Released, Free, LeaveRoot
<1>25. ASSUME NEW c \in Callers, Settle(c) PROVE TypeOK'
  BY <1>25 DEF Settle
<1>26. ASSUME NEW c \in Callers, ReleaseFails(c) PROVE TypeOK'
  BY <1>26 DEF ReleaseFails
<1>27. ASSUME NEW c \in Callers, CloseMark(c) PROVE TypeOK'
  BY <1>27 DEF CloseMark, Stage
<1>28. ASSUME NEW c \in Callers, ClosePublish(c) PROVE TypeOK'
  BY <1>28 DEF ClosePublish, Stage
<1>29. ASSUME NEW c \in Callers, CloseJoin(c) PROVE TypeOK'
  BY <1>29 DEF CloseJoin, Stage
<1>30. ASSUME NEW c \in Callers, Detach(c) PROVE TypeOK'
  BY <1>30 DEF Detach, Stage
<1>31. ASSUME NEW c \in Callers, DetachFails(c) PROVE TypeOK'
  BY <1>31 DEF DetachFails, Stage
<1>32. ASSUME NEW c \in Callers, Signal(c) PROVE TypeOK'
  BY <1>32 DEF Signal, Works
<1>33. ASSUME NEW c \in Callers, Ignore(c) PROVE TypeOK'
  BY <1>33 DEF Ignore, Works
<1>34. ASSUME NEW c \in Callers, Change(c) PROVE TypeOK'
  BY <1>34 DEF Change, Works
<1>35. ASSUME NEW c \in Callers, Notify(c) PROVE TypeOK'
  BY <1>35 DEF Notify, Free, Works
<1>36. ASSUME NEW c \in Callers, Stop(c) PROVE TypeOK'
  BY <1>36 DEF Stop, Works
<1>37. ASSUME NEW k \in Closers, CloseBegins(k) PROVE TypeOK'
  BY <1>37 DEF CloseBegins, Free, Live, UnderWay
<1>38. ASSUME NEW k \in Closers, CloseFollows(k) PROVE TypeOK'
  BY <1>38 DEF CloseFollows, Free
<1>39. ASSUME NEW k \in Closers, CloseNext(k) PROVE TypeOK'
  BY <1>39 DEF CloseNext
<1>40. ASSUME NEW k \in Closers, CloseOne(k) PROVE TypeOK'
  BY <1>40 DEF CloseOne, Closed
<1>41. ASSUME NEW k \in Closers, CloseSettles(k) PROVE TypeOK'
  BY <1>41 DEF CloseSettles
<1>42. ASSUME NEW k \in Closers, CloseReturns(k) PROVE TypeOK'
  BY <1>42 DEF CloseReturns
<1>43. ASSUME SchedulerStops PROVE TypeOK'
  BY <1>43 DEF SchedulerStops
<1>44. ASSUME UNCHANGED vars PROVE TypeOK'
  BY <1>44 DEF vars
<1> QED BY <1>1, <1>2, <1>3, <1>4, <1>5, <1>6, <1>7, <1>8, <1>9, <1>10, <1>11, <1>12, <1>13,
  <1>14, <1>15, <1>16, <1>17, <1>18, <1>19, <1>20, <1>21, <1>22, <1>23, <1>24, <1>25, <1>26,
  <1>27, <1>28, <1>29, <1>30, <1>31, <1>32, <1>33, <1>34, <1>35, <1>36, <1>37, <1>38, <1>39,
  <1>40, <1>41, <1>42, <1>43, <1>44
  DEF Next, Open, Release, CloseSession, Watch, Close

\* Every variable of ProjectRegistry keeps its type.
THEOREM TypeCorrect == Spec => []TypeOK
<1>1. Init => TypeOK
  <2> SUFFICES ASSUME Init PROVE TypeOK
    OBVIOUS
  <2>1. /\ sessions_by_root \in [Roots -> Callers \cup {Nobody}]
        /\ uses_by_root \in [Roots -> SUBSET Callers]
        /\ transitions_by_root \in [Roots -> Transitions \cup {Nobody}]
        /\ outcome \in [Transitions -> {"none", "pending", "ok", "failed", "unclean"}]
        /\ waits \in [Callers -> Transitions \cup {Nobody}]
    BY DEF Init
  <2>2. pc \in [Callers -> CallerPc] /\ signals \in [Callers -> 0..MaxSignals]
    BY SignalAssumption DEF Init, CallerPc
  <2> QED BY <2>1, <2>2 DEF Init, TypeOK
<1> QED BY <1>1, NextTyped, PTL DEF Spec, Safety

-----------------------------------------------------------------------------
\* A caller never changes the root it asked for, and the registry stays closed.
LEMMA RootIsFixed == [Next]_vars => root' = root /\ (closed => closed')
<1> USE DEF call, others, shutdown
<1>1. ASSUME NEW c \in Callers, Ask(c) PROVE root' = root /\ (closed => closed')
  BY <1>1 DEF Ask
<1>2. ASSUME NEW c \in Callers, AcquireRefused(c) PROVE root' = root /\ (closed => closed')
  BY <1>2 DEF AcquireRefused, Free, Refuse
<1>3. ASSUME NEW c \in Callers, Acquire(c) PROVE root' = root /\ (closed => closed')
  BY <1>3 DEF Acquire, Free, Share
<1>4. ASSUME NEW c \in Callers, ReleaseLeaves(c) PROVE root' = root /\ (closed => closed')
  BY <1>4 DEF ReleaseLeaves, Free
<1>5. ASSUME NEW c \in Callers, ReleaseLast(c) PROVE root' = root /\ (closed => closed')
  BY <1>5 DEF ReleaseLast, Free
<1>6. ASSUME NEW c \in Callers, OpenRefused(c) PROVE root' = root /\ (closed => closed')
  BY <1>6 DEF OpenRefused, Free, Refuse
<1>7. ASSUME NEW c \in Callers, OpenShares(c) PROVE root' = root /\ (closed => closed')
  BY <1>7 DEF OpenShares, Free, Share
<1>8. ASSUME NEW c \in Callers, OpenWaits(c) PROVE root' = root /\ (closed => closed')
  BY <1>8 DEF OpenWaits, Free
<1>9. ASSUME NEW c \in Callers, OpenBegins(c) PROVE root' = root /\ (closed => closed')
  BY <1>9 DEF OpenBegins, Free
<1>10. ASSUME NEW c \in Callers, Waited(c) PROVE root' = root /\ (closed => closed')
  BY <1>10 DEF Waited
<1>11. ASSUME NEW c \in Callers, LoadFails(c) PROVE root' = root /\ (closed => closed')
  BY <1>11 DEF LoadFails
<1>12. ASSUME NEW c \in Callers, Load(c) PROVE root' = root /\ (closed => closed')
  BY <1>12 DEF Load
<1>13. ASSUME NEW c \in Callers, Refreshed(c) PROVE root' = root /\ (closed => closed')
  BY <1>13 DEF Refreshed
<1>14. ASSUME NEW c \in Callers, RefreshFails(c) PROVE root' = root /\ (closed => closed')
  BY <1>14 DEF RefreshFails
<1>15. ASSUME NEW c \in Callers, Unwatched(c) PROVE root' = root /\ (closed => closed')
  BY <1>15 DEF Unwatched
<1>16. ASSUME NEW c \in Callers, OpenFails(c) PROVE root' = root /\ (closed => closed')
  BY <1>16 DEF OpenFails, Free, LeaveRoot
<1>17. ASSUME NEW c \in Callers, OpenFailed(c) PROVE root' = root /\ (closed => closed')
  BY <1>17 DEF OpenFailed
<1>18. ASSUME NEW c \in Callers, OpenInstalls(c) PROVE root' = root /\ (closed => closed')
  BY <1>18 DEF OpenInstalls, Free, LeaveRoot
<1>19. ASSUME NEW c \in Callers, OpenDiscards(c) PROVE root' = root /\ (closed => closed')
  BY <1>19 DEF OpenDiscards, Free, LeaveRoot
<1>20. ASSUME NEW c \in Callers, Discarded(c) PROVE root' = root /\ (closed => closed')
  BY <1>20 DEF Discarded, Closed
<1>21. ASSUME NEW c \in Callers, Attach(c) PROVE root' = root /\ (closed => closed')
  BY <1>21 DEF Attach
<1>22. ASSUME NEW c \in Callers, AttachReports(c) PROVE root' = root /\ (closed => closed')
  BY <1>22 DEF AttachReports
<1>23. ASSUME NEW c \in Callers, OpenFinishes(c) PROVE root' = root /\ (closed => closed')
  BY <1>23 DEF OpenFinishes
<1>24. ASSUME NEW c \in Callers, Released(c) PROVE root' = root /\ (closed => closed')
  BY <1>24 DEF Released, Free, LeaveRoot
<1>25. ASSUME NEW c \in Callers, Settle(c) PROVE root' = root /\ (closed => closed')
  BY <1>25 DEF Settle
<1>26. ASSUME NEW c \in Callers, ReleaseFails(c) PROVE root' = root /\ (closed => closed')
  BY <1>26 DEF ReleaseFails
<1>27. ASSUME NEW c \in Callers, CloseMark(c) PROVE root' = root /\ (closed => closed')
  BY <1>27 DEF CloseMark, Stage
<1>28. ASSUME NEW c \in Callers, ClosePublish(c) PROVE root' = root /\ (closed => closed')
  BY <1>28 DEF ClosePublish, Stage
<1>29. ASSUME NEW c \in Callers, CloseJoin(c) PROVE root' = root /\ (closed => closed')
  BY <1>29 DEF CloseJoin, Stage
<1>30. ASSUME NEW c \in Callers, Detach(c) PROVE root' = root /\ (closed => closed')
  BY <1>30 DEF Detach, Stage
<1>31. ASSUME NEW c \in Callers, DetachFails(c) PROVE root' = root /\ (closed => closed')
  BY <1>31 DEF DetachFails, Stage
<1>32. ASSUME NEW c \in Callers, Signal(c) PROVE root' = root /\ (closed => closed')
  BY <1>32 DEF Signal, Works
<1>33. ASSUME NEW c \in Callers, Ignore(c) PROVE root' = root /\ (closed => closed')
  BY <1>33 DEF Ignore, Works
<1>34. ASSUME NEW c \in Callers, Change(c) PROVE root' = root /\ (closed => closed')
  BY <1>34 DEF Change, Works
<1>35. ASSUME NEW c \in Callers, Notify(c) PROVE root' = root /\ (closed => closed')
  BY <1>35 DEF Notify, Free, Works
<1>36. ASSUME NEW c \in Callers, Stop(c) PROVE root' = root /\ (closed => closed')
  BY <1>36 DEF Stop, Works
<1>37. ASSUME NEW k \in Closers, CloseBegins(k) PROVE root' = root /\ (closed => closed')
  BY <1>37 DEF CloseBegins, Free, Live, UnderWay
<1>38. ASSUME NEW k \in Closers, CloseFollows(k) PROVE root' = root /\ (closed => closed')
  BY <1>38 DEF CloseFollows, Free
<1>39. ASSUME NEW k \in Closers, CloseNext(k) PROVE root' = root /\ (closed => closed')
  BY <1>39 DEF CloseNext
<1>40. ASSUME NEW k \in Closers, CloseOne(k) PROVE root' = root /\ (closed => closed')
  BY <1>40 DEF CloseOne, Closed
<1>41. ASSUME NEW k \in Closers, CloseSettles(k) PROVE root' = root /\ (closed => closed')
  BY <1>41 DEF CloseSettles
<1>42. ASSUME NEW k \in Closers, CloseReturns(k) PROVE root' = root /\ (closed => closed')
  BY <1>42 DEF CloseReturns
<1>43. ASSUME SchedulerStops PROVE root' = root /\ (closed => closed')
  BY <1>43 DEF SchedulerStops
<1>44. ASSUME UNCHANGED vars PROVE root' = root /\ (closed => closed')
  BY <1>44 DEF vars
<1> QED BY <1>1, <1>2, <1>3, <1>4, <1>5, <1>6, <1>7, <1>8, <1>9, <1>10, <1>11, <1>12, <1>13,
  <1>14, <1>15, <1>16, <1>17, <1>18, <1>19, <1>20, <1>21, <1>22, <1>23, <1>24, <1>25, <1>26,
  <1>27, <1>28, <1>29, <1>30, <1>31, <1>32, <1>33, <1>34, <1>35, <1>36, <1>37, <1>38, <1>39,
  <1>40, <1>41, <1>42, <1>43, <1>44
  DEF Next, Open, Release, CloseSession, Watch, Close

\* Every action keeps what the maps say of callers and sessions.
LEMMA NextShape == TypeOK /\ Shape /\ [Next]_vars => Shape'
<1> SUFFICES ASSUME TypeOK, Shape, [Next]_vars PROVE Shape'
  OBVIOUS
<1> USE CallerAssumption, TransitionAssumption
    DEF TypeOK, Transitions, Reasons, maps, call, session, watcher, shutdown, others, Becomes,
        Finish, Before, Preparing, Using, Past, Shape, OpenerHasRoot, ReleaserHasRoot,
        TransitionOfRoot, LiveSession, UsesOfSession, ClosedIsEmpty, DrainedIsUntouched,
        Watchers, FailureKept
<1>1. ASSUME NEW c \in Callers, Ask(c) PROVE Shape'
  BY <1>1 DEF Ask
<1>2. ASSUME NEW c \in Callers, AcquireRefused(c) PROVE Shape'
  BY <1>2 DEF AcquireRefused, Free, Refuse
<1>3. ASSUME NEW c \in Callers, Acquire(c) PROVE Shape'
  BY <1>3 DEF Acquire, Free, Share
<1>4. ASSUME NEW c \in Callers, ReleaseLeaves(c) PROVE Shape'
  BY <1>4 DEF ReleaseLeaves, Free
<1>5. ASSUME NEW c \in Callers, ReleaseLast(c) PROVE Shape'
  <2>1. OpenerHasRoot'
    BY <1>5 DEF ReleaseLast, Free
  <2>2. ReleaserHasRoot'
    BY <1>5 DEF ReleaseLast, Free
  <2>3. TransitionOfRoot'
    BY <1>5 DEF ReleaseLast, Free
  <2>4. LiveSession'
    BY <1>5 DEF ReleaseLast, Free
  <2>5. UsesOfSession'
    BY <1>5 DEF ReleaseLast, Free
  <2>6. ClosedIsEmpty'
    BY <1>5 DEF ReleaseLast, Free
  <2>7. DrainedIsUntouched'
    BY <1>5 DEF ReleaseLast, Free
  <2>8. Watchers'
    BY <1>5 DEF ReleaseLast, Free
  <2>9. FailureKept'
    BY <1>5 DEF ReleaseLast, Free
  <2> QED BY <2>1, <2>2, <2>3, <2>4, <2>5, <2>6, <2>7, <2>8, <2>9
<1>6. ASSUME NEW c \in Callers, OpenRefused(c) PROVE Shape'
  BY <1>6 DEF OpenRefused, Free, Refuse
<1>7. ASSUME NEW c \in Callers, OpenShares(c) PROVE Shape'
  BY <1>7 DEF OpenShares, Free, Share
<1>8. ASSUME NEW c \in Callers, OpenWaits(c) PROVE Shape'
  BY <1>8 DEF OpenWaits, Free
<1>9. ASSUME NEW c \in Callers, OpenBegins(c) PROVE Shape'
  <2>1. OpenerHasRoot'
    BY <1>9 DEF OpenBegins, Free
  <2>2. ReleaserHasRoot'
    BY <1>9 DEF OpenBegins, Free
  <2>3. TransitionOfRoot'
    BY <1>9 DEF OpenBegins, Free
  <2>4. LiveSession'
    BY <1>9 DEF OpenBegins, Free
  <2>5. UsesOfSession'
    BY <1>9 DEF OpenBegins, Free
  <2>6. ClosedIsEmpty'
    BY <1>9 DEF OpenBegins, Free
  <2>7. DrainedIsUntouched'
    BY <1>9 DEF OpenBegins, Free
  <2>8. Watchers'
    BY <1>9 DEF OpenBegins, Free
  <2>9. FailureKept'
    BY <1>9 DEF OpenBegins, Free
  <2> QED BY <2>1, <2>2, <2>3, <2>4, <2>5, <2>6, <2>7, <2>8, <2>9
<1>10. ASSUME NEW c \in Callers, Waited(c) PROVE Shape'
  BY <1>10 DEF Waited
<1>11. ASSUME NEW c \in Callers, LoadFails(c) PROVE Shape'
  BY <1>11 DEF LoadFails
<1>12. ASSUME NEW c \in Callers, Load(c) PROVE Shape'
  BY <1>12 DEF Load
<1>13. ASSUME NEW c \in Callers, Refreshed(c) PROVE Shape'
  BY <1>13 DEF Refreshed
<1>14. ASSUME NEW c \in Callers, RefreshFails(c) PROVE Shape'
  BY <1>14 DEF RefreshFails
<1>15. ASSUME NEW c \in Callers, Unwatched(c) PROVE Shape'
  BY <1>15 DEF Unwatched
<1>16. ASSUME NEW c \in Callers, OpenFails(c) PROVE Shape'
  <2>1. OpenerHasRoot'
    BY <1>16 DEF OpenFails, Free, LeaveRoot
  <2>2. ReleaserHasRoot'
    BY <1>16 DEF OpenFails, Free, LeaveRoot
  <2>3. TransitionOfRoot'
    <3>1. \A r \in Roots : transitions_by_root'[r] =
            IF r = root[c] THEN Nobody ELSE transitions_by_root[r]
      BY <1>16 DEF OpenFails, LeaveRoot
    <3>2. \A u \in Callers : Nobody # <<u, "release">>
      BY TransitionAssumption DEF Transitions, Reasons
    <3>3. \A r \in Roots : \A u \in Callers :
            transitions_by_root'[r] = <<u, "release">> => transitions_by_root[r] = <<u, "release">>
      BY <3>1, <3>2, Zenon
    <3>4. root' = root
      BY RootIsFixed
    <3> QED BY <3>3, <3>4
  <2>4. LiveSession'
    BY <1>16 DEF OpenFails, Free, LeaveRoot
  <2>5. UsesOfSession'
    BY <1>16 DEF OpenFails, Free, LeaveRoot
  <2>6. ClosedIsEmpty'
    BY <1>16 DEF OpenFails, Free, LeaveRoot
  <2>7. DrainedIsUntouched'
    BY <1>16 DEF OpenFails, Free, LeaveRoot
  <2>8. Watchers'
    BY <1>16 DEF OpenFails, Free, LeaveRoot
  <2>9. FailureKept'
    BY <1>16 DEF OpenFails, Free, LeaveRoot
  <2> QED BY <2>1, <2>2, <2>3, <2>4, <2>5, <2>6, <2>7, <2>8, <2>9
<1>17. ASSUME NEW c \in Callers, OpenFailed(c) PROVE Shape'
  BY <1>17 DEF OpenFailed
<1>18. ASSUME NEW c \in Callers, OpenInstalls(c) PROVE Shape'
  <2>1. OpenerHasRoot'
    BY <1>18 DEF OpenInstalls, Free, LeaveRoot
  <2>2. ReleaserHasRoot'
    BY <1>18 DEF OpenInstalls, Free, LeaveRoot
  <2>3. TransitionOfRoot'
    BY <1>18 DEF OpenInstalls, Free, LeaveRoot
  <2>4. LiveSession'
    BY <1>18 DEF OpenInstalls, Free, LeaveRoot
  <2>5. UsesOfSession'
    BY <1>18 DEF OpenInstalls, Free, LeaveRoot
  <2>6. ClosedIsEmpty'
    BY <1>18 DEF OpenInstalls, Free, LeaveRoot
  <2>7. DrainedIsUntouched'
    BY <1>18 DEF OpenInstalls, Free, LeaveRoot
  <2>8. Watchers'
    BY <1>18 DEF OpenInstalls, Free, LeaveRoot
  <2>9. FailureKept'
    BY <1>18 DEF OpenInstalls, Free, LeaveRoot
  <2> QED BY <2>1, <2>2, <2>3, <2>4, <2>5, <2>6, <2>7, <2>8, <2>9
<1>19. ASSUME NEW c \in Callers, OpenDiscards(c) PROVE Shape'
  <2>1. OpenerHasRoot'
    BY <1>19 DEF OpenDiscards, Free, LeaveRoot
  <2>2. ReleaserHasRoot'
    BY <1>19 DEF OpenDiscards, Free, LeaveRoot
  <2>3. TransitionOfRoot'
    BY <1>19, SMTT(30) DEF OpenDiscards, Free, LeaveRoot
  <2>4. LiveSession'
    BY <1>19 DEF OpenDiscards, Free, LeaveRoot
  <2>5. UsesOfSession'
    BY <1>19 DEF OpenDiscards, Free, LeaveRoot
  <2>6. ClosedIsEmpty'
    BY <1>19 DEF OpenDiscards, Free, LeaveRoot
  <2>7. DrainedIsUntouched'
    BY <1>19 DEF OpenDiscards, Free, LeaveRoot
  <2>8. Watchers'
    BY <1>19 DEF OpenDiscards, Free, LeaveRoot
  <2>9. FailureKept'
    BY <1>19 DEF OpenDiscards, Free, LeaveRoot
  <2> QED BY <2>1, <2>2, <2>3, <2>4, <2>5, <2>6, <2>7, <2>8, <2>9
<1>20. ASSUME NEW c \in Callers, Discarded(c) PROVE Shape'
  BY <1>20 DEF Discarded, Closed
<1>21. ASSUME NEW c \in Callers, Attach(c) PROVE Shape'
  BY <1>21 DEF Attach
<1>22. ASSUME NEW c \in Callers, AttachReports(c) PROVE Shape'
  <2>1. OpenerHasRoot'
    BY <1>22 DEF AttachReports
  <2>2. ReleaserHasRoot'
    BY <1>22 DEF AttachReports
  <2>3. TransitionOfRoot'
    BY <1>22 DEF AttachReports
  <2>4. LiveSession'
    BY <1>22 DEF AttachReports
  <2>5. UsesOfSession'
    <3>1. CASE PhotoshopConnected
      BY <1>22, <3>1 DEF AttachReports
    <3>2. CASE ~PhotoshopConnected
      BY <1>22, <3>2 DEF AttachReports
    <3> QED BY <3>1, <3>2
  <2>6. ClosedIsEmpty'
    BY <1>22 DEF AttachReports
  <2>7. DrainedIsUntouched'
    BY <1>22, SMTT(30) DEF AttachReports
  <2>8. Watchers'
    BY <1>22 DEF AttachReports
  <2>9. FailureKept'
    BY <1>22 DEF AttachReports
  <2> QED BY <2>1, <2>2, <2>3, <2>4, <2>5, <2>6, <2>7, <2>8, <2>9
<1>23. ASSUME NEW c \in Callers, OpenFinishes(c) PROVE Shape'
  BY <1>23 DEF OpenFinishes
<1>24. ASSUME NEW c \in Callers, Released(c) PROVE Shape'
  <2>1. OpenerHasRoot'
    BY <1>24 DEF Released, Free, LeaveRoot
  <2>2. ReleaserHasRoot'
    BY <1>24 DEF Released, Free, LeaveRoot
  <2>3. TransitionOfRoot'
    <3>1. \A r \in Roots : transitions_by_root'[r] =
            IF r = root[c] THEN Nobody ELSE transitions_by_root[r]
      BY <1>24 DEF Released, LeaveRoot
    <3>2. \A u \in Callers : Nobody # <<u, "release">>
      BY TransitionAssumption DEF Transitions, Reasons
    <3>3. \A r \in Roots : \A u \in Callers :
            transitions_by_root'[r] = <<u, "release">> => transitions_by_root[r] = <<u, "release">>
      BY <3>1, <3>2, Zenon
    <3>4. root' = root
      BY RootIsFixed
    <3> QED BY <3>3, <3>4
  <2>4. LiveSession'
    BY <1>24 DEF Released, Free, LeaveRoot
  <2>5. UsesOfSession'
    BY <1>24 DEF Released, Free, LeaveRoot
  <2>6. ClosedIsEmpty'
    BY <1>24 DEF Released, Free, LeaveRoot
  <2>7. DrainedIsUntouched'
    BY <1>24 DEF Released, Free, LeaveRoot
  <2>8. Watchers'
    BY <1>24 DEF Released, Free, LeaveRoot
  <2>9. FailureKept'
    BY <1>24 DEF Released, Free, LeaveRoot
  <2> QED BY <2>1, <2>2, <2>3, <2>4, <2>5, <2>6, <2>7, <2>8, <2>9
<1>25. ASSUME NEW c \in Callers, Settle(c) PROVE Shape'
  BY <1>25 DEF Settle
<1>26. ASSUME NEW c \in Callers, ReleaseFails(c) PROVE Shape'
  BY <1>26 DEF ReleaseFails
<1>27. ASSUME NEW c \in Callers, CloseMark(c) PROVE Shape'
  BY <1>27 DEF CloseMark, Stage
<1>28. ASSUME NEW c \in Callers, ClosePublish(c) PROVE Shape'
  BY <1>28 DEF ClosePublish, Stage
<1>29. ASSUME NEW c \in Callers, CloseJoin(c) PROVE Shape'
  BY <1>29 DEF CloseJoin, Stage
<1>30. ASSUME NEW c \in Callers, Detach(c) PROVE Shape'
  BY <1>30 DEF Detach, Stage
<1>31. ASSUME NEW c \in Callers, DetachFails(c) PROVE Shape'
  BY <1>31 DEF DetachFails, Stage
<1>32. ASSUME NEW c \in Callers, Signal(c) PROVE Shape'
  BY <1>32 DEF Signal, Works
<1>33. ASSUME NEW c \in Callers, Ignore(c) PROVE Shape'
  BY <1>33 DEF Ignore, Works
<1>34. ASSUME NEW c \in Callers, Change(c) PROVE Shape'
  BY <1>34 DEF Change, Works
<1>35. ASSUME NEW c \in Callers, Notify(c) PROVE Shape'
  BY <1>35 DEF Notify, Free, Works
<1>36. ASSUME NEW c \in Callers, Stop(c) PROVE Shape'
  BY <1>36 DEF Stop, Works
<1>37. ASSUME NEW k \in Closers, CloseBegins(k) PROVE Shape'
  BY <1>37 DEF CloseBegins, Free, Live, UnderWay
<1>38. ASSUME NEW k \in Closers, CloseFollows(k) PROVE Shape'
  BY <1>38 DEF CloseFollows, Free
<1>39. ASSUME NEW k \in Closers, CloseNext(k) PROVE Shape'
  <2>1. OpenerHasRoot'
    BY <1>39 DEF CloseNext
  <2>2. ReleaserHasRoot'
    BY <1>39 DEF CloseNext
  <2>3. TransitionOfRoot'
    BY <1>39 DEF CloseNext
  <2>4. LiveSession'
    BY <1>39 DEF CloseNext
  <2>5. UsesOfSession'
    BY <1>39 DEF CloseNext
  <2>6. ClosedIsEmpty'
    BY <1>39 DEF CloseNext
  <2>7. DrainedIsUntouched'
    BY <1>39 DEF CloseNext
  <2>8. Watchers'
    <3>1. PICK s \in drained : closing' = [closing EXCEPT ![s] = "mark"]
      BY <1>39 DEF CloseNext
    <3>2. pc[s] \in Past /\ worker[s] # "none"
      OBVIOUS
    <3>3. UNCHANGED <<pc, worker, stopping, session_closed>>
      BY <1>39 DEF CloseNext
    <3> QED BY <3>1, <3>2, <3>3
  <2>9. FailureKept'
    BY <1>39 DEF CloseNext
  <2> QED BY <2>1, <2>2, <2>3, <2>4, <2>5, <2>6, <2>7, <2>8, <2>9
<1>40. ASSUME NEW k \in Closers, CloseOne(k) PROVE Shape'
  BY <1>40 DEF CloseOne, Closed
<1>41. ASSUME NEW k \in Closers, CloseSettles(k) PROVE Shape'
  BY <1>41 DEF CloseSettles
<1>42. ASSUME NEW k \in Closers, CloseReturns(k) PROVE Shape'
  BY <1>42 DEF CloseReturns
<1>43. ASSUME SchedulerStops PROVE Shape'
  BY <1>43 DEF SchedulerStops
<1>44. ASSUME UNCHANGED vars PROVE Shape'
  BY <1>44 DEF vars
<1> QED BY <1>1, <1>2, <1>3, <1>4, <1>5, <1>6, <1>7, <1>8, <1>9, <1>10, <1>11, <1>12, <1>13,
  <1>14, <1>15, <1>16, <1>17, <1>18, <1>19, <1>20, <1>21, <1>22, <1>23, <1>24, <1>25, <1>26,
  <1>27, <1>28, <1>29, <1>30, <1>31, <1>32, <1>33, <1>34, <1>35, <1>36, <1>37, <1>38, <1>39,
  <1>40, <1>41, <1>42, <1>43, <1>44
  DEF Next, Open, Release, CloseSession, Watch, Close

\* The maps and the callers agree at every moment of ProjectRegistry.
LEMMA ShapeHolds == Spec => []Shape
<1>1. Init => Shape
  BY CallerAssumption, TransitionAssumption
  DEF Init, Transitions, Reasons, Before, Preparing, Using, Past, Shape, OpenerHasRoot,
      ReleaserHasRoot, TransitionOfRoot, LiveSession, UsesOfSession, ClosedIsEmpty,
      DrainedIsUntouched, Watchers, FailureKept
<1> QED BY <1>1, NextShape, TypeCorrect, PTL DEF Spec, Safety

\* ListedAreOpen, for every size of the registry: what list gives, under the
\* registry mutex, to the Photoshop projection is published, not closed and
\* still watched, whatever is being opened or cleaned up meanwhile.
THEOREM SessionsListedAreOpen == Spec => []ListedAreOpen
<1>1. TypeOK /\ Shape => ListedAreOpen
  BY DEF TypeOK, Shape, LiveSession, ListedAreOpen, Live
<1> QED BY <1>1, TypeCorrect, ShapeHolds, PTL

\* FailureIsRetained, for every size of the registry: the transition of a
\* cleanup that failed closes its root for good.
THEOREM FailureStays == Spec => []FailureIsRetained
<1>1. Shape => FailureIsRetained
  BY DEF Shape, FailureKept, FailureIsRetained
<1> QED BY <1>1, ShapeHolds, PTL

\* UseKeepsSession, for every size of the registry: no order of opens,
\* acquisitions and releases takes the session from a caller that holds a use.
THEOREM UseIsSafe == Spec => []UseKeepsSession
<1>1. TypeOK /\ Shape => UseKeepsSession
  BY CallerAssumption
  DEF TypeOK, Shape, Using, LiveSession, UsesOfSession, UseKeepsSession
<1> QED BY <1>1, TypeCorrect, ShapeHolds, PTL

-----------------------------------------------------------------------------
\* A claim is made by OpenBegins and by nothing else.
LEMMA ClaimIsMade ==
  ASSUME TypeOK, Shape, [Next]_vars, NEW s \in Callers, Claims(s)'
  PROVE  Claims(s) \/ OpenBegins(s)
<1> USE DEF TypeOK, maps, call, session, watcher, shutdown, others, Becomes, Finish,
            Shape, Watchers, DrainedIsUntouched, ReleaserHasRoot, LiveSession, UsesOfSession,
            Before, Past, Using, Claims, Owns
<1>1. ASSUME NEW c \in Callers, Ask(c) PROVE Claims(s) \/ OpenBegins(s)
  BY <1>1 DEF Ask
<1>2. ASSUME NEW c \in Callers, AcquireRefused(c) PROVE Claims(s) \/ OpenBegins(s)
  BY <1>2 DEF AcquireRefused, Free, Refuse
<1>3. ASSUME NEW c \in Callers, Acquire(c) PROVE Claims(s) \/ OpenBegins(s)
  BY <1>3 DEF Acquire, Free, Share
<1>4. ASSUME NEW c \in Callers, ReleaseLeaves(c) PROVE Claims(s) \/ OpenBegins(s)
  BY <1>4 DEF ReleaseLeaves, Free
<1>5. ASSUME NEW c \in Callers, ReleaseLast(c) PROVE Claims(s) \/ OpenBegins(s)
  BY <1>5 DEF ReleaseLast, Free
<1>6. ASSUME NEW c \in Callers, OpenRefused(c) PROVE Claims(s) \/ OpenBegins(s)
  BY <1>6 DEF OpenRefused, Free, Refuse
<1>7. ASSUME NEW c \in Callers, OpenShares(c) PROVE Claims(s) \/ OpenBegins(s)
  BY <1>7 DEF OpenShares, Free, Share
<1>8. ASSUME NEW c \in Callers, OpenWaits(c) PROVE Claims(s) \/ OpenBegins(s)
  BY <1>8 DEF OpenWaits, Free
<1>9. ASSUME NEW c \in Callers, OpenBegins(c) PROVE Claims(s) \/ OpenBegins(s)
  <2>1. CASE s = c
    BY <1>9, <2>1
  <2>2. CASE s # c
    BY <1>9, <2>2 DEF OpenBegins
  <2> QED BY <2>1, <2>2
<1>10. ASSUME NEW c \in Callers, Waited(c) PROVE Claims(s) \/ OpenBegins(s)
  BY <1>10 DEF Waited
<1>11. ASSUME NEW c \in Callers, LoadFails(c) PROVE Claims(s) \/ OpenBegins(s)
  BY <1>11 DEF LoadFails
<1>12. ASSUME NEW c \in Callers, Load(c) PROVE Claims(s) \/ OpenBegins(s)
  BY <1>12 DEF Load
<1>13. ASSUME NEW c \in Callers, Refreshed(c) PROVE Claims(s) \/ OpenBegins(s)
  BY <1>13 DEF Refreshed
<1>14. ASSUME NEW c \in Callers, RefreshFails(c) PROVE Claims(s) \/ OpenBegins(s)
  BY <1>14 DEF RefreshFails
<1>15. ASSUME NEW c \in Callers, Unwatched(c) PROVE Claims(s) \/ OpenBegins(s)
  BY <1>15 DEF Unwatched
<1>16. ASSUME NEW c \in Callers, OpenFails(c) PROVE Claims(s) \/ OpenBegins(s)
  BY <1>16 DEF OpenFails, Free, LeaveRoot
<1>17. ASSUME NEW c \in Callers, OpenFailed(c) PROVE Claims(s) \/ OpenBegins(s)
  BY <1>17 DEF OpenFailed
<1>18. ASSUME NEW c \in Callers, OpenInstalls(c) PROVE Claims(s) \/ OpenBegins(s)
  BY <1>18 DEF OpenInstalls, Free, LeaveRoot
<1>19. ASSUME NEW c \in Callers, OpenDiscards(c) PROVE Claims(s) \/ OpenBegins(s)
  BY <1>19 DEF OpenDiscards, Free, LeaveRoot
<1>20. ASSUME NEW c \in Callers, Discarded(c) PROVE Claims(s) \/ OpenBegins(s)
  BY <1>20 DEF Discarded, Closed
<1>21. ASSUME NEW c \in Callers, Attach(c) PROVE Claims(s) \/ OpenBegins(s)
  BY <1>21 DEF Attach
<1>22. ASSUME NEW c \in Callers, AttachReports(c) PROVE Claims(s) \/ OpenBegins(s)
  BY <1>22 DEF AttachReports
<1>23. ASSUME NEW c \in Callers, OpenFinishes(c) PROVE Claims(s) \/ OpenBegins(s)
  BY <1>23 DEF OpenFinishes
<1>24. ASSUME NEW c \in Callers, Released(c) PROVE Claims(s) \/ OpenBegins(s)
  BY <1>24 DEF Released, Free, LeaveRoot
<1>25. ASSUME NEW c \in Callers, Settle(c) PROVE Claims(s) \/ OpenBegins(s)
  BY <1>25 DEF Settle
<1>26. ASSUME NEW c \in Callers, ReleaseFails(c) PROVE Claims(s) \/ OpenBegins(s)
  BY <1>26 DEF ReleaseFails
<1>27. ASSUME NEW c \in Callers, CloseMark(c) PROVE Claims(s) \/ OpenBegins(s)
  BY <1>27 DEF CloseMark, Stage
<1>28. ASSUME NEW c \in Callers, ClosePublish(c) PROVE Claims(s) \/ OpenBegins(s)
  BY <1>28 DEF ClosePublish, Stage
<1>29. ASSUME NEW c \in Callers, CloseJoin(c) PROVE Claims(s) \/ OpenBegins(s)
  BY <1>29 DEF CloseJoin, Stage
<1>30. ASSUME NEW c \in Callers, Detach(c) PROVE Claims(s) \/ OpenBegins(s)
  BY <1>30 DEF Detach, Stage
<1>31. ASSUME NEW c \in Callers, DetachFails(c) PROVE Claims(s) \/ OpenBegins(s)
  BY <1>31 DEF DetachFails, Stage
<1>32. ASSUME NEW c \in Callers, Signal(c) PROVE Claims(s) \/ OpenBegins(s)
  BY <1>32 DEF Signal, Works
<1>33. ASSUME NEW c \in Callers, Ignore(c) PROVE Claims(s) \/ OpenBegins(s)
  BY <1>33 DEF Ignore, Works
<1>34. ASSUME NEW c \in Callers, Change(c) PROVE Claims(s) \/ OpenBegins(s)
  BY <1>34 DEF Change, Works
<1>35. ASSUME NEW c \in Callers, Notify(c) PROVE Claims(s) \/ OpenBegins(s)
  BY <1>35 DEF Notify, Free, Works
<1>36. ASSUME NEW c \in Callers, Stop(c) PROVE Claims(s) \/ OpenBegins(s)
  BY <1>36 DEF Stop, Works
<1>37. ASSUME NEW k \in Closers, CloseBegins(k) PROVE Claims(s) \/ OpenBegins(s)
  BY <1>37 DEF CloseBegins, Free, Live, UnderWay
<1>38. ASSUME NEW k \in Closers, CloseFollows(k) PROVE Claims(s) \/ OpenBegins(s)
  BY <1>38 DEF CloseFollows, Free
<1>39. ASSUME NEW k \in Closers, CloseNext(k) PROVE Claims(s) \/ OpenBegins(s)
  BY <1>39 DEF CloseNext
<1>40. ASSUME NEW k \in Closers, CloseOne(k) PROVE Claims(s) \/ OpenBegins(s)
  BY <1>40 DEF CloseOne, Closed
<1>41. ASSUME NEW k \in Closers, CloseSettles(k) PROVE Claims(s) \/ OpenBegins(s)
  BY <1>41 DEF CloseSettles
<1>42. ASSUME NEW k \in Closers, CloseReturns(k) PROVE Claims(s) \/ OpenBegins(s)
  BY <1>42 DEF CloseReturns
<1>43. ASSUME SchedulerStops PROVE Claims(s) \/ OpenBegins(s)
  BY <1>43 DEF SchedulerStops
<1>44. ASSUME UNCHANGED vars PROVE Claims(s) \/ OpenBegins(s)
  BY <1>44 DEF vars
<1> QED BY <1>1, <1>2, <1>3, <1>4, <1>5, <1>6, <1>7, <1>8, <1>9, <1>10, <1>11, <1>12, <1>13,
  <1>14, <1>15, <1>16, <1>17, <1>18, <1>19, <1>20, <1>21, <1>22, <1>23, <1>24, <1>25, <1>26,
  <1>27, <1>28, <1>29, <1>30, <1>31, <1>32, <1>33, <1>34, <1>35, <1>36, <1>37, <1>38, <1>39,
  <1>40, <1>41, <1>42, <1>43, <1>44
  DEF Next, Open, Release, CloseSession, Watch, Close

\* While the registry is open every claim shows in its maps.
LEMMA NextClaimIsKept ==
  TypeOK /\ Shape /\ ClaimIsKept /\ [Next]_vars => ClaimIsKept'
<1> SUFFICES ASSUME TypeOK, Shape, ClaimIsKept, [Next]_vars, ~closed',
                    NEW s \in Callers, Claims(s)'
             PROVE  Kept(s)'
  BY DEF ClaimIsKept
<1>a. Claims(s) => Kept(s)
  BY RootIsFixed DEF ClaimIsKept
<1>b. Claims(s) \/ OpenBegins(s)
  BY ClaimIsMade
<1> USE <1>a, <1>b, CallerAssumption, TransitionAssumption
    DEF TypeOK, Transitions, Reasons, maps, call, session, watcher, shutdown, others, Becomes,
        Finish, Shape, OpenerHasRoot, ReleaserHasRoot, TransitionOfRoot, LiveSession,
        UsesOfSession, Watchers, Before, Preparing, Using, Past, Claims, Owns, Kept
<1>1. ASSUME NEW c \in Callers, Ask(c) PROVE Kept(s)'
  BY <1>1 DEF Ask
<1>2. ASSUME NEW c \in Callers, AcquireRefused(c) PROVE Kept(s)'
  BY <1>2 DEF AcquireRefused, Free, Refuse
<1>3. ASSUME NEW c \in Callers, Acquire(c) PROVE Kept(s)'
  BY <1>3 DEF Acquire, Free, Share
<1>4. ASSUME NEW c \in Callers, ReleaseLeaves(c) PROVE Kept(s)'
  BY <1>4 DEF ReleaseLeaves, Free
<1>5. ASSUME NEW c \in Callers, ReleaseLast(c) PROVE Kept(s)'
  <2>1. Claims(s)
    BY <1>5 DEF ReleaseLast
  <2>2. CASE root[s] = root[c]
    <3>1. sessions_by_root[root[c]] \in Callers /\ transitions_by_root[root[c]] = Nobody
      BY <1>5 DEF ReleaseLast
    <3>2. sessions_by_root[root[c]] = s
      BY <2>1, <2>2, <3>1
    <3>3. transitions_by_root'[root[s]] = <<c, "release">> /\ victim'[c] = s
      BY <1>5, <2>2, <3>2 DEF ReleaseLast
    <3>4. root' = root
      BY RootIsFixed
    <3> QED BY <3>3, <3>4
  <2>3. CASE root[s] # root[c]
    <3>1. /\ root' = root
          /\ sessions_by_root'[root[s]] = sessions_by_root[root[s]]
          /\ transitions_by_root'[root[s]] = transitions_by_root[root[s]]
      BY <1>5, <2>3 DEF ReleaseLast
    <3>2. \A u \in Callers \ {c} : victim'[u] = victim[u]
      BY <1>5 DEF ReleaseLast
    <3>3. transitions_by_root[root[s]] # <<c, "release">>
      BY <2>3
    <3> QED BY <2>1, <3>1, <3>2, <3>3
  <2> QED BY <2>2, <2>3
<1>6. ASSUME NEW c \in Callers, OpenRefused(c) PROVE Kept(s)'
  BY <1>6 DEF OpenRefused, Free, Refuse
<1>7. ASSUME NEW c \in Callers, OpenShares(c) PROVE Kept(s)'
  BY <1>7 DEF OpenShares, Free, Share
<1>8. ASSUME NEW c \in Callers, OpenWaits(c) PROVE Kept(s)'
  BY <1>8 DEF OpenWaits, Free
<1>9. ASSUME NEW c \in Callers, OpenBegins(c) PROVE Kept(s)'
  BY <1>9 DEF OpenBegins, Free
<1>10. ASSUME NEW c \in Callers, Waited(c) PROVE Kept(s)'
  BY <1>10 DEF Waited
<1>11. ASSUME NEW c \in Callers, LoadFails(c) PROVE Kept(s)'
  BY <1>11 DEF LoadFails
<1>12. ASSUME NEW c \in Callers, Load(c) PROVE Kept(s)'
  BY <1>12 DEF Load
<1>13. ASSUME NEW c \in Callers, Refreshed(c) PROVE Kept(s)'
  BY <1>13 DEF Refreshed
<1>14. ASSUME NEW c \in Callers, RefreshFails(c) PROVE Kept(s)'
  BY <1>14 DEF RefreshFails
<1>15. ASSUME NEW c \in Callers, Unwatched(c) PROVE Kept(s)'
  BY <1>15 DEF Unwatched
<1>16. ASSUME NEW c \in Callers, OpenFails(c) PROVE Kept(s)'
  BY <1>16 DEF OpenFails, Free, LeaveRoot
<1>17. ASSUME NEW c \in Callers, OpenFailed(c) PROVE Kept(s)'
  BY <1>17 DEF OpenFailed
<1>18. ASSUME NEW c \in Callers, OpenInstalls(c) PROVE Kept(s)'
  <2>1. Claims(s)
    BY <1>18 DEF OpenInstalls
  <2>2. CASE root[s] = root[c]
    <3>1. transitions_by_root[root[s]] = <<c, "open">>
      BY <1>18, <2>2 DEF OpenInstalls
    <3>2. Nobody # <<c, "open">> /\ (\A u \in Callers : <<u, "release">> # <<c, "open">>)
      BY TransitionAssumption DEF Transitions, Reasons
    <3>3. sessions_by_root[root[s]] = s => transitions_by_root[root[s]] = Nobody
      OBVIOUS
    <3>4. s = c
      <4>1. sessions_by_root[root[s]] # s
        BY <3>1, <3>2, <3>3, Zenon
      <4>2. Kept(s)
        BY <2>1, <1>a, Zenon
      <4>3. transitions_by_root[root[s]] = <<s, "open">>
        BY <3>1, <3>2, <4>1, <4>2, Zenon DEF Kept
      <4> QED BY <3>1, <4>3
    <3> QED BY <1>18, <3>4 DEF OpenInstalls
  <2>3. CASE root[s] # root[c]
    <3>1. /\ root' = root /\ victim' = victim
          /\ sessions_by_root'[root[s]] = sessions_by_root[root[s]]
          /\ transitions_by_root'[root[s]] = transitions_by_root[root[s]]
      BY <1>18, <2>3 DEF OpenInstalls, LeaveRoot
    <3> QED BY <2>1, <3>1
  <2> QED BY <2>2, <2>3
<1>19. ASSUME NEW c \in Callers, OpenDiscards(c) PROVE Kept(s)'
  BY <1>19 DEF OpenDiscards, Free, LeaveRoot
<1>20. ASSUME NEW c \in Callers, Discarded(c) PROVE Kept(s)'
  BY <1>20 DEF Discarded, Closed
<1>21. ASSUME NEW c \in Callers, Attach(c) PROVE Kept(s)'
  BY <1>21 DEF Attach
<1>22. ASSUME NEW c \in Callers, AttachReports(c) PROVE Kept(s)'
  BY <1>22 DEF AttachReports
<1>23. ASSUME NEW c \in Callers, OpenFinishes(c) PROVE Kept(s)'
  BY <1>23 DEF OpenFinishes
<1>24. ASSUME NEW c \in Callers, Released(c) PROVE Kept(s)'
  BY <1>24 DEF Released, Free, LeaveRoot
<1>25. ASSUME NEW c \in Callers, Settle(c) PROVE Kept(s)'
  BY <1>25 DEF Settle
<1>26. ASSUME NEW c \in Callers, ReleaseFails(c) PROVE Kept(s)'
  BY <1>26 DEF ReleaseFails
<1>27. ASSUME NEW c \in Callers, CloseMark(c) PROVE Kept(s)'
  BY <1>27 DEF CloseMark, Stage
<1>28. ASSUME NEW c \in Callers, ClosePublish(c) PROVE Kept(s)'
  BY <1>28 DEF ClosePublish, Stage
<1>29. ASSUME NEW c \in Callers, CloseJoin(c) PROVE Kept(s)'
  BY <1>29 DEF CloseJoin, Stage
<1>30. ASSUME NEW c \in Callers, Detach(c) PROVE Kept(s)'
  BY <1>30 DEF Detach, Stage
<1>31. ASSUME NEW c \in Callers, DetachFails(c) PROVE Kept(s)'
  BY <1>31 DEF DetachFails, Stage
<1>32. ASSUME NEW c \in Callers, Signal(c) PROVE Kept(s)'
  BY <1>32 DEF Signal, Works
<1>33. ASSUME NEW c \in Callers, Ignore(c) PROVE Kept(s)'
  BY <1>33 DEF Ignore, Works
<1>34. ASSUME NEW c \in Callers, Change(c) PROVE Kept(s)'
  BY <1>34 DEF Change, Works
<1>35. ASSUME NEW c \in Callers, Notify(c) PROVE Kept(s)'
  BY <1>35 DEF Notify, Free, Works
<1>36. ASSUME NEW c \in Callers, Stop(c) PROVE Kept(s)'
  BY <1>36 DEF Stop, Works
<1>37. ASSUME NEW k \in Closers, CloseBegins(k) PROVE Kept(s)'
  BY <1>37 DEF CloseBegins, Free, Live, UnderWay
<1>38. ASSUME NEW k \in Closers, CloseFollows(k) PROVE Kept(s)'
  BY <1>38 DEF CloseFollows, Free
<1>39. ASSUME NEW k \in Closers, CloseNext(k) PROVE Kept(s)'
  <2>1. closed
    BY <1>39 DEF CloseNext, DrainedIsUntouched
  <2> QED BY <2>1, RootIsFixed
<1>40. ASSUME NEW k \in Closers, CloseOne(k) PROVE Kept(s)'
  BY <1>40 DEF CloseOne, Closed
<1>41. ASSUME NEW k \in Closers, CloseSettles(k) PROVE Kept(s)'
  BY <1>41 DEF CloseSettles
<1>42. ASSUME NEW k \in Closers, CloseReturns(k) PROVE Kept(s)'
  BY <1>42 DEF CloseReturns
<1>43. ASSUME SchedulerStops PROVE Kept(s)'
  BY <1>43 DEF SchedulerStops
<1>44. ASSUME UNCHANGED vars PROVE Kept(s)'
  BY <1>44 DEF vars
<1> QED BY <1>1, <1>2, <1>3, <1>4, <1>5, <1>6, <1>7, <1>8, <1>9, <1>10, <1>11, <1>12, <1>13,
  <1>14, <1>15, <1>16, <1>17, <1>18, <1>19, <1>20, <1>21, <1>22, <1>23, <1>24, <1>25, <1>26,
  <1>27, <1>28, <1>29, <1>30, <1>31, <1>32, <1>33, <1>34, <1>35, <1>36, <1>37, <1>38, <1>39,
  <1>40, <1>41, <1>42, <1>43, <1>44
  DEF Next, Open, Release, CloseSession, Watch, Close

\* No action lets a second session claim a root.
LEMMA NextOneClaim ==
  TypeOK /\ Shape /\ ClaimIsKept /\ OneClaim /\ [Next]_vars => OneClaim'
<1> SUFFICES ASSUME TypeOK, Shape, ClaimIsKept, OneClaim, [Next]_vars,
                    NEW s \in Callers, NEW u \in Callers,
                    Claims(s)', Claims(u)', root'[s] = root'[u]
             PROVE  s = u
  BY DEF OneClaim
<1>1. root[s] = root[u]
  BY RootIsFixed
<1>2. (Claims(s) \/ OpenBegins(s)) /\ (Claims(u) \/ OpenBegins(u))
  BY ClaimIsMade
<1>3. ASSUME NEW x \in Callers, NEW y \in Callers, OpenBegins(x), Claims(y), root[x] = root[y]
      PROVE  FALSE
  <2>1. ~closed /\ sessions_by_root[root[y]] = Nobody /\ transitions_by_root[root[y]] = Nobody
    BY <1>3 DEF OpenBegins
  <2>2. Nobody # y /\ (\A c \in Callers : Nobody # <<c, "open">> /\ Nobody # <<c, "release">>)
    BY CallerAssumption, TransitionAssumption DEF Transitions, Reasons
  <2> QED BY <1>3, <2>1, <2>2 DEF ClaimIsKept, Kept
<1>4. CASE Claims(s) /\ Claims(u)
  BY <1>1, <1>4 DEF OneClaim
<1>5. CASE OpenBegins(s) /\ OpenBegins(u)
  BY <1>1, <1>5 DEF OpenBegins, TypeOK
<1> QED BY <1>1, <1>2, <1>3, <1>4, <1>5

\* OneSessionPerRoot, for every size of the registry: no interleaving of
\* opens, releases, failed cleanups and the shutdown lets two sessions be
\* opened, be live, be cleaned up or be left uncleaned at one root.
THEOREM SessionOfRootIsUnique == Spec => []OneSessionPerRoot
<1>1. Init => OneClaim /\ ClaimIsKept
  BY DEF Init, OneClaim, ClaimIsKept, Claims, Owns
<1>2. OneClaim => OneSessionPerRoot
  BY DEF OneClaim, OneSessionPerRoot, Claims
<1> QED
  BY <1>1, <1>2, NextOneClaim, NextClaimIsKept, TypeCorrect, ShapeHolds, PTL DEF Spec, Safety

-----------------------------------------------------------------------------
\* Where a cleanup is: the watcher is joined before the session is detached, a
\* caller that was refused left nothing to clean up unless the registry closed
\* on it, and a caller settles its release after the cleanup succeeded.
Cleanups ==
  \A c \in Callers :
    /\ closing[c] \in {"detach", "ok", "failed"} => worker[c] = "stopped"
    /\ pc[c] \in {"unwatch", "failed", "fails"} => closing[c] = "no"
    /\ pc[c] = "discard" => closed
    /\ pc[c] = "refused" /\ closing[c] # "no" => closed /\ Closed(c)
    /\ pc[c] = "settle" => victim[c] \in Callers /\ closing[victim[c]] = "ok"

\* Only the opener that discarded its session settles its transition as unclean.
OpenUnclean == \A c \in Callers : outcome[<<c, "open">>] = "unclean" => pc[c] = "refused"

\* A transition that is in the map is under way, or its cleanup failed.
OpeningUnderWay ==
  \A r \in Roots, c \in Callers : transitions_by_root[r] = <<c, "open">> =>
    root[c] = r /\ pc[c] \in Preparing /\ outcome[<<c, "open">>] = "pending"
CleaningUnderWay ==
  \A r \in Roots, c \in Callers : transitions_by_root[r] = <<c, "release">> =>
    pc[c] \in {"releasing", "done"} /\ outcome[<<c, "release">>] \in {"pending", "unclean"}

\* One caller of close does the work, after it closed the registry; an opener it
\* waits for never makes its session live.
OneCloser ==
  /\ \A k \in Closers : close_pc[k] \in {"drain", "close"} =>
       closed /\ \A m \in Closers : close_pc[m] \in {"drain", "close"} => m = k
  /\ ~closed => close_transition = "none"
AwaitedOpeners ==
  closed => \A c \in Callers : <<c, "open">> \in awaited =>
    pc[c] \in Preparing \cup {"fails", "discard", "refused"}

Order ==
  /\ Cleanups /\ OpenUnclean /\ OpeningUnderWay /\ CleaningUnderWay /\ OneCloser
  /\ AwaitedOpeners

\* Nothing of the session of s is left behind, and nothing will be.
Over(s) ==
  /\ pc[s] # "load"
  /\ worker[s] \in {"none", "stopped"}
  /\ worker[s] = "stopped" =>
       closing[s] = "ok" \/ (closing[s] = "no" /\ pc[s] \in {"failed", "fails", "refused"})

\* close waits for the transition, or has to report it.
Awaits(t) == t \in awaited /\ outcome[t] \in {"pending", "unclean"}

\* What the caller of close knows of the session of s: it has still to close it,
\* is closing it, has seen its cleanup fail, or awaits the transition that opens
\* it or cleans it up.
AccountOf(s) ==
  \/ Over(s)
  \/ s \in drained
  \/ current = s /\ \E k \in Closers : close_pc[k] = "close"
  \/ closing[s] = "failed" /\ failure
  \/ Awaits(<<s, "open">>)
  \/ \E c \in Callers : victim[c] = s /\ Awaits(<<c, "release">>)

Accounts ==
  /\ closed => \A s \in Callers : AccountOf(s)
  /\ close_transition = "ok" => \A s \in Callers : Over(s)

LEMMA InitBooks == Init => Order /\ Accounts
<1> SUFFICES ASSUME Init PROVE Order /\ Accounts
  OBVIOUS
<1> USE DEF Init
<1>1. Cleanups /\ OneCloser
  BY DEF Cleanups, OneCloser
<1>2. OpenUnclean /\ AwaitedOpeners
  BY DEF OpenUnclean, AwaitedOpeners, Transitions, Reasons
<1>3. OpeningUnderWay /\ CleaningUnderWay
  BY TransitionAssumption DEF OpeningUnderWay, CleaningUnderWay, Transitions, Reasons
<1>4. Accounts
  BY DEF Accounts
<1> QED BY <1>1, <1>2, <1>3, <1>4 DEF Order

\* A caller that leaves its root clears its transition, and no other.
LEMMA LeaveRootClears ==
  ASSUME TypeOK, NEW c \in Callers, LeaveRoot(c)
  PROVE  \A r \in Roots, u \in Callers, why \in Reasons : transitions_by_root'[r] = <<u, why>> =>
           r # root[c] /\ transitions_by_root[r] = <<u, why>>
<1>1. \A u \in Callers, why \in Reasons : <<u, why>> # Nobody
  BY TransitionAssumption DEF Transitions
<1>2. \A r \in Roots : transitions_by_root'[r] = IF r = root[c] THEN Nobody
                                                 ELSE transitions_by_root[r]
  BY DEF LeaveRoot, TypeOK
<1> QED BY <1>1, <1>2

LEMMA NextCleanups ==
  ASSUME TypeOK, ReleaserHasRoot, LiveSession, DrainedIsUntouched, Watchers, Cleanups, [Next]_vars
  PROVE  Cleanups'
<1> USE CallerAssumption, TransitionAssumption
    DEF TypeOK, Transitions, Reasons, maps, call, session, watcher, shutdown, others, Becomes,
        Finish, Before, Preparing, Using, Past,
        ReleaserHasRoot, LiveSession, DrainedIsUntouched, Watchers, Cleanups, Closed
<1>1. ASSUME NEW c \in Callers, Ask(c) PROVE Cleanups'
  BY <1>1 DEF Ask
<1>2. ASSUME NEW c \in Callers, AcquireRefused(c) PROVE Cleanups'
  BY <1>2 DEF AcquireRefused, Free, Refuse
<1>3. ASSUME NEW c \in Callers, Acquire(c) PROVE Cleanups'
  BY <1>3 DEF Acquire, Free, Share
<1>4. ASSUME NEW c \in Callers, ReleaseLeaves(c) PROVE Cleanups'
  BY <1>4 DEF ReleaseLeaves, Free
<1>5. ASSUME NEW c \in Callers, ReleaseLast(c) PROVE Cleanups'
  <2>1. PICK s : s = sessions_by_root[root[c]]
    OBVIOUS
  <2>2. CASE s \in Callers
    <3>1. closing[s] = "no" /\ pc[s] \in Past /\ worker[s] \notin {"none", "stopped"}
      BY <2>1, <2>2
    <3> QED BY <1>5, <2>1, <2>2, <3>1 DEF ReleaseLast
  <2>3. CASE s \notin Callers
    BY <1>5, <2>1, <2>3 DEF ReleaseLast
  <2> QED BY <2>2, <2>3
<1>6. ASSUME NEW c \in Callers, OpenRefused(c) PROVE Cleanups'
  BY <1>6 DEF OpenRefused, Free, Refuse
<1>7. ASSUME NEW c \in Callers, OpenShares(c) PROVE Cleanups'
  BY <1>7 DEF OpenShares, Free, Share
<1>8. ASSUME NEW c \in Callers, OpenWaits(c) PROVE Cleanups'
  BY <1>8 DEF OpenWaits, Free
<1>9. ASSUME NEW c \in Callers, OpenBegins(c) PROVE Cleanups'
  BY <1>9 DEF OpenBegins, Free
<1>10. ASSUME NEW c \in Callers, Waited(c) PROVE Cleanups'
  BY <1>10 DEF Waited
<1>11. ASSUME NEW c \in Callers, LoadFails(c) PROVE Cleanups'
  BY <1>11 DEF LoadFails
<1>12. ASSUME NEW c \in Callers, Load(c) PROVE Cleanups'
  BY <1>12 DEF Load
<1>13. ASSUME NEW c \in Callers, Refreshed(c) PROVE Cleanups'
  BY <1>13 DEF Refreshed
<1>14. ASSUME NEW c \in Callers, RefreshFails(c) PROVE Cleanups'
  BY <1>14 DEF RefreshFails
<1>15. ASSUME NEW c \in Callers, Unwatched(c) PROVE Cleanups'
  BY <1>15 DEF Unwatched
<1>16. ASSUME NEW c \in Callers, OpenFails(c) PROVE Cleanups'
  BY <1>16 DEF OpenFails, Free, LeaveRoot
<1>17. ASSUME NEW c \in Callers, OpenFailed(c) PROVE Cleanups'
  BY <1>17 DEF OpenFailed
<1>18. ASSUME NEW c \in Callers, OpenInstalls(c) PROVE Cleanups'
  BY <1>18 DEF OpenInstalls, Free, LeaveRoot
<1>19. ASSUME NEW c \in Callers, OpenDiscards(c) PROVE Cleanups'
  BY <1>19 DEF OpenDiscards, Free, LeaveRoot
<1>20. ASSUME NEW c \in Callers, Discarded(c) PROVE Cleanups'
  BY <1>20 DEF Discarded, Closed
<1>21. ASSUME NEW c \in Callers, Attach(c) PROVE Cleanups'
  BY <1>21 DEF Attach
<1>22. ASSUME NEW c \in Callers, AttachReports(c) PROVE Cleanups'
  BY <1>22 DEF AttachReports
<1>23. ASSUME NEW c \in Callers, OpenFinishes(c) PROVE Cleanups'
  BY <1>23 DEF OpenFinishes
<1>24. ASSUME NEW c \in Callers, Released(c) PROVE Cleanups'
  <2>1. PICK s \in Callers : s = victim[c] /\ closing[s] = "ok"
    BY <1>24 DEF Released
  <2> QED BY <1>24, <2>1 DEF Released
<1>25. ASSUME NEW c \in Callers, Settle(c) PROVE Cleanups'
  BY <1>25 DEF Settle
<1>26. ASSUME NEW c \in Callers, ReleaseFails(c) PROVE Cleanups'
  BY <1>26 DEF ReleaseFails
<1>27. ASSUME NEW c \in Callers, CloseMark(c) PROVE Cleanups'
  BY <1>27 DEF CloseMark, Stage
<1>28. ASSUME NEW c \in Callers, ClosePublish(c) PROVE Cleanups'
  BY <1>28 DEF ClosePublish, Stage
<1>29. ASSUME NEW c \in Callers, CloseJoin(c) PROVE Cleanups'
  BY <1>29 DEF CloseJoin, Stage
<1>30. ASSUME NEW c \in Callers, Detach(c) PROVE Cleanups'
  BY <1>30 DEF Detach, Stage
<1>31. ASSUME NEW c \in Callers, DetachFails(c) PROVE Cleanups'
  BY <1>31 DEF DetachFails, Stage
<1>32. ASSUME NEW c \in Callers, Signal(c) PROVE Cleanups'
  BY <1>32 DEF Signal, Works
<1>33. ASSUME NEW c \in Callers, Ignore(c) PROVE Cleanups'
  BY <1>33 DEF Ignore, Works
<1>34. ASSUME NEW c \in Callers, Change(c) PROVE Cleanups'
  BY <1>34 DEF Change, Works
<1>35. ASSUME NEW c \in Callers, Notify(c) PROVE Cleanups'
  BY <1>35 DEF Notify, Free, Works
<1>36. ASSUME NEW c \in Callers, Stop(c) PROVE Cleanups'
  BY <1>36 DEF Stop, Works
<1>37. ASSUME NEW k \in Closers, CloseBegins(k) PROVE Cleanups'
  BY <1>37 DEF CloseBegins, Free, Live, UnderWay
<1>38. ASSUME NEW k \in Closers, CloseFollows(k) PROVE Cleanups'
  BY <1>38 DEF CloseFollows, Free
<1>39. ASSUME NEW k \in Closers, CloseNext(k) PROVE Cleanups'
  BY <1>39 DEF CloseNext
<1>40. ASSUME NEW k \in Closers, CloseOne(k) PROVE Cleanups'
  BY <1>40 DEF CloseOne, Closed
<1>41. ASSUME NEW k \in Closers, CloseSettles(k) PROVE Cleanups'
  BY <1>41 DEF CloseSettles
<1>42. ASSUME NEW k \in Closers, CloseReturns(k) PROVE Cleanups'
  BY <1>42 DEF CloseReturns
<1>43. ASSUME SchedulerStops PROVE Cleanups'
  BY <1>43 DEF SchedulerStops
<1>44. ASSUME UNCHANGED vars PROVE Cleanups'
  BY <1>44 DEF vars
<1> HIDE DEF Cleanups
<1> QED BY <1>1, <1>2, <1>3, <1>4, <1>5, <1>6, <1>7, <1>8, <1>9, <1>10, <1>11, <1>12, <1>13,
  <1>14, <1>15, <1>16, <1>17, <1>18, <1>19, <1>20, <1>21, <1>22, <1>23, <1>24, <1>25, <1>26,
  <1>27, <1>28, <1>29, <1>30, <1>31, <1>32, <1>33, <1>34, <1>35, <1>36, <1>37, <1>38, <1>39,
  <1>40, <1>41, <1>42, <1>43, <1>44
  DEF Next, Open, Release, CloseSession, Watch, Close

LEMMA NextOpenUnclean ==
  ASSUME TypeOK, OpenUnclean, [Next]_vars
  PROVE  OpenUnclean'
<1> USE CallerAssumption, TransitionAssumption
    DEF TypeOK, Transitions, Reasons, maps, call, session, watcher, shutdown, others, Becomes,
        Finish, Before, Preparing, Using, Past,
        OpenUnclean
<1>1. ASSUME NEW c \in Callers, Ask(c) PROVE OpenUnclean'
  BY <1>1 DEF Ask
<1>2. ASSUME NEW c \in Callers, AcquireRefused(c) PROVE OpenUnclean'
  BY <1>2 DEF AcquireRefused, Free, Refuse
<1>3. ASSUME NEW c \in Callers, Acquire(c) PROVE OpenUnclean'
  BY <1>3 DEF Acquire, Free, Share
<1>4. ASSUME NEW c \in Callers, ReleaseLeaves(c) PROVE OpenUnclean'
  BY <1>4 DEF ReleaseLeaves, Free
<1>5. ASSUME NEW c \in Callers, ReleaseLast(c) PROVE OpenUnclean'
  BY <1>5 DEF ReleaseLast, Free
<1>6. ASSUME NEW c \in Callers, OpenRefused(c) PROVE OpenUnclean'
  BY <1>6 DEF OpenRefused, Free, Refuse
<1>7. ASSUME NEW c \in Callers, OpenShares(c) PROVE OpenUnclean'
  BY <1>7 DEF OpenShares, Free, Share
<1>8. ASSUME NEW c \in Callers, OpenWaits(c) PROVE OpenUnclean'
  BY <1>8 DEF OpenWaits, Free
<1>9. ASSUME NEW c \in Callers, OpenBegins(c) PROVE OpenUnclean'
  BY <1>9 DEF OpenBegins, Free
<1>10. ASSUME NEW c \in Callers, Waited(c) PROVE OpenUnclean'
  BY <1>10 DEF Waited
<1>11. ASSUME NEW c \in Callers, LoadFails(c) PROVE OpenUnclean'
  BY <1>11 DEF LoadFails
<1>12. ASSUME NEW c \in Callers, Load(c) PROVE OpenUnclean'
  BY <1>12 DEF Load
<1>13. ASSUME NEW c \in Callers, Refreshed(c) PROVE OpenUnclean'
  BY <1>13 DEF Refreshed
<1>14. ASSUME NEW c \in Callers, RefreshFails(c) PROVE OpenUnclean'
  BY <1>14 DEF RefreshFails
<1>15. ASSUME NEW c \in Callers, Unwatched(c) PROVE OpenUnclean'
  BY <1>15 DEF Unwatched
<1>16. ASSUME NEW c \in Callers, OpenFails(c) PROVE OpenUnclean'
  BY <1>16 DEF OpenFails, Free, LeaveRoot
<1>17. ASSUME NEW c \in Callers, OpenFailed(c) PROVE OpenUnclean'
  BY <1>17 DEF OpenFailed
<1>18. ASSUME NEW c \in Callers, OpenInstalls(c) PROVE OpenUnclean'
  BY <1>18 DEF OpenInstalls, Free, LeaveRoot
<1>19. ASSUME NEW c \in Callers, OpenDiscards(c) PROVE OpenUnclean'
  BY <1>19 DEF OpenDiscards, Free, LeaveRoot
<1>20. ASSUME NEW c \in Callers, Discarded(c) PROVE OpenUnclean'
  BY <1>20 DEF Discarded, Closed
<1>21. ASSUME NEW c \in Callers, Attach(c) PROVE OpenUnclean'
  BY <1>21 DEF Attach
<1>22. ASSUME NEW c \in Callers, AttachReports(c) PROVE OpenUnclean'
  BY <1>22 DEF AttachReports
<1>23. ASSUME NEW c \in Callers, OpenFinishes(c) PROVE OpenUnclean'
  BY <1>23 DEF OpenFinishes
<1>24. ASSUME NEW c \in Callers, Released(c) PROVE OpenUnclean'
  BY <1>24 DEF Released, Free, LeaveRoot
<1>25. ASSUME NEW c \in Callers, Settle(c) PROVE OpenUnclean'
  BY <1>25 DEF Settle
<1>26. ASSUME NEW c \in Callers, ReleaseFails(c) PROVE OpenUnclean'
  BY <1>26 DEF ReleaseFails
<1>27. ASSUME NEW c \in Callers, CloseMark(c) PROVE OpenUnclean'
  BY <1>27 DEF CloseMark, Stage
<1>28. ASSUME NEW c \in Callers, ClosePublish(c) PROVE OpenUnclean'
  BY <1>28 DEF ClosePublish, Stage
<1>29. ASSUME NEW c \in Callers, CloseJoin(c) PROVE OpenUnclean'
  BY <1>29 DEF CloseJoin, Stage
<1>30. ASSUME NEW c \in Callers, Detach(c) PROVE OpenUnclean'
  BY <1>30 DEF Detach, Stage
<1>31. ASSUME NEW c \in Callers, DetachFails(c) PROVE OpenUnclean'
  BY <1>31 DEF DetachFails, Stage
<1>32. ASSUME NEW c \in Callers, Signal(c) PROVE OpenUnclean'
  BY <1>32 DEF Signal, Works
<1>33. ASSUME NEW c \in Callers, Ignore(c) PROVE OpenUnclean'
  BY <1>33 DEF Ignore, Works
<1>34. ASSUME NEW c \in Callers, Change(c) PROVE OpenUnclean'
  BY <1>34 DEF Change, Works
<1>35. ASSUME NEW c \in Callers, Notify(c) PROVE OpenUnclean'
  BY <1>35 DEF Notify, Free, Works
<1>36. ASSUME NEW c \in Callers, Stop(c) PROVE OpenUnclean'
  BY <1>36 DEF Stop, Works
<1>37. ASSUME NEW k \in Closers, CloseBegins(k) PROVE OpenUnclean'
  BY <1>37 DEF CloseBegins, Free, Live, UnderWay
<1>38. ASSUME NEW k \in Closers, CloseFollows(k) PROVE OpenUnclean'
  BY <1>38 DEF CloseFollows, Free
<1>39. ASSUME NEW k \in Closers, CloseNext(k) PROVE OpenUnclean'
  BY <1>39 DEF CloseNext
<1>40. ASSUME NEW k \in Closers, CloseOne(k) PROVE OpenUnclean'
  BY <1>40 DEF CloseOne, Closed
<1>41. ASSUME NEW k \in Closers, CloseSettles(k) PROVE OpenUnclean'
  BY <1>41 DEF CloseSettles
<1>42. ASSUME NEW k \in Closers, CloseReturns(k) PROVE OpenUnclean'
  BY <1>42 DEF CloseReturns
<1>43. ASSUME SchedulerStops PROVE OpenUnclean'
  BY <1>43 DEF SchedulerStops
<1>44. ASSUME UNCHANGED vars PROVE OpenUnclean'
  BY <1>44 DEF vars
<1> HIDE DEF OpenUnclean
<1> QED BY <1>1, <1>2, <1>3, <1>4, <1>5, <1>6, <1>7, <1>8, <1>9, <1>10, <1>11, <1>12, <1>13,
  <1>14, <1>15, <1>16, <1>17, <1>18, <1>19, <1>20, <1>21, <1>22, <1>23, <1>24, <1>25, <1>26,
  <1>27, <1>28, <1>29, <1>30, <1>31, <1>32, <1>33, <1>34, <1>35, <1>36, <1>37, <1>38, <1>39,
  <1>40, <1>41, <1>42, <1>43, <1>44
  DEF Next, Open, Release, CloseSession, Watch, Close

LEMMA NextOpening ==
  ASSUME TypeOK, OpeningUnderWay, [Next]_vars
  PROVE  OpeningUnderWay'
<1> USE CallerAssumption, TransitionAssumption
    DEF TypeOK, Transitions, Reasons, maps, call, session, watcher, shutdown, others, Becomes,
        Finish, Before, Preparing, Using, Past,
        OpeningUnderWay
<1>1. ASSUME NEW c \in Callers, Ask(c) PROVE OpeningUnderWay'
  BY <1>1 DEF Ask
<1>2. ASSUME NEW c \in Callers, AcquireRefused(c) PROVE OpeningUnderWay'
  BY <1>2 DEF AcquireRefused, Free, Refuse
<1>3. ASSUME NEW c \in Callers, Acquire(c) PROVE OpeningUnderWay'
  BY <1>3 DEF Acquire, Free, Share
<1>4. ASSUME NEW c \in Callers, ReleaseLeaves(c) PROVE OpeningUnderWay'
  BY <1>4 DEF ReleaseLeaves, Free
<1>5. ASSUME NEW c \in Callers, ReleaseLast(c) PROVE OpeningUnderWay'
  BY <1>5 DEF ReleaseLast, Free
<1>6. ASSUME NEW c \in Callers, OpenRefused(c) PROVE OpeningUnderWay'
  BY <1>6 DEF OpenRefused, Free, Refuse
<1>7. ASSUME NEW c \in Callers, OpenShares(c) PROVE OpeningUnderWay'
  BY <1>7 DEF OpenShares, Free, Share
<1>8. ASSUME NEW c \in Callers, OpenWaits(c) PROVE OpeningUnderWay'
  BY <1>8 DEF OpenWaits, Free
<1>9. ASSUME NEW c \in Callers, OpenBegins(c) PROVE OpeningUnderWay'
  <2>1. /\ transitions_by_root' = [transitions_by_root EXCEPT ![root[c]] = <<c, "open">>]
        /\ outcome' = [outcome EXCEPT ![<<c, "open">>] = "pending"]
        /\ pc' = [pc EXCEPT ![c] = "load"] /\ pc[c] = "asked" /\ root' = root
    BY <1>9 DEF OpenBegins
  <2>2. \A r \in Roots : transitions_by_root[r] # <<c, "open">>
    BY <2>1
  <2> SUFFICES ASSUME NEW r \in Roots, NEW u \in Callers, transitions_by_root'[r] = <<u, "open">>
               PROVE  root'[u] = r /\ pc'[u] \in Preparing /\ outcome'[<<u, "open">>] = "pending"
    OBVIOUS
  <2>3. CASE u = c
    <3>1. r = root[c]
      BY <2>1, <2>2, <2>3
    <3> QED BY <2>1, <2>3, <3>1
  <2>4. CASE u # c
    <3>1. transitions_by_root[r] = <<u, "open">>
      BY <2>1, <2>4
    <3>2. root[u] = r /\ pc[u] \in Preparing /\ outcome[<<u, "open">>] = "pending"
      BY <3>1
    <3> QED BY <2>1, <2>4, <3>2
  <2> QED BY <2>3, <2>4
<1>10. ASSUME NEW c \in Callers, Waited(c) PROVE OpeningUnderWay'
  BY <1>10 DEF Waited
<1>11. ASSUME NEW c \in Callers, LoadFails(c) PROVE OpeningUnderWay'
  BY <1>11 DEF LoadFails
<1>12. ASSUME NEW c \in Callers, Load(c) PROVE OpeningUnderWay'
  BY <1>12 DEF Load
<1>13. ASSUME NEW c \in Callers, Refreshed(c) PROVE OpeningUnderWay'
  BY <1>13 DEF Refreshed
<1>14. ASSUME NEW c \in Callers, RefreshFails(c) PROVE OpeningUnderWay'
  BY <1>14 DEF RefreshFails
<1>15. ASSUME NEW c \in Callers, Unwatched(c) PROVE OpeningUnderWay'
  BY <1>15 DEF Unwatched
<1>16. ASSUME NEW c \in Callers, OpenFails(c) PROVE OpeningUnderWay'
  <2>1. \A r \in Roots, u \in Callers : transitions_by_root'[r] = <<u, "open">> =>
          r # root[c] /\ transitions_by_root[r] = <<u, "open">>
    BY <1>16, LeaveRootClears DEF OpenFails
  <2>2. ASSUME NEW r \in Roots, NEW u \in Callers, transitions_by_root'[r] = <<u, "open">>
        PROVE  u # c /\ transitions_by_root[r] = <<u, "open">>
    <3>1. r # root[c] /\ transitions_by_root[r] = <<u, "open">>
      BY <2>1, <2>2
    <3>2. root[u] = r
      BY <3>1
    <3> QED BY <3>1, <3>2
  <2>3. pc' = [pc EXCEPT ![c] = "fails"] /\ outcome' = outcome /\ root' = root
    BY <1>16 DEF OpenFails
  <2> QED BY <2>2, <2>3
<1>17. ASSUME NEW c \in Callers, OpenFailed(c) PROVE OpeningUnderWay'
  BY <1>17 DEF OpenFailed
<1>18. ASSUME NEW c \in Callers, OpenInstalls(c) PROVE OpeningUnderWay'
  <2>1. \A r \in Roots, u \in Callers : transitions_by_root'[r] = <<u, "open">> =>
          r # root[c] /\ transitions_by_root[r] = <<u, "open">>
    BY <1>18, LeaveRootClears DEF OpenInstalls
  <2>2. ASSUME NEW r \in Roots, NEW u \in Callers, transitions_by_root'[r] = <<u, "open">>
        PROVE  u # c /\ transitions_by_root[r] = <<u, "open">>
    <3>1. r # root[c] /\ transitions_by_root[r] = <<u, "open">>
      BY <2>1, <2>2
    <3>2. root[u] = r
      BY <3>1
    <3> QED BY <3>1, <3>2
  <2>3. pc' = [pc EXCEPT ![c] = "attach"] /\ outcome' = outcome /\ root' = root
    BY <1>18 DEF OpenInstalls
  <2> QED BY <2>2, <2>3
<1>19. ASSUME NEW c \in Callers, OpenDiscards(c) PROVE OpeningUnderWay'
  <2>1. \A r \in Roots, u \in Callers : transitions_by_root'[r] = <<u, "open">> =>
          r # root[c] /\ transitions_by_root[r] = <<u, "open">>
    BY <1>19, LeaveRootClears DEF OpenDiscards
  <2>2. ASSUME NEW r \in Roots, NEW u \in Callers, transitions_by_root'[r] = <<u, "open">>
        PROVE  u # c /\ transitions_by_root[r] = <<u, "open">>
    <3>1. r # root[c] /\ transitions_by_root[r] = <<u, "open">>
      BY <2>1, <2>2
    <3>2. root[u] = r
      BY <3>1
    <3> QED BY <3>1, <3>2
  <2>3. pc' = [pc EXCEPT ![c] = "discard"] /\ outcome' = outcome /\ root' = root
    BY <1>19 DEF OpenDiscards
  <2> QED BY <2>2, <2>3
<1>20. ASSUME NEW c \in Callers, Discarded(c) PROVE OpeningUnderWay'
  BY <1>20 DEF Discarded, Closed
<1>21. ASSUME NEW c \in Callers, Attach(c) PROVE OpeningUnderWay'
  BY <1>21 DEF Attach
<1>22. ASSUME NEW c \in Callers, AttachReports(c) PROVE OpeningUnderWay'
  <2>1. /\ pc[c] = "attach" /\ UNCHANGED <<root, transitions_by_root, outcome>>
        /\ \E stage \in {"wedged", "finish"} : pc' = [pc EXCEPT ![c] = stage]
    BY <1>22 DEF AttachReports
  <2> QED BY <2>1
<1>23. ASSUME NEW c \in Callers, OpenFinishes(c) PROVE OpeningUnderWay'
  BY <1>23 DEF OpenFinishes
<1>24. ASSUME NEW c \in Callers, Released(c) PROVE OpeningUnderWay'
  BY <1>24 DEF Released, Free, LeaveRoot
<1>25. ASSUME NEW c \in Callers, Settle(c) PROVE OpeningUnderWay'
  BY <1>25 DEF Settle
<1>26. ASSUME NEW c \in Callers, ReleaseFails(c) PROVE OpeningUnderWay'
  BY <1>26 DEF ReleaseFails
<1>27. ASSUME NEW c \in Callers, CloseMark(c) PROVE OpeningUnderWay'
  BY <1>27 DEF CloseMark, Stage
<1>28. ASSUME NEW c \in Callers, ClosePublish(c) PROVE OpeningUnderWay'
  BY <1>28 DEF ClosePublish, Stage
<1>29. ASSUME NEW c \in Callers, CloseJoin(c) PROVE OpeningUnderWay'
  BY <1>29 DEF CloseJoin, Stage
<1>30. ASSUME NEW c \in Callers, Detach(c) PROVE OpeningUnderWay'
  BY <1>30 DEF Detach, Stage
<1>31. ASSUME NEW c \in Callers, DetachFails(c) PROVE OpeningUnderWay'
  BY <1>31 DEF DetachFails, Stage
<1>32. ASSUME NEW c \in Callers, Signal(c) PROVE OpeningUnderWay'
  BY <1>32 DEF Signal, Works
<1>33. ASSUME NEW c \in Callers, Ignore(c) PROVE OpeningUnderWay'
  BY <1>33 DEF Ignore, Works
<1>34. ASSUME NEW c \in Callers, Change(c) PROVE OpeningUnderWay'
  BY <1>34 DEF Change, Works
<1>35. ASSUME NEW c \in Callers, Notify(c) PROVE OpeningUnderWay'
  BY <1>35 DEF Notify, Free, Works
<1>36. ASSUME NEW c \in Callers, Stop(c) PROVE OpeningUnderWay'
  BY <1>36 DEF Stop, Works
<1>37. ASSUME NEW k \in Closers, CloseBegins(k) PROVE OpeningUnderWay'
  BY <1>37 DEF CloseBegins, Free, Live, UnderWay
<1>38. ASSUME NEW k \in Closers, CloseFollows(k) PROVE OpeningUnderWay'
  BY <1>38 DEF CloseFollows, Free
<1>39. ASSUME NEW k \in Closers, CloseNext(k) PROVE OpeningUnderWay'
  BY <1>39 DEF CloseNext
<1>40. ASSUME NEW k \in Closers, CloseOne(k) PROVE OpeningUnderWay'
  BY <1>40 DEF CloseOne, Closed
<1>41. ASSUME NEW k \in Closers, CloseSettles(k) PROVE OpeningUnderWay'
  BY <1>41 DEF CloseSettles
<1>42. ASSUME NEW k \in Closers, CloseReturns(k) PROVE OpeningUnderWay'
  BY <1>42 DEF CloseReturns
<1>43. ASSUME SchedulerStops PROVE OpeningUnderWay'
  BY <1>43 DEF SchedulerStops
<1>44. ASSUME UNCHANGED vars PROVE OpeningUnderWay'
  BY <1>44 DEF vars
<1> HIDE DEF OpeningUnderWay
<1> QED BY <1>1, <1>2, <1>3, <1>4, <1>5, <1>6, <1>7, <1>8, <1>9, <1>10, <1>11, <1>12, <1>13,
  <1>14, <1>15, <1>16, <1>17, <1>18, <1>19, <1>20, <1>21, <1>22, <1>23, <1>24, <1>25, <1>26,
  <1>27, <1>28, <1>29, <1>30, <1>31, <1>32, <1>33, <1>34, <1>35, <1>36, <1>37, <1>38, <1>39,
  <1>40, <1>41, <1>42, <1>43, <1>44
  DEF Next, Open, Release, CloseSession, Watch, Close

LEMMA NextCleaning ==
  ASSUME TypeOK, ReleaserHasRoot, TransitionOfRoot, CleaningUnderWay, [Next]_vars
  PROVE  CleaningUnderWay'
<1> USE CallerAssumption, TransitionAssumption
    DEF TypeOK, Transitions, Reasons, maps, call, session, watcher, shutdown, others, Becomes,
        Finish, Before, Preparing, Using, Past,
        ReleaserHasRoot, TransitionOfRoot, CleaningUnderWay
<1>1. ASSUME NEW c \in Callers, Ask(c) PROVE CleaningUnderWay'
  BY <1>1 DEF Ask
<1>2. ASSUME NEW c \in Callers, AcquireRefused(c) PROVE CleaningUnderWay'
  BY <1>2 DEF AcquireRefused, Free, Refuse
<1>3. ASSUME NEW c \in Callers, Acquire(c) PROVE CleaningUnderWay'
  BY <1>3 DEF Acquire, Free, Share
<1>4. ASSUME NEW c \in Callers, ReleaseLeaves(c) PROVE CleaningUnderWay'
  BY <1>4 DEF ReleaseLeaves, Free
<1>5. ASSUME NEW c \in Callers, ReleaseLast(c) PROVE CleaningUnderWay'
  BY <1>5 DEF ReleaseLast, Free
<1>6. ASSUME NEW c \in Callers, OpenRefused(c) PROVE CleaningUnderWay'
  BY <1>6 DEF OpenRefused, Free, Refuse
<1>7. ASSUME NEW c \in Callers, OpenShares(c) PROVE CleaningUnderWay'
  BY <1>7 DEF OpenShares, Free, Share
<1>8. ASSUME NEW c \in Callers, OpenWaits(c) PROVE CleaningUnderWay'
  BY <1>8 DEF OpenWaits, Free
<1>9. ASSUME NEW c \in Callers, OpenBegins(c) PROVE CleaningUnderWay'
  <2>1. /\ \A r \in Roots, u \in Callers :
             transitions_by_root'[r] = <<u, "release">> => transitions_by_root[r] = <<u, "release">>
        /\ pc[c] = "asked" /\ pc' = [pc EXCEPT ![c] = "load"]
        /\ \A u \in Callers : outcome'[<<u, "release">>] = outcome[<<u, "release">>]
    BY <1>9 DEF OpenBegins
  <2> QED BY <2>1
<1>10. ASSUME NEW c \in Callers, Waited(c) PROVE CleaningUnderWay'
  BY <1>10 DEF Waited
<1>11. ASSUME NEW c \in Callers, LoadFails(c) PROVE CleaningUnderWay'
  BY <1>11 DEF LoadFails
<1>12. ASSUME NEW c \in Callers, Load(c) PROVE CleaningUnderWay'
  BY <1>12 DEF Load
<1>13. ASSUME NEW c \in Callers, Refreshed(c) PROVE CleaningUnderWay'
  BY <1>13 DEF Refreshed
<1>14. ASSUME NEW c \in Callers, RefreshFails(c) PROVE CleaningUnderWay'
  BY <1>14 DEF RefreshFails
<1>15. ASSUME NEW c \in Callers, Unwatched(c) PROVE CleaningUnderWay'
  BY <1>15 DEF Unwatched
<1>16. ASSUME NEW c \in Callers, OpenFails(c) PROVE CleaningUnderWay'
  BY <1>16 DEF OpenFails, Free, LeaveRoot
<1>17. ASSUME NEW c \in Callers, OpenFailed(c) PROVE CleaningUnderWay'
  BY <1>17 DEF OpenFailed
<1>18. ASSUME NEW c \in Callers, OpenInstalls(c) PROVE CleaningUnderWay'
  BY <1>18 DEF OpenInstalls, Free, LeaveRoot
<1>19. ASSUME NEW c \in Callers, OpenDiscards(c) PROVE CleaningUnderWay'
  <2>1. \A r \in Roots, u \in Callers : transitions_by_root'[r] = <<u, "release">> =>
          transitions_by_root[r] = <<u, "release">>
    BY <1>19, LeaveRootClears DEF OpenDiscards
  <2>2. pc[c] = "ready" /\ pc' = [pc EXCEPT ![c] = "discard"] /\ outcome' = outcome
    BY <1>19 DEF OpenDiscards
  <2> QED BY <2>1, <2>2
<1>20. ASSUME NEW c \in Callers, Discarded(c) PROVE CleaningUnderWay'
  BY <1>20 DEF Discarded, Closed
<1>21. ASSUME NEW c \in Callers, Attach(c) PROVE CleaningUnderWay'
  BY <1>21 DEF Attach
<1>22. ASSUME NEW c \in Callers, AttachReports(c) PROVE CleaningUnderWay'
  BY <1>22 DEF AttachReports
<1>23. ASSUME NEW c \in Callers, OpenFinishes(c) PROVE CleaningUnderWay'
  BY <1>23 DEF OpenFinishes
<1>24. ASSUME NEW c \in Callers, Released(c) PROVE CleaningUnderWay'
  <2>0. \A r \in Roots, u \in Callers : transitions_by_root'[r] = <<u, "release">> =>
          r # root[c] /\ transitions_by_root[r] = <<u, "release">>
    BY <1>24, LeaveRootClears DEF Released
  <2>1. \A r \in Roots, u \in Callers : transitions_by_root'[r] = <<u, "release">> =>
          u # c /\ transitions_by_root[r] = <<u, "release">>
    BY <2>0
  <2>2. pc' = [pc EXCEPT ![c] = "settle"] /\ outcome' = outcome
    BY <1>24 DEF Released
  <2> QED BY <2>1, <2>2
<1>25. ASSUME NEW c \in Callers, Settle(c) PROVE CleaningUnderWay'
  BY <1>25 DEF Settle
<1>26. ASSUME NEW c \in Callers, ReleaseFails(c) PROVE CleaningUnderWay'
  BY <1>26 DEF ReleaseFails
<1>27. ASSUME NEW c \in Callers, CloseMark(c) PROVE CleaningUnderWay'
  BY <1>27 DEF CloseMark, Stage
<1>28. ASSUME NEW c \in Callers, ClosePublish(c) PROVE CleaningUnderWay'
  BY <1>28 DEF ClosePublish, Stage
<1>29. ASSUME NEW c \in Callers, CloseJoin(c) PROVE CleaningUnderWay'
  BY <1>29 DEF CloseJoin, Stage
<1>30. ASSUME NEW c \in Callers, Detach(c) PROVE CleaningUnderWay'
  BY <1>30 DEF Detach, Stage
<1>31. ASSUME NEW c \in Callers, DetachFails(c) PROVE CleaningUnderWay'
  BY <1>31 DEF DetachFails, Stage
<1>32. ASSUME NEW c \in Callers, Signal(c) PROVE CleaningUnderWay'
  BY <1>32 DEF Signal, Works
<1>33. ASSUME NEW c \in Callers, Ignore(c) PROVE CleaningUnderWay'
  BY <1>33 DEF Ignore, Works
<1>34. ASSUME NEW c \in Callers, Change(c) PROVE CleaningUnderWay'
  BY <1>34 DEF Change, Works
<1>35. ASSUME NEW c \in Callers, Notify(c) PROVE CleaningUnderWay'
  BY <1>35 DEF Notify, Free, Works
<1>36. ASSUME NEW c \in Callers, Stop(c) PROVE CleaningUnderWay'
  BY <1>36 DEF Stop, Works
<1>37. ASSUME NEW k \in Closers, CloseBegins(k) PROVE CleaningUnderWay'
  BY <1>37 DEF CloseBegins, Free, Live, UnderWay
<1>38. ASSUME NEW k \in Closers, CloseFollows(k) PROVE CleaningUnderWay'
  BY <1>38 DEF CloseFollows, Free
<1>39. ASSUME NEW k \in Closers, CloseNext(k) PROVE CleaningUnderWay'
  BY <1>39 DEF CloseNext
<1>40. ASSUME NEW k \in Closers, CloseOne(k) PROVE CleaningUnderWay'
  BY <1>40 DEF CloseOne, Closed
<1>41. ASSUME NEW k \in Closers, CloseSettles(k) PROVE CleaningUnderWay'
  BY <1>41 DEF CloseSettles
<1>42. ASSUME NEW k \in Closers, CloseReturns(k) PROVE CleaningUnderWay'
  BY <1>42 DEF CloseReturns
<1>43. ASSUME SchedulerStops PROVE CleaningUnderWay'
  BY <1>43 DEF SchedulerStops
<1>44. ASSUME UNCHANGED vars PROVE CleaningUnderWay'
  BY <1>44 DEF vars
<1> HIDE DEF CleaningUnderWay
<1> QED BY <1>1, <1>2, <1>3, <1>4, <1>5, <1>6, <1>7, <1>8, <1>9, <1>10, <1>11, <1>12, <1>13,
  <1>14, <1>15, <1>16, <1>17, <1>18, <1>19, <1>20, <1>21, <1>22, <1>23, <1>24, <1>25, <1>26,
  <1>27, <1>28, <1>29, <1>30, <1>31, <1>32, <1>33, <1>34, <1>35, <1>36, <1>37, <1>38, <1>39,
  <1>40, <1>41, <1>42, <1>43, <1>44
  DEF Next, Open, Release, CloseSession, Watch, Close

LEMMA NextOneCloser ==
  ASSUME TypeOK, OneCloser, [Next]_vars
  PROVE  OneCloser'
<1> USE CallerAssumption, TransitionAssumption
    DEF TypeOK, Transitions, Reasons, maps, call, session, watcher, shutdown, others, Becomes,
        Finish, Before, Preparing, Using, Past,
        OneCloser
<1>1. ASSUME NEW c \in Callers, Ask(c) PROVE OneCloser'
  BY <1>1 DEF Ask
<1>2. ASSUME NEW c \in Callers, AcquireRefused(c) PROVE OneCloser'
  BY <1>2 DEF AcquireRefused, Free, Refuse
<1>3. ASSUME NEW c \in Callers, Acquire(c) PROVE OneCloser'
  BY <1>3 DEF Acquire, Free, Share
<1>4. ASSUME NEW c \in Callers, ReleaseLeaves(c) PROVE OneCloser'
  BY <1>4 DEF ReleaseLeaves, Free
<1>5. ASSUME NEW c \in Callers, ReleaseLast(c) PROVE OneCloser'
  BY <1>5 DEF ReleaseLast, Free
<1>6. ASSUME NEW c \in Callers, OpenRefused(c) PROVE OneCloser'
  BY <1>6 DEF OpenRefused, Free, Refuse
<1>7. ASSUME NEW c \in Callers, OpenShares(c) PROVE OneCloser'
  BY <1>7 DEF OpenShares, Free, Share
<1>8. ASSUME NEW c \in Callers, OpenWaits(c) PROVE OneCloser'
  BY <1>8 DEF OpenWaits, Free
<1>9. ASSUME NEW c \in Callers, OpenBegins(c) PROVE OneCloser'
  BY <1>9 DEF OpenBegins, Free
<1>10. ASSUME NEW c \in Callers, Waited(c) PROVE OneCloser'
  BY <1>10 DEF Waited
<1>11. ASSUME NEW c \in Callers, LoadFails(c) PROVE OneCloser'
  BY <1>11 DEF LoadFails
<1>12. ASSUME NEW c \in Callers, Load(c) PROVE OneCloser'
  BY <1>12 DEF Load
<1>13. ASSUME NEW c \in Callers, Refreshed(c) PROVE OneCloser'
  BY <1>13 DEF Refreshed
<1>14. ASSUME NEW c \in Callers, RefreshFails(c) PROVE OneCloser'
  BY <1>14 DEF RefreshFails
<1>15. ASSUME NEW c \in Callers, Unwatched(c) PROVE OneCloser'
  BY <1>15 DEF Unwatched
<1>16. ASSUME NEW c \in Callers, OpenFails(c) PROVE OneCloser'
  BY <1>16 DEF OpenFails, Free, LeaveRoot
<1>17. ASSUME NEW c \in Callers, OpenFailed(c) PROVE OneCloser'
  BY <1>17 DEF OpenFailed
<1>18. ASSUME NEW c \in Callers, OpenInstalls(c) PROVE OneCloser'
  BY <1>18 DEF OpenInstalls, Free, LeaveRoot
<1>19. ASSUME NEW c \in Callers, OpenDiscards(c) PROVE OneCloser'
  BY <1>19 DEF OpenDiscards, Free, LeaveRoot
<1>20. ASSUME NEW c \in Callers, Discarded(c) PROVE OneCloser'
  BY <1>20 DEF Discarded, Closed
<1>21. ASSUME NEW c \in Callers, Attach(c) PROVE OneCloser'
  BY <1>21 DEF Attach
<1>22. ASSUME NEW c \in Callers, AttachReports(c) PROVE OneCloser'
  BY <1>22 DEF AttachReports
<1>23. ASSUME NEW c \in Callers, OpenFinishes(c) PROVE OneCloser'
  BY <1>23 DEF OpenFinishes
<1>24. ASSUME NEW c \in Callers, Released(c) PROVE OneCloser'
  BY <1>24 DEF Released, Free, LeaveRoot
<1>25. ASSUME NEW c \in Callers, Settle(c) PROVE OneCloser'
  BY <1>25 DEF Settle
<1>26. ASSUME NEW c \in Callers, ReleaseFails(c) PROVE OneCloser'
  BY <1>26 DEF ReleaseFails
<1>27. ASSUME NEW c \in Callers, CloseMark(c) PROVE OneCloser'
  BY <1>27 DEF CloseMark, Stage
<1>28. ASSUME NEW c \in Callers, ClosePublish(c) PROVE OneCloser'
  BY <1>28 DEF ClosePublish, Stage
<1>29. ASSUME NEW c \in Callers, CloseJoin(c) PROVE OneCloser'
  BY <1>29 DEF CloseJoin, Stage
<1>30. ASSUME NEW c \in Callers, Detach(c) PROVE OneCloser'
  BY <1>30 DEF Detach, Stage
<1>31. ASSUME NEW c \in Callers, DetachFails(c) PROVE OneCloser'
  BY <1>31 DEF DetachFails, Stage
<1>32. ASSUME NEW c \in Callers, Signal(c) PROVE OneCloser'
  BY <1>32 DEF Signal, Works
<1>33. ASSUME NEW c \in Callers, Ignore(c) PROVE OneCloser'
  BY <1>33 DEF Ignore, Works
<1>34. ASSUME NEW c \in Callers, Change(c) PROVE OneCloser'
  BY <1>34 DEF Change, Works
<1>35. ASSUME NEW c \in Callers, Notify(c) PROVE OneCloser'
  BY <1>35 DEF Notify, Free, Works
<1>36. ASSUME NEW c \in Callers, Stop(c) PROVE OneCloser'
  BY <1>36 DEF Stop, Works
<1>37. ASSUME NEW k \in Closers, CloseBegins(k) PROVE OneCloser'
  BY <1>37 DEF CloseBegins, Free, Live, UnderWay
<1>38. ASSUME NEW k \in Closers, CloseFollows(k) PROVE OneCloser'
  BY <1>38 DEF CloseFollows, Free
<1>39. ASSUME NEW k \in Closers, CloseNext(k) PROVE OneCloser'
  BY <1>39 DEF CloseNext
<1>40. ASSUME NEW k \in Closers, CloseOne(k) PROVE OneCloser'
  BY <1>40 DEF CloseOne, Closed
<1>41. ASSUME NEW k \in Closers, CloseSettles(k) PROVE OneCloser'
  BY <1>41 DEF CloseSettles
<1>42. ASSUME NEW k \in Closers, CloseReturns(k) PROVE OneCloser'
  BY <1>42 DEF CloseReturns
<1>43. ASSUME SchedulerStops PROVE OneCloser'
  BY <1>43 DEF SchedulerStops
<1>44. ASSUME UNCHANGED vars PROVE OneCloser'
  BY <1>44 DEF vars
<1> HIDE DEF OneCloser
<1> QED BY <1>1, <1>2, <1>3, <1>4, <1>5, <1>6, <1>7, <1>8, <1>9, <1>10, <1>11, <1>12, <1>13,
  <1>14, <1>15, <1>16, <1>17, <1>18, <1>19, <1>20, <1>21, <1>22, <1>23, <1>24, <1>25, <1>26,
  <1>27, <1>28, <1>29, <1>30, <1>31, <1>32, <1>33, <1>34, <1>35, <1>36, <1>37, <1>38, <1>39,
  <1>40, <1>41, <1>42, <1>43, <1>44
  DEF Next, Open, Release, CloseSession, Watch, Close

LEMMA NextAwaited ==
  ASSUME TypeOK, OpeningUnderWay, AwaitedOpeners, [Next]_vars
  PROVE  AwaitedOpeners'
<1> USE CallerAssumption, TransitionAssumption
    DEF TypeOK, Transitions, Reasons, maps, call, session, watcher, shutdown, others, Becomes,
        Finish, Before, Preparing, Using, Past,
        OpeningUnderWay, AwaitedOpeners
<1>1. ASSUME NEW c \in Callers, Ask(c) PROVE AwaitedOpeners'
  BY <1>1 DEF Ask
<1>2. ASSUME NEW c \in Callers, AcquireRefused(c) PROVE AwaitedOpeners'
  BY <1>2 DEF AcquireRefused, Free, Refuse
<1>3. ASSUME NEW c \in Callers, Acquire(c) PROVE AwaitedOpeners'
  BY <1>3 DEF Acquire, Free, Share
<1>4. ASSUME NEW c \in Callers, ReleaseLeaves(c) PROVE AwaitedOpeners'
  BY <1>4 DEF ReleaseLeaves, Free
<1>5. ASSUME NEW c \in Callers, ReleaseLast(c) PROVE AwaitedOpeners'
  BY <1>5 DEF ReleaseLast, Free
<1>6. ASSUME NEW c \in Callers, OpenRefused(c) PROVE AwaitedOpeners'
  BY <1>6 DEF OpenRefused, Free, Refuse
<1>7. ASSUME NEW c \in Callers, OpenShares(c) PROVE AwaitedOpeners'
  BY <1>7 DEF OpenShares, Free, Share
<1>8. ASSUME NEW c \in Callers, OpenWaits(c) PROVE AwaitedOpeners'
  BY <1>8 DEF OpenWaits, Free
<1>9. ASSUME NEW c \in Callers, OpenBegins(c) PROVE AwaitedOpeners'
  BY <1>9 DEF OpenBegins, Free
<1>10. ASSUME NEW c \in Callers, Waited(c) PROVE AwaitedOpeners'
  BY <1>10 DEF Waited
<1>11. ASSUME NEW c \in Callers, LoadFails(c) PROVE AwaitedOpeners'
  BY <1>11 DEF LoadFails
<1>12. ASSUME NEW c \in Callers, Load(c) PROVE AwaitedOpeners'
  BY <1>12 DEF Load
<1>13. ASSUME NEW c \in Callers, Refreshed(c) PROVE AwaitedOpeners'
  BY <1>13 DEF Refreshed
<1>14. ASSUME NEW c \in Callers, RefreshFails(c) PROVE AwaitedOpeners'
  BY <1>14 DEF RefreshFails
<1>15. ASSUME NEW c \in Callers, Unwatched(c) PROVE AwaitedOpeners'
  BY <1>15 DEF Unwatched
<1>16. ASSUME NEW c \in Callers, OpenFails(c) PROVE AwaitedOpeners'
  BY <1>16 DEF OpenFails, Free, LeaveRoot
<1>17. ASSUME NEW c \in Callers, OpenFailed(c) PROVE AwaitedOpeners'
  BY <1>17 DEF OpenFailed
<1>18. ASSUME NEW c \in Callers, OpenInstalls(c) PROVE AwaitedOpeners'
  BY <1>18 DEF OpenInstalls, Free, LeaveRoot
<1>19. ASSUME NEW c \in Callers, OpenDiscards(c) PROVE AwaitedOpeners'
  BY <1>19 DEF OpenDiscards, Free, LeaveRoot
<1>20. ASSUME NEW c \in Callers, Discarded(c) PROVE AwaitedOpeners'
  BY <1>20 DEF Discarded, Closed
<1>21. ASSUME NEW c \in Callers, Attach(c) PROVE AwaitedOpeners'
  BY <1>21 DEF Attach
<1>22. ASSUME NEW c \in Callers, AttachReports(c) PROVE AwaitedOpeners'
  <2>1. /\ pc[c] = "attach" /\ UNCHANGED <<closed, awaited>>
        /\ \E stage \in {"wedged", "finish"} : pc' = [pc EXCEPT ![c] = stage]
    BY <1>22 DEF AttachReports
  <2> QED BY <2>1
<1>23. ASSUME NEW c \in Callers, OpenFinishes(c) PROVE AwaitedOpeners'
  BY <1>23 DEF OpenFinishes
<1>24. ASSUME NEW c \in Callers, Released(c) PROVE AwaitedOpeners'
  BY <1>24 DEF Released, Free, LeaveRoot
<1>25. ASSUME NEW c \in Callers, Settle(c) PROVE AwaitedOpeners'
  BY <1>25 DEF Settle
<1>26. ASSUME NEW c \in Callers, ReleaseFails(c) PROVE AwaitedOpeners'
  BY <1>26 DEF ReleaseFails
<1>27. ASSUME NEW c \in Callers, CloseMark(c) PROVE AwaitedOpeners'
  BY <1>27 DEF CloseMark, Stage
<1>28. ASSUME NEW c \in Callers, ClosePublish(c) PROVE AwaitedOpeners'
  BY <1>28 DEF ClosePublish, Stage
<1>29. ASSUME NEW c \in Callers, CloseJoin(c) PROVE AwaitedOpeners'
  BY <1>29 DEF CloseJoin, Stage
<1>30. ASSUME NEW c \in Callers, Detach(c) PROVE AwaitedOpeners'
  BY <1>30 DEF Detach, Stage
<1>31. ASSUME NEW c \in Callers, DetachFails(c) PROVE AwaitedOpeners'
  BY <1>31 DEF DetachFails, Stage
<1>32. ASSUME NEW c \in Callers, Signal(c) PROVE AwaitedOpeners'
  BY <1>32 DEF Signal, Works
<1>33. ASSUME NEW c \in Callers, Ignore(c) PROVE AwaitedOpeners'
  BY <1>33 DEF Ignore, Works
<1>34. ASSUME NEW c \in Callers, Change(c) PROVE AwaitedOpeners'
  BY <1>34 DEF Change, Works
<1>35. ASSUME NEW c \in Callers, Notify(c) PROVE AwaitedOpeners'
  BY <1>35 DEF Notify, Free, Works
<1>36. ASSUME NEW c \in Callers, Stop(c) PROVE AwaitedOpeners'
  BY <1>36 DEF Stop, Works
<1>37. ASSUME NEW k \in Closers, CloseBegins(k) PROVE AwaitedOpeners'
  <2>1. /\ awaited' = {transitions_by_root[r] : r \in Roots} \ {Nobody} /\ pc' = pc
    BY <1>37 DEF CloseBegins, UnderWay
  <2>2. ASSUME NEW u \in Callers, <<u, "open">> \in awaited'
        PROVE  pc'[u] \in Preparing \cup {"fails", "discard", "refused"}
    <3>1. PICK r \in Roots : transitions_by_root[r] = <<u, "open">>
      BY <2>1, <2>2
    <3> QED BY <2>1, <3>1
  <2> QED BY <2>2
<1>38. ASSUME NEW k \in Closers, CloseFollows(k) PROVE AwaitedOpeners'
  BY <1>38 DEF CloseFollows, Free
<1>39. ASSUME NEW k \in Closers, CloseNext(k) PROVE AwaitedOpeners'
  BY <1>39 DEF CloseNext
<1>40. ASSUME NEW k \in Closers, CloseOne(k) PROVE AwaitedOpeners'
  BY <1>40 DEF CloseOne, Closed
<1>41. ASSUME NEW k \in Closers, CloseSettles(k) PROVE AwaitedOpeners'
  BY <1>41 DEF CloseSettles
<1>42. ASSUME NEW k \in Closers, CloseReturns(k) PROVE AwaitedOpeners'
  BY <1>42 DEF CloseReturns
<1>43. ASSUME SchedulerStops PROVE AwaitedOpeners'
  BY <1>43 DEF SchedulerStops
<1>44. ASSUME UNCHANGED vars PROVE AwaitedOpeners'
  BY <1>44 DEF vars
<1> HIDE DEF AwaitedOpeners
<1> QED BY <1>1, <1>2, <1>3, <1>4, <1>5, <1>6, <1>7, <1>8, <1>9, <1>10, <1>11, <1>12, <1>13,
  <1>14, <1>15, <1>16, <1>17, <1>18, <1>19, <1>20, <1>21, <1>22, <1>23, <1>24, <1>25, <1>26,
  <1>27, <1>28, <1>29, <1>30, <1>31, <1>32, <1>33, <1>34, <1>35, <1>36, <1>37, <1>38, <1>39,
  <1>40, <1>41, <1>42, <1>43, <1>44
  DEF Next, Open, Release, CloseSession, Watch, Close

\* What is over stays over once the registry is closed.
LEMMA NextOver ==
  ASSUME TypeOK, LiveSession, UsesOfSession, ClosedIsEmpty, DrainedIsUntouched, Watchers,
         closed, NEW s \in Callers, Over(s), [Next]_vars
  PROVE  Over(s)'
<1> USE CallerAssumption, TransitionAssumption
    DEF TypeOK, Transitions, Reasons, maps, call, session, watcher, shutdown, others, Becomes,
        Finish, Before, Preparing, Using, Past,
        LiveSession, UsesOfSession, ClosedIsEmpty, DrainedIsUntouched, Watchers, Over
<1>1. ASSUME NEW c \in Callers, Ask(c) PROVE Over(s)'
  BY <1>1 DEF Ask
<1>2. ASSUME NEW c \in Callers, AcquireRefused(c) PROVE Over(s)'
  BY <1>2 DEF AcquireRefused, Free, Refuse
<1>3. ASSUME NEW c \in Callers, Acquire(c) PROVE Over(s)'
  BY <1>3 DEF Acquire, Free, Share
<1>4. ASSUME NEW c \in Callers, ReleaseLeaves(c) PROVE Over(s)'
  BY <1>4 DEF ReleaseLeaves, Free
<1>5. ASSUME NEW c \in Callers, ReleaseLast(c) PROVE Over(s)'
  BY <1>5 DEF ReleaseLast, Free
<1>6. ASSUME NEW c \in Callers, OpenRefused(c) PROVE Over(s)'
  BY <1>6 DEF OpenRefused, Free, Refuse
<1>7. ASSUME NEW c \in Callers, OpenShares(c) PROVE Over(s)'
  BY <1>7 DEF OpenShares, Free, Share
<1>8. ASSUME NEW c \in Callers, OpenWaits(c) PROVE Over(s)'
  BY <1>8 DEF OpenWaits, Free
<1>9. ASSUME NEW c \in Callers, OpenBegins(c) PROVE Over(s)'
  BY <1>9 DEF OpenBegins, Free
<1>10. ASSUME NEW c \in Callers, Waited(c) PROVE Over(s)'
  BY <1>10 DEF Waited
<1>11. ASSUME NEW c \in Callers, LoadFails(c) PROVE Over(s)'
  BY <1>11 DEF LoadFails
<1>12. ASSUME NEW c \in Callers, Load(c) PROVE Over(s)'
  BY <1>12 DEF Load
<1>13. ASSUME NEW c \in Callers, Refreshed(c) PROVE Over(s)'
  BY <1>13 DEF Refreshed
<1>14. ASSUME NEW c \in Callers, RefreshFails(c) PROVE Over(s)'
  BY <1>14 DEF RefreshFails
<1>15. ASSUME NEW c \in Callers, Unwatched(c) PROVE Over(s)'
  BY <1>15 DEF Unwatched
<1>16. ASSUME NEW c \in Callers, OpenFails(c) PROVE Over(s)'
  BY <1>16 DEF OpenFails, Free, LeaveRoot
<1>17. ASSUME NEW c \in Callers, OpenFailed(c) PROVE Over(s)'
  BY <1>17 DEF OpenFailed
<1>18. ASSUME NEW c \in Callers, OpenInstalls(c) PROVE Over(s)'
  BY <1>18 DEF OpenInstalls, Free, LeaveRoot
<1>19. ASSUME NEW c \in Callers, OpenDiscards(c) PROVE Over(s)'
  BY <1>19 DEF OpenDiscards, Free, LeaveRoot
<1>20. ASSUME NEW c \in Callers, Discarded(c) PROVE Over(s)'
  BY <1>20 DEF Discarded, Closed
<1>21. ASSUME NEW c \in Callers, Attach(c) PROVE Over(s)'
  BY <1>21 DEF Attach
<1>22. ASSUME NEW c \in Callers, AttachReports(c) PROVE Over(s)'
  BY <1>22 DEF AttachReports
<1>23. ASSUME NEW c \in Callers, OpenFinishes(c) PROVE Over(s)'
  BY <1>23 DEF OpenFinishes
<1>24. ASSUME NEW c \in Callers, Released(c) PROVE Over(s)'
  BY <1>24 DEF Released, Free, LeaveRoot
<1>25. ASSUME NEW c \in Callers, Settle(c) PROVE Over(s)'
  BY <1>25 DEF Settle
<1>26. ASSUME NEW c \in Callers, ReleaseFails(c) PROVE Over(s)'
  BY <1>26 DEF ReleaseFails
<1>27. ASSUME NEW c \in Callers, CloseMark(c) PROVE Over(s)'
  BY <1>27 DEF CloseMark, Stage
<1>28. ASSUME NEW c \in Callers, ClosePublish(c) PROVE Over(s)'
  BY <1>28 DEF ClosePublish, Stage
<1>29. ASSUME NEW c \in Callers, CloseJoin(c) PROVE Over(s)'
  BY <1>29 DEF CloseJoin, Stage
<1>30. ASSUME NEW c \in Callers, Detach(c) PROVE Over(s)'
  BY <1>30 DEF Detach, Stage
<1>31. ASSUME NEW c \in Callers, DetachFails(c) PROVE Over(s)'
  BY <1>31 DEF DetachFails, Stage
<1>32. ASSUME NEW c \in Callers, Signal(c) PROVE Over(s)'
  BY <1>32 DEF Signal, Works
<1>33. ASSUME NEW c \in Callers, Ignore(c) PROVE Over(s)'
  BY <1>33 DEF Ignore, Works
<1>34. ASSUME NEW c \in Callers, Change(c) PROVE Over(s)'
  BY <1>34 DEF Change, Works
<1>35. ASSUME NEW c \in Callers, Notify(c) PROVE Over(s)'
  BY <1>35 DEF Notify, Free, Works
<1>36. ASSUME NEW c \in Callers, Stop(c) PROVE Over(s)'
  BY <1>36 DEF Stop, Works
<1>37. ASSUME NEW k \in Closers, CloseBegins(k) PROVE Over(s)'
  BY <1>37 DEF CloseBegins, Free, Live, UnderWay
<1>38. ASSUME NEW k \in Closers, CloseFollows(k) PROVE Over(s)'
  BY <1>38 DEF CloseFollows, Free
<1>39. ASSUME NEW k \in Closers, CloseNext(k) PROVE Over(s)'
  <2>1. PICK d \in drained : closing' = [closing EXCEPT ![d] = "mark"]
    BY <1>39 DEF CloseNext
  <2>2. closing[d] = "no" /\ worker[d] # "none" /\ pc[d] \in Past
    BY <2>1
  <2>3. d # s
    BY <2>2
  <2>4. worker' = worker /\ pc' = pc
    BY <1>39 DEF CloseNext
  <2> QED BY <2>1, <2>3, <2>4
<1>40. ASSUME NEW k \in Closers, CloseOne(k) PROVE Over(s)'
  BY <1>40 DEF CloseOne, Closed
<1>41. ASSUME NEW k \in Closers, CloseSettles(k) PROVE Over(s)'
  BY <1>41 DEF CloseSettles
<1>42. ASSUME NEW k \in Closers, CloseReturns(k) PROVE Over(s)'
  BY <1>42 DEF CloseReturns
<1>43. ASSUME SchedulerStops PROVE Over(s)'
  BY <1>43 DEF SchedulerStops
<1>44. ASSUME UNCHANGED vars PROVE Over(s)'
  BY <1>44 DEF vars
<1> HIDE DEF Over
<1> QED BY <1>1, <1>2, <1>3, <1>4, <1>5, <1>6, <1>7, <1>8, <1>9, <1>10, <1>11, <1>12, <1>13,
  <1>14, <1>15, <1>16, <1>17, <1>18, <1>19, <1>20, <1>21, <1>22, <1>23, <1>24, <1>25, <1>26,
  <1>27, <1>28, <1>29, <1>30, <1>31, <1>32, <1>33, <1>34, <1>35, <1>36, <1>37, <1>38, <1>39,
  <1>40, <1>41, <1>42, <1>43, <1>44
  DEF Next, Open, Release, CloseSession, Watch, Close

\* The account of a session stays while nothing is settled, and a transition that
\* is settled is no longer waited for only when its session is over.
LEMMA AccountRests ==
  ASSUME NEW s \in Callers, AccountOf(s), Over(s) => Over(s)',
         UNCHANGED <<drained, current, awaited, failure, close_pc, outcome, victim>>,
         closing[s] = "failed" => closing'[s] = "failed"
  PROVE  AccountOf(s)'
BY DEF AccountOf, Awaits

LEMMA AccountSettles ==
  ASSUME TypeOK, NEW s \in Callers, AccountOf(s), Over(s) => Over(s)',
         UNCHANGED <<drained, current, awaited, failure, close_pc, closing, victim>>,
         NEW t \in Transitions, NEW result, Finish(t, result),
         t = <<s, "open">> /\ t \in awaited => result = "unclean" \/ Over(s)',
         \A c \in Callers : t = <<c, "release">> /\ victim[c] = s => result = "unclean" \/ Over(s)'
  PROVE  AccountOf(s)'
<1>1. \A u \in Transitions : outcome'[u] = IF u = t THEN result ELSE outcome[u]
  BY DEF Finish, TypeOK
<1>2. \A u \in Transitions : Awaits(u) => Awaits(u)' \/ (u = t /\ result # "unclean")
  BY <1>1 DEF Awaits
<1>3. \A c \in Callers : <<c, "open">> \in Transitions /\ <<c, "release">> \in Transitions
  BY DEF Transitions, Reasons
<1>4. CASE Over(s) \/ s \in drained \/ (current = s /\ \E k \in Closers : close_pc[k] = "close")
           \/ (closing[s] = "failed" /\ failure)
  BY <1>4 DEF AccountOf
<1>5. CASE Awaits(<<s, "open">>)
  <2>1. <<s, "open">> \in awaited
    BY <1>5 DEF Awaits
  <2> QED BY <1>2, <1>3, <1>5, <2>1 DEF AccountOf
<1>6. ASSUME NEW c \in Callers, victim[c] = s, Awaits(<<c, "release">>) PROVE AccountOf(s)'
  BY <1>2, <1>3, <1>6 DEF AccountOf
<1> QED BY <1>4, <1>5, <1>6 DEF AccountOf

\* Every step keeps the account of every session.
LEMMA NextAccount ==
  ASSUME TypeOK, LiveSession, UsesOfSession, ClosedIsEmpty, DrainedIsUntouched, Watchers, FailureKept,
         Cleanups, OpenUnclean, OneCloser, AwaitedOpeners,
         closed, NEW s \in Callers, AccountOf(s), Over(s) => Over(s)', [Next]_vars
  PROVE  AccountOf(s)'
<1> USE CallerAssumption, TransitionAssumption
    DEF TypeOK, Transitions, Reasons, maps, call, session, watcher, shutdown, others, Becomes,
        Finish, Before, Preparing, Using, Past,
        LiveSession, UsesOfSession, ClosedIsEmpty, DrainedIsUntouched, Watchers, FailureKept,
         Cleanups, OpenUnclean, OneCloser, AwaitedOpeners, AccountOf, Awaits
<1>1. ASSUME NEW c \in Callers, Ask(c) PROVE AccountOf(s)'
  BY <1>1 DEF Ask
<1>2. ASSUME NEW c \in Callers, AcquireRefused(c) PROVE AccountOf(s)'
  BY <1>2 DEF AcquireRefused, Free, Refuse
<1>3. ASSUME NEW c \in Callers, Acquire(c) PROVE AccountOf(s)'
  BY <1>3 DEF Acquire, Free, Share
<1>4. ASSUME NEW c \in Callers, ReleaseLeaves(c) PROVE AccountOf(s)'
  BY <1>4 DEF ReleaseLeaves, Free
<1>5. ASSUME NEW c \in Callers, ReleaseLast(c) PROVE AccountOf(s)'
  <2>1. uses_by_root[root[c]] = {c}
    BY <1>5 DEF ReleaseLast
  <2>2. uses_by_root[root[c]] = {}
    OBVIOUS
  <2> QED BY <2>1, <2>2
<1>6. ASSUME NEW c \in Callers, OpenRefused(c) PROVE AccountOf(s)'
  BY <1>6 DEF OpenRefused, Free, Refuse
<1>7. ASSUME NEW c \in Callers, OpenShares(c) PROVE AccountOf(s)'
  BY <1>7 DEF OpenShares, Free, Share
<1>8. ASSUME NEW c \in Callers, OpenWaits(c) PROVE AccountOf(s)'
  BY <1>8 DEF OpenWaits, Free
<1>9. ASSUME NEW c \in Callers, OpenBegins(c) PROVE AccountOf(s)'
  BY <1>9 DEF OpenBegins, Free
<1>10. ASSUME NEW c \in Callers, Waited(c) PROVE AccountOf(s)'
  BY <1>10 DEF Waited
<1>11. ASSUME NEW c \in Callers, LoadFails(c) PROVE AccountOf(s)'
  BY <1>11 DEF LoadFails
<1>12. ASSUME NEW c \in Callers, Load(c) PROVE AccountOf(s)'
  BY <1>12 DEF Load
<1>13. ASSUME NEW c \in Callers, Refreshed(c) PROVE AccountOf(s)'
  BY <1>13 DEF Refreshed
<1>14. ASSUME NEW c \in Callers, RefreshFails(c) PROVE AccountOf(s)'
  BY <1>14 DEF RefreshFails
<1>15. ASSUME NEW c \in Callers, Unwatched(c) PROVE AccountOf(s)'
  BY <1>15 DEF Unwatched
<1>16. ASSUME NEW c \in Callers, OpenFails(c) PROVE AccountOf(s)'
  BY <1>16 DEF OpenFails, Free, LeaveRoot
<1>17. ASSUME NEW c \in Callers, OpenFailed(c) PROVE AccountOf(s)'
  <2>1. UNCHANGED <<drained, current, awaited, failure, close_pc, closing, victim>>
    BY <1>17 DEF OpenFailed
  <2>2. <<c, "open">> \in Transitions
    OBVIOUS
  <2>3. s = c => Over(s)'
    BY <1>17 DEF OpenFailed, Over
  <2>4. <<c, "open">> = <<s, "open">> => s = c
    OBVIOUS
  <2>5. \A u \in Callers : <<c, "open">> # <<u, "release">>
    OBVIOUS
  <2>6. Finish(<<c, "open">>, "failed")
    BY <1>17 DEF OpenFailed
  <2> HIDE DEF Finish, Transitions, LiveSession, UsesOfSession, Watchers,
          DrainedIsUntouched, Cleanups, AccountOf
  <2> QED BY <2>1, <2>2, <2>3, <2>4, <2>5, <2>6, AccountSettles
<1>18. ASSUME NEW c \in Callers, OpenInstalls(c) PROVE AccountOf(s)'
  BY <1>18 DEF OpenInstalls, Free, LeaveRoot
<1>19. ASSUME NEW c \in Callers, OpenDiscards(c) PROVE AccountOf(s)'
  <2>1. UNCHANGED <<drained, current, awaited, failure, close_pc, outcome, victim>>
    BY <1>19 DEF OpenDiscards
  <2>2. closing[s] = "failed" => closing'[s] = "failed"
    BY <1>19 DEF OpenDiscards
  <2> QED BY <2>1, <2>2, AccountRests
<1>20. ASSUME NEW c \in Callers, Discarded(c) PROVE AccountOf(s)'
  <2>1. UNCHANGED <<drained, current, awaited, failure, close_pc, closing, victim>>
    BY <1>20 DEF Discarded
  <2>2. <<c, "open">> \in Transitions
    OBVIOUS
  <2>3. s = c => closing[c] = "failed" \/ Over(s)'
    BY <1>20 DEF Discarded, Closed, Over
  <2>4. <<c, "open">> = <<s, "open">> => s = c
    OBVIOUS
  <2>5. \A u \in Callers : <<c, "open">> # <<u, "release">>
    OBVIOUS
  <2>6. PICK result : /\ result = IF closing[c] = "ok" THEN "failed" ELSE "unclean"
                      /\ Finish(<<c, "open">>, result)
    BY <1>20 DEF Discarded
  <2>7. closing[c] = "failed" => result = "unclean"
    BY <2>6
  <2> HIDE DEF Finish, Transitions, LiveSession, UsesOfSession, Watchers,
          DrainedIsUntouched, Cleanups, AccountOf
  <2> QED BY <2>1, <2>2, <2>3, <2>4, <2>5, <2>6, <2>7, AccountSettles
<1>21. ASSUME NEW c \in Callers, Attach(c) PROVE AccountOf(s)'
  BY <1>21 DEF Attach
<1>22. ASSUME NEW c \in Callers, AttachReports(c) PROVE AccountOf(s)'
  BY <1>22 DEF AttachReports
<1>23. ASSUME NEW c \in Callers, OpenFinishes(c) PROVE AccountOf(s)'
  <2>1. UNCHANGED <<drained, current, awaited, failure, close_pc, closing, victim>>
    BY <1>23 DEF OpenFinishes
  <2>2. <<c, "open">> \in Transitions
    OBVIOUS
  <2>3. <<c, "open">> \notin awaited
    BY <1>23 DEF OpenFinishes
  <2>5. \A u \in Callers : <<c, "open">> # <<u, "release">>
    OBVIOUS
  <2>6. Finish(<<c, "open">>, "ok")
    BY <1>23 DEF OpenFinishes
  <2> HIDE DEF Finish, Transitions, LiveSession, UsesOfSession, Watchers,
          DrainedIsUntouched, Cleanups, AccountOf
  <2> QED BY <2>1, <2>2, <2>3, <2>5, <2>6, AccountSettles
<1>24. ASSUME NEW c \in Callers, Released(c) PROVE AccountOf(s)'
  BY <1>24 DEF Released, Free, LeaveRoot
<1>25. ASSUME NEW c \in Callers, Settle(c) PROVE AccountOf(s)'
  <2>1. UNCHANGED <<drained, current, awaited, failure, close_pc, closing, victim>>
    BY <1>25 DEF Settle
  <2>2. <<c, "release">> \in Transitions
    OBVIOUS
  <2>3. victim[c] = s => Over(s)
    BY <1>25 DEF Settle, Over
  <2>4. \A u \in Callers : <<c, "release">> = <<u, "release">> => u = c
    OBVIOUS
  <2>5. <<c, "release">> # <<s, "open">>
    OBVIOUS
  <2>6. Finish(<<c, "release">>, "ok")
    BY <1>25 DEF Settle
  <2> HIDE DEF Finish, Transitions, LiveSession, UsesOfSession, Watchers,
          DrainedIsUntouched, Cleanups, AccountOf
  <2> QED BY <2>1, <2>2, <2>3, <2>4, <2>5, <2>6, AccountSettles
<1>26. ASSUME NEW c \in Callers, ReleaseFails(c) PROVE AccountOf(s)'
  <2>1. UNCHANGED <<drained, current, awaited, failure, close_pc, closing, victim>>
    BY <1>26 DEF ReleaseFails
  <2>2. <<c, "release">> \in Transitions
    OBVIOUS
  <2>5. <<c, "release">> # <<s, "open">>
    OBVIOUS
  <2>6. Finish(<<c, "release">>, "unclean")
    BY <1>26 DEF ReleaseFails
  <2> HIDE DEF Finish, Transitions, LiveSession, UsesOfSession, Watchers,
          DrainedIsUntouched, Cleanups, AccountOf
  <2> QED BY <2>1, <2>2, <2>5, <2>6, AccountSettles
<1>27. ASSUME NEW c \in Callers, CloseMark(c) PROVE AccountOf(s)'
  <2>1. UNCHANGED <<drained, current, awaited, failure, close_pc, outcome, victim>>
    BY <1>27 DEF CloseMark, Stage
  <2>2. closing[s] = "failed" => closing'[s] = "failed"
    BY <1>27 DEF CloseMark, Stage
  <2> QED BY <2>1, <2>2, AccountRests
<1>28. ASSUME NEW c \in Callers, ClosePublish(c) PROVE AccountOf(s)'
  <2>1. UNCHANGED <<drained, current, awaited, failure, close_pc, outcome, victim>>
    BY <1>28 DEF ClosePublish, Stage
  <2>2. closing[s] = "failed" => closing'[s] = "failed"
    BY <1>28 DEF ClosePublish, Stage
  <2> QED BY <2>1, <2>2, AccountRests
<1>29. ASSUME NEW c \in Callers, CloseJoin(c) PROVE AccountOf(s)'
  <2>1. UNCHANGED <<drained, current, awaited, failure, close_pc, outcome, victim>>
    BY <1>29 DEF CloseJoin, Stage
  <2>2. closing[s] = "failed" => closing'[s] = "failed"
    BY <1>29 DEF CloseJoin, Stage
  <2> QED BY <2>1, <2>2, AccountRests
<1>30. ASSUME NEW c \in Callers, Detach(c) PROVE AccountOf(s)'
  <2>1. UNCHANGED <<drained, current, awaited, failure, close_pc, outcome, victim>>
    BY <1>30 DEF Detach, Stage
  <2>2. closing[s] = "failed" => closing'[s] = "failed"
    BY <1>30 DEF Detach, Stage
  <2> QED BY <2>1, <2>2, AccountRests
<1>31. ASSUME NEW c \in Callers, DetachFails(c) PROVE AccountOf(s)'
  <2>1. UNCHANGED <<drained, current, awaited, failure, close_pc, outcome, victim>>
    BY <1>31 DEF DetachFails, Stage
  <2>2. closing[s] = "failed" => closing'[s] = "failed"
    BY <1>31 DEF DetachFails, Stage
  <2> QED BY <2>1, <2>2, AccountRests
<1>32. ASSUME NEW c \in Callers, Signal(c) PROVE AccountOf(s)'
  BY <1>32 DEF Signal, Works
<1>33. ASSUME NEW c \in Callers, Ignore(c) PROVE AccountOf(s)'
  BY <1>33 DEF Ignore, Works
<1>34. ASSUME NEW c \in Callers, Change(c) PROVE AccountOf(s)'
  BY <1>34 DEF Change, Works
<1>35. ASSUME NEW c \in Callers, Notify(c) PROVE AccountOf(s)'
  BY <1>35 DEF Notify, Free, Works
<1>36. ASSUME NEW c \in Callers, Stop(c) PROVE AccountOf(s)'
  BY <1>36 DEF Stop, Works
<1>37. ASSUME NEW k \in Closers, CloseBegins(k) PROVE AccountOf(s)'
  BY <1>37 DEF CloseBegins, Free, Live, UnderWay
<1>38. ASSUME NEW k \in Closers, CloseFollows(k) PROVE AccountOf(s)'
  <2>1. UNCHANGED <<drained, current, awaited, failure, outcome, victim, closing>>
    BY <1>38 DEF CloseFollows
  <2>2. close_pc[k] = "idle" /\ \A m \in Closers \ {k} : close_pc'[m] = close_pc[m]
    BY <1>38 DEF CloseFollows
  <2>3. \A m \in Closers : close_pc[m] = "close" => close_pc'[m] = "close"
    BY <2>2
  <2> HIDE DEF LiveSession, UsesOfSession, Watchers, DrainedIsUntouched, Cleanups
  <2> QED BY <2>1, <2>3
<1>39. ASSUME NEW k \in Closers, CloseNext(k) PROVE AccountOf(s)'
  <2>1. PICK d \in drained : /\ drained' = drained \ {d} /\ current' = d
                             /\ closing' = [closing EXCEPT ![d] = "mark"]
    BY <1>39 DEF CloseNext
  <2>2. /\ UNCHANGED <<awaited, failure, outcome, victim>>
        /\ close_pc[k] = "drain" /\ close_pc'[k] = "close"
    BY <1>39 DEF CloseNext
  <2>3. closing[d] = "no" /\ d \in Callers
    BY <2>1
  <2>4. closing[s] = "failed" => closing'[s] = "failed"
    BY <2>1, <2>3
  <2>5. ~ \E m \in Closers : close_pc[m] = "close"
    BY <2>2
  <2> HIDE DEF LiveSession, UsesOfSession, Watchers, DrainedIsUntouched, Cleanups, OneCloser
  <2> QED BY <2>1, <2>2, <2>4, <2>5
<1>40. ASSUME NEW k \in Closers, CloseOne(k) PROVE AccountOf(s)'
  <2>1. /\ UNCHANGED <<drained, current, awaited, outcome, victim, closing>>
        /\ failure' = (failure \/ closing[current] = "failed")
        /\ closing[current] \in {"ok", "failed"}
    BY <1>40 DEF CloseOne, Closed
  <2>2. current = s => closing[s] = "failed" \/ Over(s)
    BY <2>1 DEF Over
  <2>3. failure \/ closing[current] = "failed" => failure'
    BY <2>1
  <2> HIDE DEF LiveSession, UsesOfSession, Watchers, DrainedIsUntouched, Cleanups, OneCloser
  <2> QED BY <2>1, <2>2, <2>3
<1>41. ASSUME NEW k \in Closers, CloseSettles(k) PROVE AccountOf(s)'
  <2>1. UNCHANGED <<drained, current, awaited, failure, outcome, victim, closing>>
    BY <1>41 DEF CloseSettles
  <2>2. close_pc[k] = "drain" /\ \A m \in Closers \ {k} : close_pc'[m] = close_pc[m]
    BY <1>41 DEF CloseSettles
  <2>3. \A m \in Closers : close_pc[m] = "close" => close_pc'[m] = "close"
    BY <2>2
  <2> HIDE DEF LiveSession, UsesOfSession, Watchers, DrainedIsUntouched, Cleanups
  <2> QED BY <2>1, <2>3
<1>42. ASSUME NEW k \in Closers, CloseReturns(k) PROVE AccountOf(s)'
  <2>1. UNCHANGED <<drained, current, awaited, failure, outcome, victim, closing>>
    BY <1>42 DEF CloseReturns
  <2>2. close_pc[k] = "await" /\ \A m \in Closers \ {k} : close_pc'[m] = close_pc[m]
    BY <1>42 DEF CloseReturns
  <2>3. \A m \in Closers : close_pc[m] = "close" => close_pc'[m] = "close"
    BY <2>2
  <2> HIDE DEF LiveSession, UsesOfSession, Watchers, DrainedIsUntouched, Cleanups
  <2> QED BY <2>1, <2>3
<1>43. ASSUME SchedulerStops PROVE AccountOf(s)'
  BY <1>43 DEF SchedulerStops
<1>44. ASSUME UNCHANGED vars PROVE AccountOf(s)'
  BY <1>44 DEF vars
<1> HIDE DEF AccountOf
<1> QED BY <1>1, <1>2, <1>3, <1>4, <1>5, <1>6, <1>7, <1>8, <1>9, <1>10, <1>11, <1>12, <1>13,
  <1>14, <1>15, <1>16, <1>17, <1>18, <1>19, <1>20, <1>21, <1>22, <1>23, <1>24, <1>25, <1>26,
  <1>27, <1>28, <1>29, <1>30, <1>31, <1>32, <1>33, <1>34, <1>35, <1>36, <1>37, <1>38, <1>39,
  <1>40, <1>41, <1>42, <1>43, <1>44
  DEF Next, Open, Release, CloseSession, Watch, Close

\* Only the first caller of close closes the registry, and settles that it did.
LEMMA ShutdownFrame ==
  ASSUME [Next]_vars
  PROVE  \/ UNCHANGED <<closed, close_transition>>
         \/ \E k \in Closers : CloseBegins(k) \/ CloseSettles(k)
<1> DEFINE Goal == \/ UNCHANGED <<closed, close_transition>>
                   \/ \E k \in Closers : CloseBegins(k) \/ CloseSettles(k)
<1> SUFFICES Goal
  OBVIOUS
<1> USE DEF maps, call, session, watcher, shutdown, others, Becomes,
        Finish
<1>1. ASSUME NEW c \in Callers, Ask(c) PROVE Goal
  BY <1>1 DEF Ask
<1>2. ASSUME NEW c \in Callers, AcquireRefused(c) PROVE Goal
  BY <1>2 DEF AcquireRefused, Free, Refuse
<1>3. ASSUME NEW c \in Callers, Acquire(c) PROVE Goal
  BY <1>3 DEF Acquire, Free, Share
<1>4. ASSUME NEW c \in Callers, ReleaseLeaves(c) PROVE Goal
  BY <1>4 DEF ReleaseLeaves, Free
<1>5. ASSUME NEW c \in Callers, ReleaseLast(c) PROVE Goal
  BY <1>5 DEF ReleaseLast, Free
<1>6. ASSUME NEW c \in Callers, OpenRefused(c) PROVE Goal
  BY <1>6 DEF OpenRefused, Free, Refuse
<1>7. ASSUME NEW c \in Callers, OpenShares(c) PROVE Goal
  BY <1>7 DEF OpenShares, Free, Share
<1>8. ASSUME NEW c \in Callers, OpenWaits(c) PROVE Goal
  BY <1>8 DEF OpenWaits, Free
<1>9. ASSUME NEW c \in Callers, OpenBegins(c) PROVE Goal
  BY <1>9 DEF OpenBegins, Free
<1>10. ASSUME NEW c \in Callers, Waited(c) PROVE Goal
  BY <1>10 DEF Waited
<1>11. ASSUME NEW c \in Callers, LoadFails(c) PROVE Goal
  BY <1>11 DEF LoadFails
<1>12. ASSUME NEW c \in Callers, Load(c) PROVE Goal
  BY <1>12 DEF Load
<1>13. ASSUME NEW c \in Callers, Refreshed(c) PROVE Goal
  BY <1>13 DEF Refreshed
<1>14. ASSUME NEW c \in Callers, RefreshFails(c) PROVE Goal
  BY <1>14 DEF RefreshFails
<1>15. ASSUME NEW c \in Callers, Unwatched(c) PROVE Goal
  BY <1>15 DEF Unwatched
<1>16. ASSUME NEW c \in Callers, OpenFails(c) PROVE Goal
  BY <1>16 DEF OpenFails, Free, LeaveRoot
<1>17. ASSUME NEW c \in Callers, OpenFailed(c) PROVE Goal
  BY <1>17 DEF OpenFailed
<1>18. ASSUME NEW c \in Callers, OpenInstalls(c) PROVE Goal
  BY <1>18 DEF OpenInstalls, Free, LeaveRoot
<1>19. ASSUME NEW c \in Callers, OpenDiscards(c) PROVE Goal
  BY <1>19 DEF OpenDiscards, Free, LeaveRoot
<1>20. ASSUME NEW c \in Callers, Discarded(c) PROVE Goal
  BY <1>20 DEF Discarded, Closed
<1>21. ASSUME NEW c \in Callers, Attach(c) PROVE Goal
  BY <1>21 DEF Attach
<1>22. ASSUME NEW c \in Callers, AttachReports(c) PROVE Goal
  BY <1>22 DEF AttachReports
<1>23. ASSUME NEW c \in Callers, OpenFinishes(c) PROVE Goal
  BY <1>23 DEF OpenFinishes
<1>24. ASSUME NEW c \in Callers, Released(c) PROVE Goal
  BY <1>24 DEF Released, Free, LeaveRoot
<1>25. ASSUME NEW c \in Callers, Settle(c) PROVE Goal
  BY <1>25 DEF Settle
<1>26. ASSUME NEW c \in Callers, ReleaseFails(c) PROVE Goal
  BY <1>26 DEF ReleaseFails
<1>27. ASSUME NEW c \in Callers, CloseMark(c) PROVE Goal
  BY <1>27 DEF CloseMark, Stage
<1>28. ASSUME NEW c \in Callers, ClosePublish(c) PROVE Goal
  BY <1>28 DEF ClosePublish, Stage
<1>29. ASSUME NEW c \in Callers, CloseJoin(c) PROVE Goal
  BY <1>29 DEF CloseJoin, Stage
<1>30. ASSUME NEW c \in Callers, Detach(c) PROVE Goal
  BY <1>30 DEF Detach, Stage
<1>31. ASSUME NEW c \in Callers, DetachFails(c) PROVE Goal
  BY <1>31 DEF DetachFails, Stage
<1>32. ASSUME NEW c \in Callers, Signal(c) PROVE Goal
  BY <1>32 DEF Signal, Works
<1>33. ASSUME NEW c \in Callers, Ignore(c) PROVE Goal
  BY <1>33 DEF Ignore, Works
<1>34. ASSUME NEW c \in Callers, Change(c) PROVE Goal
  BY <1>34 DEF Change, Works
<1>35. ASSUME NEW c \in Callers, Notify(c) PROVE Goal
  BY <1>35 DEF Notify, Free, Works
<1>36. ASSUME NEW c \in Callers, Stop(c) PROVE Goal
  BY <1>36 DEF Stop, Works
<1>37. ASSUME NEW k \in Closers, CloseBegins(k) PROVE Goal
  BY <1>37
<1>38. ASSUME NEW k \in Closers, CloseFollows(k) PROVE Goal
  BY <1>38 DEF CloseFollows, Free
<1>39. ASSUME NEW k \in Closers, CloseNext(k) PROVE Goal
  BY <1>39 DEF CloseNext
<1>40. ASSUME NEW k \in Closers, CloseOne(k) PROVE Goal
  BY <1>40 DEF CloseOne, Closed
<1>41. ASSUME NEW k \in Closers, CloseSettles(k) PROVE Goal
  BY <1>41
<1>42. ASSUME NEW k \in Closers, CloseReturns(k) PROVE Goal
  BY <1>42 DEF CloseReturns
<1>43. ASSUME SchedulerStops PROVE Goal
  BY <1>43 DEF SchedulerStops
<1>44. ASSUME UNCHANGED vars PROVE Goal
  BY <1>44 DEF vars
<1> HIDE DEF Goal
<1> QED BY <1>1, <1>2, <1>3, <1>4, <1>5, <1>6, <1>7, <1>8, <1>9, <1>10, <1>11, <1>12, <1>13,
  <1>14, <1>15, <1>16, <1>17, <1>18, <1>19, <1>20, <1>21, <1>22, <1>23, <1>24, <1>25, <1>26,
  <1>27, <1>28, <1>29, <1>30, <1>31, <1>32, <1>33, <1>34, <1>35, <1>36, <1>37, <1>38, <1>39,
  <1>40, <1>41, <1>42, <1>43, <1>44
  DEF Next, Open, Release, CloseSession, Watch, Close

\* The first caller of close takes every claim into its account.
LEMMA CloseAccounts ==
  ASSUME TypeOK, Shape, ClaimIsKept, Cleanups, OpenUnclean, OpeningUnderWay, CleaningUnderWay, ~closed,
         NEW k \in Closers, CloseBegins(k), NEW s \in Callers
  PROVE  AccountOf(s)'
<1>1. UNCHANGED <<pc, worker, closing, outcome, victim>>
  BY DEF CloseBegins, session, watcher, call
<1>2. drained' = Live /\ awaited' = UnderWay
  BY DEF CloseBegins
<1>3. CASE ~Claims(s)
  <2>1. Over(s)
    BY <1>3 DEF Claims, Owns, Over, Cleanups, Shape, Watchers, TypeOK
  <2> QED BY <1>1, <2>1 DEF Over, AccountOf
<1>4. CASE Claims(s)
  <2>1. Kept(s) /\ root[s] \in Roots
    BY <1>4 DEF ClaimIsKept, TypeOK
  <2>2. CASE sessions_by_root[root[s]] = s
    <3>1. s \in Live
      BY <2>1, <2>2, CallerAssumption DEF Live
    <3> QED BY <1>2, <3>1 DEF AccountOf
  <2>3. CASE transitions_by_root[root[s]] = <<s, "open">>
    <3>1. <<s, "open">> \in UnderWay
      BY <2>1, <2>3, TransitionAssumption DEF UnderWay, Transitions, Reasons
    <3>2. outcome[<<s, "open">>] = "pending"
      BY <2>1, <2>3 DEF OpeningUnderWay
    <3> QED BY <1>1, <1>2, <3>1, <3>2 DEF AccountOf, Awaits
  <2>4. ASSUME NEW c \in Callers, transitions_by_root[root[s]] = <<c, "release">>, victim[c] = s
        PROVE  AccountOf(s)'
    <3>1. <<c, "release">> \in UnderWay
      BY <2>1, <2>4, TransitionAssumption DEF UnderWay, Transitions, Reasons
    <3>2. outcome[<<c, "release">>] \in {"pending", "unclean"}
      BY <2>1, <2>4 DEF CleaningUnderWay
    <3> QED BY <1>1, <1>2, <2>4, <3>1, <3>2 DEF AccountOf, Awaits
  <2> QED BY <2>1, <2>2, <2>3, <2>4 DEF Kept
<1> QED BY <1>3, <1>4

LEMMA NextOrder == TypeOK /\ Shape /\ Order /\ [Next]_vars => Order'
<1> SUFFICES ASSUME TypeOK, Shape, Order, [Next]_vars PROVE Order'
  OBVIOUS
<1> USE DEF Order, Shape
<1>1. Cleanups'
  BY NextCleanups
<1>2. OpenUnclean'
  BY NextOpenUnclean
<1>3. OpeningUnderWay'
  BY NextOpening
<1>4. CleaningUnderWay'
  BY NextCleaning
<1>5. OneCloser'
  BY NextOneCloser
<1>6. AwaitedOpeners'
  BY NextAwaited
<1> QED BY <1>1, <1>2, <1>3, <1>4, <1>5, <1>6

LEMMA NextAccounts ==
  TypeOK /\ Shape /\ ClaimIsKept /\ Order /\ Accounts /\ [Next]_vars => Accounts'
<1> SUFFICES ASSUME TypeOK, Shape, ClaimIsKept, Order, Accounts, [Next]_vars PROVE Accounts'
  OBVIOUS
<1>1. ASSUME closed, NEW s \in Callers, Over(s) PROVE Over(s)'
  BY <1>1, NextOver DEF Shape
<1>2. ASSUME closed, NEW s \in Callers PROVE AccountOf(s)'
  BY <1>1, <1>2, NextAccount DEF Shape, Order, Accounts
<1>3. ASSUME ~closed, closed', NEW s \in Callers PROVE AccountOf(s)'
  <2>1. PICK k \in Closers : CloseBegins(k) \/ CloseSettles(k)
    BY <1>3, ShutdownFrame
  <2>2. CloseBegins(k)
    BY <1>3, <2>1 DEF CloseSettles
  <2> QED BY <1>3, <2>2, CloseAccounts DEF Order
<1>4. ASSUME close_transition' = "ok", NEW s \in Callers PROVE Over(s)'
  <2>1. CASE close_transition = "ok"
    <3>1. closed
      BY <2>1 DEF Order, OneCloser
    <3> QED BY <1>1, <2>1, <3>1 DEF Accounts
  <2>2. CASE close_transition # "ok"
    <3>1. PICK k \in Closers : CloseBegins(k) \/ CloseSettles(k)
      BY <1>4, <2>2, ShutdownFrame
    <3>2. CloseSettles(k)
      BY <1>4, <3>1 DEF CloseBegins
    <3>3. closed /\ close_pc[k] = "drain" /\ \A m \in Closers : close_pc[m] # "close"
      BY <3>2 DEF CloseSettles, Order, OneCloser
    <3>4. drained = {} /\ ~failure /\ \A t \in awaited : outcome[t] \notin {"pending", "unclean"}
      BY <1>4, <3>2 DEF CloseSettles
    <3>5. Over(s)
      BY <3>3, <3>4 DEF Accounts, AccountOf, Awaits
    <3> QED BY <1>1, <3>3, <3>5
  <2> QED BY <2>1, <2>2
<1> QED BY <1>2, <1>3, <1>4 DEF Accounts

\* CloseLeavesNothing, for every number of callers, closers and roots: the first
\* caller of close returns without an error only when each session it found was
\* closed by it, or by the opener or the releaser whose transition it waited for,
\* and the cleanup of none of them failed.
THEOREM ShutdownIsComplete == Spec => []CloseLeavesNothing
<1>1. TypeOK /\ Shape /\ Accounts => CloseLeavesNothing
  BY DEF TypeOK, Shape, Watchers, Accounts, Over, CloseLeavesNothing, Owns
<1>2. Init => ClaimIsKept /\ Order /\ Accounts
  BY InitBooks, CallerAssumption, TransitionAssumption DEF Init, ClaimIsKept, Claims, Owns
<1> QED
  BY <1>1, <1>2, TypeCorrect, ShapeHolds, NextClaimIsKept, NextOrder, NextAccounts, PTL
  DEF Spec, Safety
=============================================================================

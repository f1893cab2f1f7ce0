---------------------------- MODULE DaemonProofs -----------------------------
(* Theorems about Daemon, for any branches, advisories, versions, jobs and    *)
(* limits.                                                                    *)
EXTENDS Daemon, TLAPS

\* What a job may do next is a status again.
LEMMA FollowType ==
  ASSUME NEW s \in Job!Statuses PROVE Job!Follow(s) \subseteq Job!Statuses
<1>1. Job!Orderly[s] \subseteq Job!Statuses
  BY DEF Job!Orderly, Job!Statuses, Job!Rows
<1> QED
  BY <1>1 DEF Job!Follow, Job!Statuses

\* A scan speaks of known versions only.
LEMMA ScanType ==
  ASSUME TypeOK PROVE ToProcess \subseteq Known /\ (Scan => scanned' \subseteq Known)
BY DEF TypeOK, ToProcess, Scan, Known, Versions

\* Every variable keeps its type; the failures stay below the limit.
THEOREM DaemonTypes == Spec => []TypeOK
<1> USE DEF TypeOK, Known, Versions, Investigators, AtWork, Open, Job!Statuses, Job!Rows
<1>1. Init => TypeOK
  BY BoundsAssumption, VersionAssumption DEF Init
<1>2. TypeOK /\ [Next]_vars => TypeOK'
  <2> SUFFICES ASSUME TypeOK, [Next]_vars PROVE TypeOK'
    OBVIOUS
  <2> USE BoundsAssumption, VersionAssumption, JobAssumption
      DEF Goto, Fails, vars, jobVars, osvVars, obsVars, tickVars
  <2>1. ASSUME NEW i \in OsvJobs, OsvLock(i) PROVE TypeOK'
    BY <2>1 DEF OsvLock
  <2>2. ASSUME NEW i \in OsvJobs, OsvEnd(i) PROVE TypeOK'
    BY <2>2 DEF OsvEnd
  <2>3. ASSUME NEW i \in OsvJobs, NEW x \in todo[i], OsvBegin(i, x) PROVE TypeOK'
    BY <2>3 DEF OsvBegin, BeginOn, Mark
  <2>4. ASSUME NEW i \in OsvJobs, NEW good \in BOOLEAN, OsvResult(i, good) PROVE TypeOK'
    BY <2>4 DEF OsvResult, EndOn, Result, Mark
  <2>5. ASSUME NEW b \in Branches, MineMoves(b) PROVE TypeOK'
    <3>1. \E s \in Job!Statuses : mine' = [mine EXCEPT ![b] = s]
      BY <2>5, FollowType DEF MineMoves
    <3> QED
      BY <2>5, <3>1 DEF MineMoves
  <2>6. ASSUME NEW b \in Branches, OtherMoves(b) PROVE TypeOK'
    BY <2>6 DEF OtherMoves
  <2>7. ASSUME NEW b \in Branches, CreateSync(b) PROVE TypeOK'
    BY <2>7 DEF CreateSync
  <2>8. ASSUME NEW b \in Branches, PollSync(b) PROVE TypeOK'
    BY <2>8 DEF PollSync
  <2>9. ASSUME NEW x \in todo[Direct], DirectBegin(x) PROVE TypeOK'
    BY <2>9 DEF DirectBegin, BeginOn, Mark
  <2>10. ASSUME NEW good \in BOOLEAN, DirectResult(good) PROVE TypeOK'
    BY <2>10 DEF DirectResult, EndOn, Result, Mark
  <2>11. ASSUME NEW a \in Advisories, Publish(a) PROVE TypeOK'
    BY <2>11 DEF Publish
  <2>12. CASE ServiceStarts
    BY <2>12 DEF ServiceStarts
  <2>13. CASE ServiceStops
    BY <2>13 DEF ServiceStops
  <2>14. CASE Wake
    BY <2>14 DEF Wake
  <2>15. CASE LookForSocket
    BY <2>15 DEF LookForSocket
  <2>16. CASE LookForDirectory
    BY <2>16 DEF LookForDirectory
  <2>17. CASE AskAdvisories
    <3>1. CASE Scan /\ found' = ToProcess /\ pc' = "create_osv"
      BY <2>17, <3>1, ScanType DEF AskAdvisories
    <3>2. CASE Fails
      BY <2>17, <3>2 DEF AskAdvisories
    <3> QED
      BY <2>17, <3>1, <3>2 DEF AskAdvisories
  <2>18. CASE CreateOsv
    BY <2>18 DEF CreateOsv
  <2>19. CASE PollOsv
    <3>1. passes' \in 0..MaxPasses
      BY <2>19 DEF PollOsv, WaitAgain
    <3>2. pc' \in {"sync_all", "wait_osv", "failed"}
      BY <2>19 DEF PollOsv
    <3> QED
      BY <2>19, <3>1, <3>2 DEF PollOsv
  <2>20. CASE AskSync
    BY <2>20 DEF AskSync
  <2>21. CASE PassEnds
    <3>1. passes' \in 0..MaxPasses
      BY <2>21 DEF PassEnds, WaitAgain
    <3>2. pc' \in {"wait_sync", "ok", "failed"}
      BY <2>21 DEF PassEnds
    <3> QED
      BY <2>21, <3>1, <3>2 DEF PassEnds
  <2>22. CASE DirectScan
    <3>1. CASE Fails /\ UNCHANGED todo
      BY <2>22, <3>1 DEF DirectScan
    <3>2. CASE Scan /\ pc' = "direct" /\ todo' = [todo EXCEPT ![Direct] = ToProcess]
      BY <2>22, <3>2, ScanType DEF DirectScan
    <3> QED
      BY <2>22, <3>1, <3>2 DEF DirectScan
  <2>23. CASE DirectEnd
    BY <2>23 DEF DirectEnd
  <2>24. CASE DirectSync
    BY <2>24 DEF DirectSync
  <2>25. CASE EndTick
    BY <2>25 DEF EndTick, LeaveTick
  <2>26. CASE DaemonDies
    BY <2>26 DEF DaemonDies, LeaveTick
  <2>27. CASE Supervise
    BY <2>27 DEF Supervise
  <2>28. CASE UNCHANGED vars
    BY <2>28 DEF vars
  <2> QED
    BY <2>1, <2>2, <2>3, <2>4, <2>5, <2>6, <2>7, <2>8, <2>9, <2>10, <2>11, <2>12, <2>13, <2>14, <2>15, <2>16, <2>17, <2>18, <2>19, <2>20, <2>21, <2>22, <2>23, <2>24, <2>25, <2>26, <2>27, <2>28
       DEF Next, TickStep, ServiceStep
<1> QED
  BY <1>1, <1>2, PTL DEF Spec
-----------------------------------------------------------------------------
\* PollInv: the pass has read a row as completed only if its branch was synced.
LEMMA PollInductive == TypeOK /\ PollInv /\ [Next]_vars => PollInv'
<1> SUFFICES ASSUME TypeOK, PollInv, [Next]_vars PROVE PollInv'
  OBVIOUS
<1> USE BranchAssumption
    DEF PollInv, OkMeansSynced, TypeOK, Goto, Fails, jobVars, tickVars, Job!Statuses, Job!Rows
<1>1. ASSUME NEW i \in OsvJobs, OsvLock(i) PROVE PollInv'
  BY <1>1 DEF OsvLock
<1>2. ASSUME NEW i \in OsvJobs, OsvEnd(i) PROVE PollInv'
  BY <1>2 DEF OsvEnd
<1>3. ASSUME NEW i \in OsvJobs, NEW x \in todo[i], OsvBegin(i, x) PROVE PollInv'
  BY <1>3 DEF OsvBegin, BeginOn, Mark
<1>4. ASSUME NEW i \in OsvJobs, NEW good \in BOOLEAN, OsvResult(i, good) PROVE PollInv'
  BY <1>4 DEF OsvResult, EndOn, Result, Mark
<1>5. ASSUME NEW b \in Branches, MineMoves(b) PROVE PollInv'
  BY <1>5 DEF MineMoves
<1>6. ASSUME NEW b \in Branches, OtherMoves(b) PROVE PollInv'
  BY <1>6 DEF OtherMoves
<1>7. ASSUME NEW b \in Branches, CreateSync(b) PROVE PollInv'
  BY <1>7 DEF CreateSync
<1>8. ASSUME NEW b \in Branches, PollSync(b) PROVE PollInv'
  BY <1>8 DEF PollSync
<1>9. ASSUME NEW x \in todo[Direct], DirectBegin(x) PROVE PollInv'
  BY <1>9 DEF DirectBegin, BeginOn, Mark
<1>10. ASSUME NEW good \in BOOLEAN, DirectResult(good) PROVE PollInv'
  BY <1>10 DEF DirectResult, EndOn, Result, Mark
<1>11. ASSUME NEW a \in Advisories, Publish(a) PROVE PollInv'
  BY <1>11 DEF Publish
<1>12. CASE ServiceStarts
  BY <1>12 DEF ServiceStarts
<1>13. CASE ServiceStops
  BY <1>13 DEF ServiceStops
<1>14. CASE Wake
  BY <1>14 DEF Wake
<1>15. CASE LookForSocket
  BY <1>15 DEF LookForSocket
<1>16. CASE LookForDirectory
  BY <1>16 DEF LookForDirectory
<1>17. CASE AskAdvisories
  BY <1>17 DEF AskAdvisories, Scan, ToProcess
<1>18. CASE CreateOsv
  BY <1>18 DEF CreateOsv
<1>19. CASE PollOsv
  BY <1>19 DEF PollOsv, WaitAgain
<1>20. CASE AskSync
  BY <1>20 DEF AskSync
<1>21. CASE PassEnds
  BY <1>21 DEF PassEnds, WaitAgain
<1>22. CASE DirectScan
  BY <1>22 DEF DirectScan, Scan, ToProcess
<1>23. CASE DirectEnd
  BY <1>23 DEF DirectEnd
<1>24. CASE DirectSync
  BY <1>24 DEF DirectSync
<1>25. CASE EndTick
  BY <1>25 DEF EndTick, LeaveTick
<1>26. CASE DaemonDies
  BY <1>26 DEF DaemonDies, LeaveTick
<1>27. CASE Supervise
  BY <1>27 DEF Supervise
<1>28. CASE UNCHANGED vars
  BY <1>28 DEF vars
<1> QED
  BY <1>1, <1>2, <1>3, <1>4, <1>5, <1>6, <1>7, <1>8, <1>9, <1>10, <1>11, <1>12, <1>13, <1>14, <1>15, <1>16, <1>17, <1>18, <1>19, <1>20, <1>21, <1>22, <1>23, <1>24, <1>25, <1>26, <1>27, <1>28
     DEF Next, TickStep, ServiceStep

\* A tick is good only when every branch was synced in it, whatever the admin
\* and the restarts of the service do to the jobs it waits for.
THEOREM GoodTickSynced == Spec => []OkMeansSynced
<1>1. Init => PollInv
  BY DEF Init, PollInv, OkMeansSynced
<1>2. PollInv => OkMeansSynced
  BY DEF PollInv
<1> QED
  BY <1>1, <1>2, PollInductive, DaemonTypes, PTL DEF Spec

-----------------------------------------------------------------------------
\* What a scan leaves aside was investigated.
LEMMA ScanSplits ==
  ASSUME TypeOK, CacheIsSound, Scan PROVE scanned' \subseteq investigated \cup ToProcess
BY DEF TypeOK, CacheIsSound, Scan, ToProcess, NeedsProcessing

\* ScanInv: what the scan has seen is investigated or in the hands of somebody
\* the tick waits for.
LEMMA ScanInductive == TypeOK /\ ScanInv /\ [Next]_vars => ScanInv'
<1> SUFFICES ASSUME TypeOK, ScanInv, [Next]_vars PROVE ScanInv'
  OBVIOUS
<1> USE JobAssumption
    DEF ScanInv, CacheIsSound, OneAtATime, ScanIsTracked, InHands, SyncPcs, AtWork, Investigators,
        Known, Versions, TypeOK, Goto, Fails, jobVars, osvVars, obsVars, tickVars
<1>1. ASSUME NEW i \in OsvJobs, OsvLock(i) PROVE ScanInv'
  BY <1>1 DEF OsvLock
<1>2. ASSUME NEW i \in OsvJobs, OsvEnd(i) PROVE ScanInv'
  BY <1>2 DEF OsvEnd
<1>3. ASSUME NEW i \in OsvJobs, NEW x \in todo[i], OsvBegin(i, x) PROVE ScanInv'
  BY <1>3 DEF OsvBegin, BeginOn, Mark
<1>4. ASSUME NEW i \in OsvJobs, NEW good \in BOOLEAN, OsvResult(i, good) PROVE ScanInv'
  BY <1>4 DEF OsvResult, EndOn, Result, Mark
<1>5. ASSUME NEW b \in Branches, MineMoves(b) PROVE ScanInv'
  BY <1>5 DEF MineMoves
<1>6. ASSUME NEW b \in Branches, OtherMoves(b) PROVE ScanInv'
  BY <1>6 DEF OtherMoves
<1>7. ASSUME NEW b \in Branches, CreateSync(b) PROVE ScanInv'
  BY <1>7 DEF CreateSync
<1>8. ASSUME NEW b \in Branches, PollSync(b) PROVE ScanInv'
  BY <1>8 DEF PollSync
<1>9. ASSUME NEW x \in todo[Direct], DirectBegin(x) PROVE ScanInv'
  BY <1>9 DEF DirectBegin, BeginOn, Mark
<1>10. ASSUME NEW good \in BOOLEAN, DirectResult(good) PROVE ScanInv'
  BY <1>10 DEF DirectResult, EndOn, Result, Mark
<1>11. ASSUME NEW a \in Advisories, Publish(a) PROVE ScanInv'
  BY <1>11 DEF Publish
<1>12. CASE ServiceStarts
  BY <1>12 DEF ServiceStarts
<1>13. CASE ServiceStops
  BY <1>13 DEF ServiceStops
<1>14. CASE Wake
  BY <1>14 DEF Wake
<1>15. CASE LookForSocket
  BY <1>15 DEF LookForSocket
<1>16. CASE LookForDirectory
  BY <1>16 DEF LookForDirectory
<1>17. CASE AskAdvisories
  BY <1>17, ScanSplits DEF AskAdvisories
<1>18. CASE CreateOsv
  BY <1>18 DEF CreateOsv
<1>19. CASE PollOsv
  BY <1>19 DEF PollOsv, WaitAgain
<1>20. CASE AskSync
  BY <1>20 DEF AskSync
<1>21. CASE PassEnds
  BY <1>21 DEF PassEnds, WaitAgain
<1>22. CASE DirectScan
  BY <1>22, ScanSplits DEF DirectScan
<1>23. CASE DirectEnd
  BY <1>23 DEF DirectEnd
<1>24. CASE DirectSync
  BY <1>24 DEF DirectSync
<1>25. CASE EndTick
  BY <1>25 DEF EndTick, LeaveTick
<1>26. CASE DaemonDies
  BY <1>26 DEF DaemonDies, LeaveTick
<1>27. CASE Supervise
  BY <1>27 DEF Supervise
<1>28. CASE UNCHANGED vars
  BY <1>28 DEF vars
<1> QED
  BY <1>1, <1>2, <1>3, <1>4, <1>5, <1>6, <1>7, <1>8, <1>9, <1>10, <1>11, <1>12, <1>13, <1>14, <1>15, <1>16, <1>17, <1>18, <1>19, <1>20, <1>21, <1>22, <1>23, <1>24, <1>25, <1>26, <1>27, <1>28
     DEF Next, TickStep, ServiceStep

\* A version is skipped only when it was investigated without error.
THEOREM SkippedIsInvestigated == Spec => []CacheIsSound
<1>1. Init => ScanInv
  BY JobAssumption DEF Init, ScanInv, CacheIsSound, OneAtATime, ScanIsTracked, SyncPcs, Investigators
<1>2. ScanInv => CacheIsSound
  BY DEF ScanInv
<1> QED
  BY <1>1, <1>2, ScanInductive, DaemonTypes, PTL DEF Spec

\* No tick syncs before what it has seen is investigated.
THEOREM InvestigatedFirst == Spec => []AdvisoriesFirst
<1>1. Init => ScanInv
  BY JobAssumption DEF Init, ScanInv, CacheIsSound, OneAtATime, ScanIsTracked, SyncPcs, Investigators
<1>2. ScanInv => AdvisoriesFirst
  BY DEF ScanInv, ScanIsTracked, SyncPcs, AdvisoriesFirst
<1> QED
  BY <1>1, <1>2, ScanInductive, DaemonTypes, PTL DEF Spec
=============================================================================

------------------------------- MODULE Daemon --------------------------------
(***************************************************************************)
(* `termite daemon`: one tick after the other.  With the service running,  *)
(* a tick asks it over the Unix socket to investigate new OSV advisories,  *)
(* waits for that job, asks for a sync of every branch and waits for those *)
(* jobs.  Without a service it does both itself.  Too many failed ticks in *)
(* a row end the daemon, for its supervisor to start it again.             *)
(*                                                                         *)
(* The service comes and goes, the admin starts and resolves jobs, OSV     *)
(* publishes new versions, and investigations outlive the ticks that asked *)
(* for them.  A job is what JobStatus shows of it.  An advisory stands for *)
(* a group of aliases; repository_lock is modelled between investigations. *)
(***************************************************************************)
EXTENDS Naturals

CONSTANTS Branches,
          First,           \* the branch that investigations are filed under
          Advisories,
          MaxVersion,      \* versions of an advisory (`modified`)
          OsvJobs,         \* rows for investigations; an ended one is reused
          NoJob,
          Direct,          \* the daemon, when it investigates itself
          MaxFailures,     \* daemon.max_consecutive_failures
          MaxPasses,       \* polls in the 3600 seconds of wait_managed_jobs
          SecondConflict   \* jobs may meet a second conflict

ASSUME BranchAssumption == First \in Branches
ASSUME BoundsAssumption == MaxFailures \in Nat \ {0} /\ MaxPasses \in Nat \ {0}
ASSUME VersionAssumption == MaxVersion \in Nat
ASSUME JobAssumption == NoJob \notin OsvJobs /\ Direct \notin OsvJobs

VARIABLES
  service,       \* no runtime directory, no socket, a dead socket, or up
  mine,          \* mine[b]: status of the sync job this tick has asked for
  other,         \* branches with any other open sync job
  osv,           \* osv[i]: status of an investigation job
  todo, cur,     \* what a job, or the daemon, has still to investigate; now does
  spoilt,        \* jobs with a failed investigation
  holder,        \* the investigation that holds repository_lock
  obsAt, obsState,   \* osv_advisory_observations: modified and state
  published,     \* published[a]: the newest version at OSV
  investigated,  \* versions that were investigated without error (history)
  pc, failures,
  found,         \* advisories the scan of this tick has to process
  scanned,       \* all it has seen (history)
  await,         \* the investigation job the daemon waits for
  left,          \* branches still to be created, or read in this pass
  seen,          \* the statuses that the pass has read
  passes,
  synced         \* branches synced in this tick (history)

osvVars == <<osv, todo, cur, spoilt, holder>>
jobVars == <<mine, other, osvVars>>
obsVars == <<obsAt, obsState, investigated>>
tickVars == <<failures, found, scanned, await, left, seen, passes>>
vars == <<service, jobVars, obsVars, published, pc, tickVars, synced>>

Versions == 0..MaxVersion
Investigators == OsvJobs \cup {Direct}
Job == INSTANCE JobStatus WITH Jobs <- Branches, status <- mine
Open == {"working", "waiting"}
AtWork == {"queued", "working"}
\* is_terminal_state
Terminal == {"completed", "failed", "waiting"}

Active(b) ==
  \/ mine[b] \in Open \/ b \in other
  \/ b = First /\ \E i \in OsvJobs : osv[i] \in AtWork

Init ==
  /\ service = "absent"
  /\ mine = [b \in Branches |-> "none"] /\ other = {}
  /\ osv = [i \in OsvJobs |-> "none"]
  /\ todo = [i \in Investigators |-> {}] /\ cur = [i \in Investigators |-> {}]
  /\ spoilt = {} /\ holder = NoJob
  /\ obsAt = [a \in Advisories |-> 0] /\ obsState = [a \in Advisories |-> "none"]
  /\ published = [a \in Advisories |-> 0] /\ investigated = {}
  /\ pc \in {"tick", "sleep"} /\ failures = 0
  /\ found = {} /\ scanned = {} /\ await = NoJob
  /\ left = {} /\ seen = {} /\ passes = 0
  /\ synced = {}

Goto(p) == pc' = p

-----------------------------------------------------------------------------
(* The cache of advisories.  Version 0 is an advisory not published yet.     *)

\* Mutant: an investigation that is running, or was cut off, is not repeated.
NeedsFirstLook(a) == published[a] # 0 /\ obsAt[a] # published[a]

\* osv_advisory_needs_processing
NeedsProcessing(a) ==
  published[a] # 0 /\ ~(obsAt[a] = published[a] /\ obsState[a] = "completed")

\* scan_osv_advisories
ToProcess == {<<a, published[a]>> : a \in {x \in Advisories : NeedsProcessing(x)}}
Scan == scanned' = {<<a, published[a]>> : a \in {x \in Advisories : published[x] # 0}}

\* mark_osv_advisory
Mark(x, s) ==
  /\ obsAt' = [obsAt EXCEPT ![x[1]] = x[2]]
  /\ obsState' = [obsState EXCEPT ![x[1]] = s]

\* Mutant: an error of the candidate is not looked at.
ResultIgnoringError(x, good) ==
  /\ Mark(x, "completed")
  /\ investigated' = IF good THEN investigated \cup {x} ELSE investigated

\* The end of investigate_security_signal, for the advisory and its aliases.
Result(x, good) ==
  /\ Mark(x, IF good THEN "completed" ELSE "failed")
  /\ investigated' = IF good THEN investigated \cup {x} ELSE investigated

BeginOn(i, x) ==
  /\ x \in todo[i] /\ cur[i] = {}
  /\ Mark(x, "running")
  /\ todo' = [todo EXCEPT ![i] = @ \ {x}]
  /\ cur' = [cur EXCEPT ![i] = {x}]
  /\ UNCHANGED investigated

EndOn(i, good) ==
  /\ \E x \in cur[i] : Result(x, good)
  /\ cur' = [cur EXCEPT ![i] = {}]

-----------------------------------------------------------------------------
(* The service: execute_osv_advisories, and the other jobs.                  *)

OsvLock(i) ==
  /\ osv[i] = "queued" /\ holder = NoJob
  /\ osv' = [osv EXCEPT ![i] = "working"] /\ holder' = i
  /\ UNCHANGED <<service, mine, other, todo, cur, spoilt, obsVars, published, pc, tickVars, synced>>

OsvBegin(i, x) ==
  /\ holder = i
  /\ BeginOn(i, x)
  /\ UNCHANGED <<service, mine, other, osv, spoilt, holder, published, pc, tickVars, synced>>

\* The advisories of a job are investigated one by one, also after a failure.
OsvResult(i, good) ==
  /\ holder = i
  /\ EndOn(i, good)
  /\ spoilt' = IF good THEN spoilt ELSE spoilt \cup {i}
  /\ UNCHANGED <<service, mine, other, osv, todo, holder, published, pc, tickVars, synced>>

OsvEnd(i) ==
  /\ holder = i /\ todo[i] = {} /\ cur[i] = {}
  /\ osv' = [osv EXCEPT ![i] = IF i \in spoilt THEN "failed" ELSE "completed"]
  /\ holder' = NoJob
  /\ UNCHANGED <<service, mine, other, todo, cur, spoilt, obsVars, published, pc, tickVars, synced>>

\* The job of this tick moves on, with or without the admin.
MineMoves(b) ==
  /\ service = "up"
  /\ mine[b] # "none"
  /\ \E s \in Job!Follow(mine[b]) :
       /\ mine' = [mine EXCEPT ![b] = s]
       /\ synced' = IF s = "completed" THEN synced \cup {b} ELSE synced
  /\ UNCHANGED <<service, other, osvVars, obsVars, published, pc, tickVars>>

\* Other jobs of the branch open, perhaps one that had failed, or are over.
OtherMoves(b) ==
  /\ service = "up"
  /\ \/ other' = other \cup {b}
     \/ other' = other \ {b}
  /\ UNCHANGED <<service, mine, osvVars, obsVars, published, pc, tickVars, synced>>

\* The daemon is inside a request that the service answers.
InRequest == {"create_osv", "creating"}

\* The service stops.  Its socket file stays, unless the directory is removed
\* or the machine starts anew.  What was at work has failed when it is back.
ServiceStops ==
  /\ service = "up"
  /\ service' \in {"absent", "stale"}
  /\ mine' = [b \in Branches |-> IF mine[b] = "working" THEN "failed" ELSE mine[b]]
  /\ other' \in SUBSET other
  /\ osv' = [i \in OsvJobs |-> IF osv[i] \in AtWork THEN "failed" ELSE osv[i]]
  /\ todo' = [i \in Investigators |-> IF i = Direct THEN todo[i] ELSE {}]
  /\ cur' = [i \in Investigators |-> IF i = Direct THEN cur[i] ELSE {}]
  /\ spoilt' = {} /\ holder' = NoJob
  /\ IF pc \in InRequest THEN Goto("failed") ELSE UNCHANGED pc
  /\ UNCHANGED <<obsVars, published, tickVars, synced>>

\* prepare_socket_path makes the directory and removes a dead socket; the new
\* one is bound later.
ServiceStarts ==
  /\ \/ service \in {"absent", "stale"} /\ service' = "down"
     \/ service = "down" /\ service' = "up"
  /\ UNCHANGED <<jobVars, obsVars, published, pc, tickVars, synced>>

Publish(a) ==
  /\ published[a] < MaxVersion
  /\ published' = [published EXCEPT ![a] = @ + 1]
  /\ UNCHANGED <<service, jobVars, obsVars, pc, tickVars, synced>>
-----------------------------------------------------------------------------
(* A tick of the daemon.  Every request may fail, or end in a timeout.       *)

Fails == Goto("failed") /\ UNCHANGED tickVars

Wake ==
  /\ pc = "sleep" /\ Goto("tick")
  /\ UNCHANGED <<service, jobVars, obsVars, published, tickVars, synced>>

\* wait_for_service_socket looks ten times whether the path exists.
LookForSocket ==
  /\ pc = "tick"
  /\ Goto(IF service \in {"stale", "up"} THEN "advisories" ELSE "no_socket")
  /\ UNCHANGED <<service, jobVars, obsVars, published, tickVars, synced>>

\* With its directory there, the service is only late or broken.
LookForDirectory ==
  /\ pc = "no_socket"
  /\ Goto(IF service = "absent" THEN "direct_scan" ELSE "failed")
  /\ UNCHANGED <<service, jobVars, obsVars, published, tickVars, synced>>

AskAdvisories ==
  /\ pc = "advisories"
  /\ \/ service = "up" /\ Scan /\ found' = ToProcess /\ Goto("create_osv")
        /\ UNCHANGED <<failures, await, left, seen, passes>>
     \/ Fails
  /\ UNCHANGED <<service, jobVars, obsVars, published, synced>>

\* start_scheduled_advisories after its scan.  The row is not looked for in
\* other rows: only a sync asks whether the branch is busy.
CreateOsv ==
  /\ pc = "create_osv"
  /\ \/ /\ found = {} /\ Goto("sync_all")
        /\ UNCHANGED <<osvVars, tickVars>>
     \/ /\ found # {}
        /\ \E i \in OsvJobs :
             /\ osv[i] \notin AtWork
             /\ osv' = [osv EXCEPT ![i] = "queued"]
             /\ todo' = [todo EXCEPT ![i] = found]
             /\ spoilt' = spoilt \ {i}
             /\ await' = i
        /\ Goto("wait_osv") \/ Goto("failed")
        /\ found' = {}
        /\ UNCHANGED <<cur, holder, failures, scanned, left, seen, passes>>
     \/ Fails /\ UNCHANGED osvVars
  /\ UNCHANGED <<service, mine, other, obsVars, published, synced>>

\* Mutant: an hour is not the end of the wait.
WaitAgainForever ==
  passes' = IF passes < MaxPasses THEN passes + 1 ELSE passes

WaitAgain == passes < MaxPasses /\ passes' = passes + 1

\* wait_managed_jobs for the one investigation.
PollOsv ==
  /\ pc = "wait_osv"
  /\ \/ /\ service = "up" /\ osv[await] = "completed" /\ Goto("sync_all")
        /\ passes' = 0
        /\ UNCHANGED <<failures, found, scanned, await, left, seen>>
     \/ /\ service = "up" /\ osv[await] \in AtWork
        /\ WaitAgain
        /\ UNCHANGED <<pc, failures, found, scanned, await, left, seen>>
     \/ Fails
  /\ UNCHANGED <<service, jobVars, obsVars, published, synced>>

\* spawn_sync_all first asks for every branch whether it is busy ...
AskSync ==
  /\ pc = "sync_all"
  /\ \/ /\ service = "up" /\ \A b \in Branches : ~Active(b)
        /\ Goto("creating") /\ left' = Branches
        /\ UNCHANGED <<failures, found, scanned, await, seen, passes>>
     \/ Fails
  /\ UNCHANGED <<service, jobVars, obsVars, published, synced>>

\* ... and then creates job by job, which may still be refused.
CreateSync(b) ==
  /\ pc = "creating" /\ b \in left
  /\ \/ /\ ~Active(b)
        /\ mine' = [mine EXCEPT ![b] = "working"]
        /\ left' = IF left = {b} THEN Branches ELSE left \ {b}
        /\ IF left = {b} THEN Goto("wait_sync") \/ Goto("failed") ELSE UNCHANGED pc
        /\ UNCHANGED <<failures, found, scanned, await, seen, passes>>
     \/ Active(b) /\ Fails /\ UNCHANGED mine
  /\ UNCHANGED <<service, other, osvVars, obsVars, published, synced>>

\* wait_managed_jobs reads row by row.
PollSync(b) ==
  /\ pc = "wait_sync" /\ b \in left
  /\ \/ /\ service = "up" /\ mine[b] # "gone"
        /\ left' = left \ {b}
        /\ seen' = seen \cup {mine[b]}
        /\ UNCHANGED <<pc, failures, found, scanned, await, passes>>
     \/ Fails
  /\ UNCHANGED <<service, jobVars, obsVars, published, synced>>

Ended == seen \subseteq Terminal

\* Mutant: that all have ended is enough.
PassEndsUnseen ==
  /\ pc = "wait_sync" /\ left = {}
  /\ \/ Ended /\ Goto("ok") /\ UNCHANGED tickVars
     \/ ~Ended /\ Fails
  /\ UNCHANGED <<service, jobVars, obsVars, published, synced>>

\* The pass is over: all have ended, or the daemon sleeps, or it has waited
\* for an hour.
PassEnds ==
  /\ pc = "wait_sync" /\ left = {}
  /\ \/ Ended /\ Goto(IF seen \subseteq {"completed"} THEN "ok" ELSE "failed")
        /\ UNCHANGED tickVars
     \/ /\ ~Ended /\ WaitAgain
        /\ left' = Branches /\ seen' = {}
        /\ UNCHANGED <<pc, failures, found, scanned, await>>
     \/ ~Ended /\ Fails
  /\ UNCHANGED <<service, jobVars, obsVars, published, synced>>

\* run_direct_advisory_tick: the same without the service; here the first
\* failure ends the tick.
DirectScan ==
  /\ pc = "direct_scan"
  /\ \/ /\ Scan /\ Goto("direct")
        /\ todo' = [todo EXCEPT ![Direct] = ToProcess]
        /\ UNCHANGED <<failures, found, await, left, seen, passes>>
     \/ Fails /\ UNCHANGED todo
  /\ UNCHANGED <<service, mine, other, osv, cur, spoilt, holder, obsVars, published, synced>>

DirectBegin(x) ==
  /\ pc = "direct"
  /\ BeginOn(Direct, x)
  /\ UNCHANGED <<service, mine, other, osv, spoilt, holder, published, pc, tickVars, synced>>

DirectResult(good) ==
  /\ pc = "direct"
  /\ EndOn(Direct, good)
  /\ IF good THEN UNCHANGED pc ELSE Goto("failed")
  /\ UNCHANGED <<service, mine, other, osv, todo, spoilt, holder, published, tickVars, synced>>

DirectEnd ==
  /\ pc = "direct" /\ todo[Direct] = {} /\ cur[Direct] = {}
  /\ Goto("direct_sync")
  /\ UNCHANGED <<service, jobVars, obsVars, published, tickVars, synced>>

\* SyncRunner::run, as CliSync has it.
DirectSync ==
  /\ pc = "direct_sync"
  /\ \/ Goto("ok") /\ synced' = Branches
     \/ Goto("failed") /\ UNCHANGED synced
  /\ UNCHANGED <<service, jobVars, obsVars, published, tickVars>>

\* What is left of a tick when it is over: jobs that nobody waits for.
LeaveTick ==
  /\ other' = other \cup {b \in Branches : mine[b] \in Open}
  /\ mine' = [b \in Branches |-> "none"]
  /\ todo' = [todo EXCEPT ![Direct] = {}] /\ cur' = [cur EXCEPT ![Direct] = {}]
  /\ found' = {} /\ scanned' = {} /\ await' = NoJob /\ synced' = {}
  /\ left' = {} /\ seen' = {} /\ passes' = 0
  /\ UNCHANGED <<service, osv, spoilt, holder, obsVars, published>>

\* run_tick returns, and ensure_failure_limit_not_reached looks at the count.
EndTick ==
  /\ pc \in {"ok", "failed"}
  /\ LET n == IF pc = "ok" THEN 0 ELSE failures + 1
     IN IF n < MaxFailures THEN Goto("sleep") /\ failures' = n
        ELSE Goto("exited") /\ failures' = 0
  /\ LeaveTick

\* The daemon is killed; its supervisor starts it again.
DaemonDies ==
  /\ pc # "exited"
  /\ Goto("exited") /\ failures' = 0
  /\ LeaveTick
Supervise ==
  /\ pc = "exited"
  /\ Goto("tick") \/ Goto("sleep")
  /\ UNCHANGED <<service, jobVars, obsVars, published, tickVars, synced>>

TickStep ==
  \/ Wake \/ LookForSocket \/ LookForDirectory \/ AskAdvisories \/ CreateOsv \/ PollOsv
  \/ AskSync \/ PassEnds \/ \E b \in Branches : CreateSync(b) \/ PollSync(b)
  \/ DirectScan \/ DirectEnd \/ DirectSync \/ EndTick
  \/ \E x \in todo[Direct] : DirectBegin(x)
  \/ \E good \in BOOLEAN : DirectResult(good)

ServiceStep ==
  \/ \E i \in OsvJobs :
       \/ OsvLock(i) \/ OsvEnd(i)
       \/ \E x \in todo[i] : OsvBegin(i, x)
       \/ \E good \in BOOLEAN : OsvResult(i, good)
  \/ \E b \in Branches : MineMoves(b) \/ OtherMoves(b)
  \/ ServiceStarts \/ ServiceStops

Next ==
  TickStep \/ DaemonDies \/ Supervise \/ ServiceStep \/ \E a \in Advisories : Publish(a)

Spec == Init /\ [][Next]_vars

\* The daemon's requests have timeouts, and its loop no other wait.
FairSpec == Spec /\ WF_vars(TickStep)

-----------------------------------------------------------------------------
Known == Advisories \X Versions

TypeOK ==
  /\ service \in {"absent", "down", "stale", "up"}
  /\ mine \in [Branches -> Job!Statuses]
  /\ other \subseteq Branches
  /\ osv \in [OsvJobs -> {"none", "completed", "failed"} \cup AtWork]
  /\ todo \in [Investigators -> SUBSET Known] /\ cur \in [Investigators -> SUBSET Known]
  /\ spoilt \subseteq OsvJobs /\ holder \in OsvJobs \cup {NoJob}
  /\ obsAt \in [Advisories -> Versions] /\ published \in [Advisories -> Versions]
  /\ obsState \in [Advisories -> {"none", "running", "failed", "completed"}]
  /\ investigated \subseteq Known /\ found \subseteq Known /\ scanned \subseteq Known
  /\ pc \in {"sleep", "tick", "no_socket", "advisories", "create_osv", "wait_osv", "sync_all",
             "creating", "wait_sync", "direct_scan", "direct", "direct_sync", "ok", "failed",
             "exited"}
  /\ failures \in 0..MaxFailures - 1
  /\ await \in OsvJobs \cup {NoJob}
  /\ left \subseteq Branches /\ seen \subseteq Job!Statuses
  /\ passes \in 0..MaxPasses /\ synced \subseteq Branches

\* "New advisories are investigated first, only then goes the ordinary sync
\* on" (README): a tick that syncs has every version it has seen investigated,
\* whatever earlier jobs, restarts and kills have left in the cache.
AdvisoriesFirst ==
  pc \in {"creating", "wait_sync", "direct_sync", "ok"} => scanned \subseteq investigated

\* A tick counts as good, and clears the failures, only when every branch has
\* been synced in it, though the rows are read one after the other.
OkMeansSynced == pc = "ok" => synced = Branches

\* A version is skipped by later scans only when it was investigated without
\* error, with the service and the daemon both writing the cache.
CacheIsSound ==
  \A a \in Advisories : obsState[a] = "completed" => <<a, obsAt[a]>> \in investigated

\* "So that the scheduler does not silently stop for good" (README): the daemon
\* goes on having good ticks or goes on exiting for its supervisor.
NeverSilent == []<>(pc \in {"ok", "exited"})

\* Why: what the scan has seen is investigated, or in the hands of the job the
\* tick waits for, or of the daemon itself, unless that has failed.
SyncPcs == {"sync_all", "creating", "wait_sync", "direct_sync", "ok"}
InHands(i) == scanned \subseteq investigated \cup todo[i] \cup cur[i]
OneAtATime ==
  /\ \A i \in Investigators : \A x, y \in cur[i] : x = y
  /\ holder # NoJob => osv[holder] = "working"
ScanIsTracked ==
  /\ pc = "create_osv" => scanned \subseteq investigated \cup found
  /\ pc = "wait_osv" =>
       /\ await \in OsvJobs
       /\ osv[await] \in AtWork => await \in spoilt \/ InHands(await)
       /\ osv[await] = "completed" => scanned \subseteq investigated
  /\ pc = "direct" => InHands(Direct)
  /\ pc \in SyncPcs => scanned \subseteq investigated
ScanInv == CacheIsSound /\ OneAtATime /\ ScanIsTracked

\* Why: a row is read as completed only after it was completed.
PollInv ==
  /\ \A b \in Branches : mine[b] = "completed" => b \in synced
  /\ pc = "wait_sync" /\ seen \subseteq {"completed"} => Branches \ left \subseteq synced
  /\ OkMeansSynced
=============================================================================

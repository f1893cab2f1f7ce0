-------------------------------- MODULE Watch --------------------------------
(***************************************************************************)
(* One task of the watch: it follows pull requests, stores what   *)
(* it has seen, turns changes into events and has every event assessed.    *)
(* Any number of processes (assistant windows, `watch run-once`) work on   *)
(* the same store.  A due task is claimed for five minutes; a run may take *)
(* longer, as the lease is not renewed, and then another one begins.       *)
(*                                                                         *)
(* Each repository has one pull request of the author.  Time is abstract:  *)
(* a lease or an interval may end at any moment (Elapse).  Tasks that were *)
(* claimed together and wait for each other are a delay at "start".        *)
(***************************************************************************)
EXTENDS Naturals

CONSTANTS Runners, PRs,
          Heads, Marks,    \* a pull request's commit; its checks and reviews
          MaxCloses,       \* how often a pull request is closed, at last for good
          MaxTroubles,     \* failures of GitHub's answers, kills and pauses
          None, Closed

Contents == Heads \X Marks
ASSUME ContentAssumption == None \notin Contents /\ Closed \notin Contents /\ None # Closed
ASSUME BoundAssumption == MaxCloses \in Nat /\ MaxTroubles \in Nat

VARIABLES
  world, closings,     \* the pull requests at GitHub
  active, due,         \* watch_tasks.state and next_run_at <= now
  initialized,         \* watch_meta
  snap,                \* watch_snapshots
  events, assessed,    \* watch_events, watch_assessments
  pc,
  baseline,            \* runners whose scan only stores
  before,              \* before[r]: pull requests with a snapshot at the start
  left,                \* repositories to be listed
  absent,              \* repositories listed without an open pull request
  hand,                \* the pull request at hand, and its content
  news,                \* the event to insert, or {}
  queue,               \* events to assess
  troubles,
  mixed                \* two runs have overlapped (history)

worldVars == <<world, closings>>
taskVars == <<active, due>>
storeVars == <<initialized, snap, events, assessed>>
scanVars == <<baseline, before, left, absent, hand, news, queue>>
vars == <<worldVars, taskVars, storeVars, pc, scanVars, troubles, mixed>>

Discovered(p, c) == <<p, "discovered", <<c[1]>>>>
Changed(p, c) == <<p, "changed", c>>
Gone(p, n) == <<p, "gone", <<n>>>>
Events ==
  {Discovered(p, c) : p \in PRs, c \in Contents} \cup {Changed(p, c) : p \in PRs, c \in Contents}
  \cup {Gone(p, n) : p \in PRs, n \in 1..MaxCloses}

Init ==
  /\ world \in [PRs -> Contents \cup {None}] /\ closings = [p \in PRs |-> 0]
  /\ active = TRUE /\ due = TRUE
  /\ initialized = FALSE /\ snap = [p \in PRs |-> None]
  /\ events = {} /\ assessed = {}
  /\ pc = [r \in Runners |-> "idle"] /\ baseline = {}
  /\ before = [r \in Runners |-> {}] /\ left = [r \in Runners |-> {}]
  /\ absent = [r \in Runners |-> {}] /\ hand = [r \in Runners |-> None]
  /\ news = [r \in Runners |-> {}] /\ queue = [r \in Runners |-> {}]
  /\ troubles = 0 /\ mixed = FALSE

Goto(r, l) == pc' = [pc EXCEPT ![r] = l]
Trouble == troubles < MaxTroubles /\ troubles' = troubles + 1
Busy(r) == pc[r] # "idle"

-----------------------------------------------------------------------------
(* The pull requests, the clock and the owner of the task.                   *)

Change(p) ==
  /\ \/ /\ world[p] = Closed => closings[p] < MaxCloses
        /\ world' \in {[world EXCEPT ![p] = c] : c \in Contents}
        /\ UNCHANGED closings
     \/ /\ world[p] \in Contents /\ closings[p] < MaxCloses
        /\ world' = [world EXCEPT ![p] = Closed]
        /\ closings' = [closings EXCEPT ![p] = @ + 1]
  /\ UNCHANGED <<taskVars, storeVars, pc, scanVars, troubles, mixed>>

Elapse ==
  /\ ~due /\ due' = TRUE
  /\ UNCHANGED <<worldVars, active, storeVars, pc, scanVars, troubles, mixed>>

\* set_task_state, and save_task, which makes the task active and due.
Owner ==
  /\ \/ active' = FALSE /\ Trouble /\ UNCHANGED due
     \/ active' = TRUE /\ UNCHANGED <<due, troubles>>
     \/ active' = TRUE /\ due' = TRUE /\ UNCHANGED troubles
  /\ UNCHANGED <<worldVars, storeVars, pc, scanVars, mixed>>

-----------------------------------------------------------------------------
(* A run of the task: run_due_tasks.                                         *)

\* claim_due_tasks
Claim(r) ==
  /\ pc[r] = "idle" /\ active /\ due
  /\ due' = FALSE
  /\ mixed' = (mixed \/ \E q \in Runners : Busy(q))
  /\ Goto(r, "start")
  /\ UNCHANGED <<worldVars, active, storeVars, scanVars, troubles>>

\* scan_scope asks GitHub for the user and the repositories, then the store.
StartScan(r) ==
  /\ pc[r] = "start"
  /\ \/ /\ Goto(r, "list")
        /\ baseline' = IF initialized THEN baseline ELSE baseline \cup {r}
        /\ before' = [before EXCEPT ![r] = {p \in PRs : snap[p] # None}]
        /\ left' = [left EXCEPT ![r] = PRs] /\ absent' = [absent EXCEPT ![r] = {}]
        /\ UNCHANGED <<hand, news, queue, troubles>>
     \/ Trouble /\ Goto(r, "finish") /\ UNCHANGED scanVars
  /\ UNCHANGED <<worldVars, taskVars, storeVars, mixed>>

\* The open pull requests of a repository; one that cannot be read is skipped.
List(r, p) ==
  /\ pc[r] = "list" /\ p \in left[r]
  /\ left' = [left EXCEPT ![r] = @ \ {p}]
  /\ \/ /\ world[p] \in Contents
        /\ hand' = [hand EXCEPT ![r] = <<p, world[p]>>] /\ Goto(r, "compare")
        /\ UNCHANGED <<absent, troubles>>
     \/ /\ world[p] \notin Contents
        /\ absent' = [absent EXCEPT ![r] = @ \cup {p}]
        /\ UNCHANGED <<pc, hand, troubles>>
     \/ Trouble /\ UNCHANGED <<pc, hand, absent>>
  /\ UNCHANGED <<worldVars, taskVars, storeVars, baseline, before, news, queue, mixed>>

\* Mutant: only a new head is a change.
NewsOfHead(r, p, c) ==
  IF snap[p] # None THEN IF snap[p][1] = c[1] THEN {} ELSE {Changed(p, c)}
  ELSE IF r \in baseline THEN {} ELSE {Discovered(p, c)}

News(r, p, c) ==
  IF snap[p] # None THEN IF snap[p] = c THEN {} ELSE {Changed(p, c)}
  ELSE IF r \in baseline THEN {} ELSE {Discovered(p, c)}

\* Reads the snapshot, and takes its time to fetch evidence of a change.
Compare(r) ==
  /\ pc[r] = "compare"
  /\ LET n == News(r, hand[r][1], hand[r][2])
     IN news' = [news EXCEPT ![r] = n] /\ Goto(r, IF n = {} THEN "store" ELSE "insert")
  /\ UNCHANGED <<worldVars, taskVars, storeVars, baseline, before, left, absent, hand, queue, troubles, mixed>>

\* insert_event: an event with the same fingerprint is ignored.
Insert(r) ==
  /\ pc[r] = "insert"
  /\ events' = events \cup news[r]
  /\ news' = [news EXCEPT ![r] = {}]
  /\ Goto(r, "store")
  /\ UNCHANGED <<worldVars, taskVars, initialized, snap, assessed, baseline, before, left, absent, hand, queue, troubles, mixed>>

\* upsert_snapshot
Store(r) ==
  /\ pc[r] = "store"
  /\ snap' = [snap EXCEPT ![hand[r][1]] = hand[r][2]]
  /\ hand' = [hand EXCEPT ![r] = None]
  /\ Goto(r, "list")
  /\ UNCHANGED <<worldVars, taskVars, initialized, events, assessed, baseline, before, left, absent, news, queue, troubles, mixed>>

\* Mutant: a snapshot is deleted only with a new event.
LifecycleOnce(r, p) ==
  /\ pc[r] = "list" /\ left[r] = {} /\ p \in before[r] \cap absent[r]
  /\ before' = [before EXCEPT ![r] = @ \ {p}]
  /\ \/ /\ world[p] = Closed
        /\ events' = events \cup {Gone(p, closings[p])}
        /\ IF Gone(p, closings[p]) \in events THEN UNCHANGED <<hand, pc>>
           ELSE hand' = [hand EXCEPT ![r] = <<p, Closed>>] /\ Goto(r, "delete")
        /\ UNCHANGED troubles
     \/ world[p] # Closed /\ UNCHANGED <<events, hand, pc, troubles>>
     \/ Trouble /\ UNCHANGED <<events, hand, pc>>
  /\ UNCHANGED <<worldVars, taskVars, initialized, snap, assessed, baseline, left, absent, news, queue, mixed>>

\* What is not listed any more is looked up: an event, if it is closed, and
\* then the snapshot goes; else it is kept.
Lifecycle(r, p) ==
  /\ pc[r] = "list" /\ left[r] = {} /\ p \in before[r] \cap absent[r]
  /\ before' = [before EXCEPT ![r] = @ \ {p}]
  /\ \/ /\ world[p] = Closed
        /\ events' = events \cup {Gone(p, closings[p])}
        /\ hand' = [hand EXCEPT ![r] = <<p, Closed>>] /\ Goto(r, "delete")
        /\ UNCHANGED troubles
     \/ world[p] # Closed /\ UNCHANGED <<events, hand, pc, troubles>>
     \/ Trouble /\ UNCHANGED <<events, hand, pc>>
  /\ UNCHANGED <<worldVars, taskVars, initialized, snap, assessed, baseline, left, absent, news, queue, mixed>>

\* delete_snapshot
Delete(r) ==
  /\ pc[r] = "delete"
  /\ snap' = [snap EXCEPT ![hand[r][1]] = None]
  /\ hand' = [hand EXCEPT ![r] = None]
  /\ Goto(r, "list")
  /\ UNCHANGED <<worldVars, taskVars, initialized, events, assessed, baseline, before, left, absent, news, queue, troubles, mixed>>

\* Mutant: events of pull requests that were not listed are left out.
EndScanOfListed(r) ==
  /\ pc[r] = "list" /\ left[r] = {} /\ before[r] \cap absent[r] = {}
  /\ initialized' = TRUE
  /\ queue' = [queue EXCEPT ![r] = {e \in events \ assessed : e[1] \notin absent[r]}]
  /\ baseline' = baseline \ {r}
  /\ before' = [before EXCEPT ![r] = {}] /\ absent' = [absent EXCEPT ![r] = {}]
  /\ Goto(r, "assess")
  /\ UNCHANGED <<worldVars, taskVars, snap, events, assessed, left, hand, news, troubles, mixed>>

\* mark_initialized, and unassessed_events: all events of the task, also those
\* of runs that did not come to an end.
EndScan(r) ==
  /\ pc[r] = "list" /\ left[r] = {} /\ before[r] \cap absent[r] = {}
  /\ initialized' = TRUE
  /\ queue' = [queue EXCEPT ![r] = events \ assessed]
  /\ baseline' = baseline \ {r}
  /\ before' = [before EXCEPT ![r] = {}] /\ absent' = [absent EXCEPT ![r] = {}]
  /\ Goto(r, "assess")
  /\ UNCHANGED <<worldVars, taskVars, snap, events, assessed, left, hand, news, troubles, mixed>>

\* assess_events: by the LLM or, if it fails, by deterministic_assessment.
Assess(r, e) ==
  /\ pc[r] = "assess" /\ e \in queue[r]
  /\ assessed' = assessed \cup {e}
  /\ queue' = [queue EXCEPT ![r] = @ \ {e}]
  /\ UNCHANGED <<worldVars, taskVars, initialized, snap, events, pc, baseline, before, left, absent, hand, news, troubles, mixed>>

\* finish_task_run, whoever has the claim by now.
Finish(r) ==
  /\ \/ pc[r] = "finish"
     \/ pc[r] = "assess" /\ queue[r] = {}
  /\ due' = FALSE
  /\ Goto(r, "idle")
  /\ UNCHANGED <<worldVars, active, storeVars, scanVars, troubles, mixed>>

\* The process is killed, or a database error ends its round.  (A window that is
\* closed waits for its run.)
Kill(r) ==
  /\ Busy(r) /\ Trouble
  /\ Goto(r, "idle")
  /\ before' = [before EXCEPT ![r] = {}] /\ left' = [left EXCEPT ![r] = {}]
  /\ absent' = [absent EXCEPT ![r] = {}] /\ hand' = [hand EXCEPT ![r] = None]
  /\ news' = [news EXCEPT ![r] = {}] /\ queue' = [queue EXCEPT ![r] = {}]
  /\ baseline' = baseline \ {r}
  /\ UNCHANGED <<worldVars, taskVars, storeVars, mixed>>

RunStep(r) ==
  \/ Claim(r) \/ StartScan(r) \/ Compare(r) \/ Insert(r) \/ Store(r) \/ Delete(r)
  \/ EndScan(r) \/ Finish(r)
  \/ \E p \in PRs : List(r, p) \/ Lifecycle(r, p)
  \/ \E e \in queue[r] : Assess(r, e)

Next ==
  \/ \E r \in Runners : RunStep(r) \/ Kill(r)
  \/ \E p \in PRs : Change(p)
  \/ Elapse \/ Owner

Spec == Init /\ [][Next]_vars

\* Commands and LLM requests have timeouts, the supervisor looks for due tasks
\* every ten seconds, and time goes on.
FairSpec == Spec /\ WF_vars(Elapse) /\ \A r \in Runners : WF_vars(RunStep(r))

-----------------------------------------------------------------------------
TypeOK ==
  /\ world \in [PRs -> Contents \cup {None, Closed}] /\ closings \in [PRs -> 0..MaxCloses]
  /\ \A p \in PRs : world[p] = Closed => closings[p] > 0
  /\ active \in BOOLEAN /\ due \in BOOLEAN /\ initialized \in BOOLEAN /\ mixed \in BOOLEAN
  /\ snap \in [PRs -> Contents \cup {None}]
  /\ events \subseteq Events /\ assessed \subseteq events
  /\ pc \in [Runners -> {"idle", "start", "list", "compare", "insert", "store", "delete",
                         "assess", "finish"}]
  /\ baseline \subseteq Runners
  /\ before \in [Runners -> SUBSET PRs] /\ left \in [Runners -> SUBSET PRs]
  /\ absent \in [Runners -> SUBSET PRs]
  /\ hand \in [Runners -> (PRs \X (Contents \cup {Closed})) \cup {None}]
  /\ news \in [Runners -> SUBSET Events] /\ queue \in [Runners -> SUBSET events]
  /\ troubles \in 0..MaxTroubles
  /\ \A r \in Runners :
       /\ pc[r] \in {"compare", "insert", "store"} => hand[r] \in PRs \X Contents
       /\ pc[r] = "delete" => hand[r] \in PRs \X {Closed}
       /\ pc[r] = "insert" <=> news[r] # {}

\* As long as runs have not overlapped, a stored content is replaced only by
\* one that has an event, through all kills and failures: the store never gets
\* ahead of what the user is told.
ChangesReported ==
  [][~mixed => \A p \in PRs :
       snap[p] # None => snap'[p] \in {None, snap[p]} \/ Changed(p, snap'[p]) \in events]_vars

\* A pull request that stays as it is, in a task that is not paused.
Rests(p) == <>[]active /\ <>[][UNCHANGED world[p]]_vars

\* "State changes enter the assessment queue" (README): every event is assessed
\* in the end, also one whose run was cut off.
EventsAssessed ==
  \A p \in PRs : Rests(p) => <>[](\A e \in events : e[1] = p => e \in assessed)

\* In the end the store has what GitHub has, also when late runs have stored
\* what they had read long ago, or a run was cut off between its event and its
\* snapshot.
Settles ==
  \A p \in PRs : Rests(p) => <>[](snap[p] = IF world[p] \in Contents THEN world[p] ELSE None)

\* Why ChangesReported: a run that is alone stores what it has compared with the
\* snapshot that is still there, and has inserted the event.
Told(r, told) ==
  \/ snap[hand[r][1]] \in {None, hand[r][2]}
  \/ Changed(hand[r][1], hand[r][2]) \in told
StoreInv ==
  ~mixed =>
    /\ \A q, r \in Runners : Busy(q) /\ Busy(r) => q = r
    /\ \A r \in Runners :
         /\ pc[r] = "insert" => Told(r, events \cup news[r])
         /\ pc[r] = "store" => Told(r, events)
=============================================================================

----------------------------- MODULE ServiceJobs -----------------------------
(***************************************************************************)
(* The job engine of `termite serve`.                                      *)
(*                                                                         *)
(* A row of table jobs holds the state of a maintenance job.  HTTP         *)
(* handlers check the row, change it and start a worker thread; the worker *)
(* runs git, the tests and the LLM outside any transaction and changes the *)
(* row again, sometimes by compare-and-set, sometimes whatever the row now *)
(* holds.  A cleanup request deletes old rows in two phases, and the       *)
(* process may stop at any moment: startup then fails the interrupted rows.*)
(*                                                                         *)
(* Data is abstracted to what the properties tell apart.  A conflict is    *)
(* the number of the commit (its layer) a rebase has stopped at, so that   *)
(* options and candidates made for one layer differ from those for the     *)
(* next; a merge has one layer.  0 is NULL in the row, and "no operation   *)
(* in progress" in a worktree.                                             *)
(***************************************************************************)
EXTENDS Naturals

CONSTANTS Jobs,         \* job ids (UUIDs: never used twice)
          Workers,      \* worker threads and the requests they serve
          Branches,     \* branches of the configuration
          NoJob,        \* what a thread without work holds
          NoBranch,     \* what an id without a row holds
          Layers,       \* commits that may conflict: 1 for sync: merge
          AutoResolve   \* branch.auto_resolve.enabled

ASSUME LayersAssumption == Layers \in Nat \ {0}
ASSUME AutoResolveAssumption == AutoResolve \in BOOLEAN
ASSUME SentinelAssumption == NoJob \notin Jobs /\ NoBranch \notin Branches

VARIABLES
  state,     \* state[j]: column state; "unused" and "deleted": no row
  kind,      \* kind[j]: "sync", or "other" for check and protection jobs
  branch,    \* branch[j]: column branch
  recorded,  \* recorded[j]: column worktree_path is not empty
  conf,      \* conf[j]: layer saved in snapshot_json and files_json
  opts,      \* opts[j]: layer the stored options were asked for
  prop,      \* prop[j]: layer the stored candidate was made for
  onDisk,    \* onDisk[j]: the worktree of the job exists
  layer,     \* layer[j]: layer its rebase or merge has stopped at
  tested,    \* tested[j]: its content passed run_tests unchanged since
  untested,  \* jobs whose pushed content had not passed run_tests
  pc,        \* pc[w]: the next step of a worker
  job,       \* job[w]: the job it works on
  seen,      \* seen[w]: the layer it read before a long call
  holder,    \* the worker that holds repository_lock, if any
  doomed,    \* rows selected by the running cleanup request
  cleaning   \* a cleanup request is between its select and its delete

rowVars    == <<state, kind, branch, recorded, conf, opts, prop>>
gitVars    == <<onDisk, layer, tested, untested>>
threadVars == <<pc, job, seen>>
cleanVars  == <<doomed, cleaning>>
vars == <<rowVars, gitVars, threadVars, holder, cleanVars>>

-----------------------------------------------------------------------------
Active == {"queued", "running", "waiting_guidance", "generating_proposal",
           "applying", "test_failed", "waiting_push", "pushing", "abandoning"}
Terminal == {"completed", "failed", "abandoned"}
NoRow == {"unused", "deleted"}
States == Active \cup Terminal \cup NoRow

\* The states in which the job is in somebody's hands, not in the admin's.
Transient == {"queued", "running", "generating_proposal", "applying",
              "pushing", "abandoning"}
Guidable == {"waiting_guidance", "test_failed"}
Abandonable == {"waiting_guidance", "test_failed", "waiting_push", "failed"}

SyncPc == {"sync_begin", "sync_lock", "sync_checkout", "sync_record",
           "sync_git", "sync_autoresolve", "sync_options", "sync_tests",
           "sync_push", "sync_tag", "sync_report", "sync_complete",
           "sync_fail", "sync_failed"}
OtherPc == {"other_begin", "other_lock", "other_work"}
GenPc == {"gen_read", "gen_llm", "gen_end"}
\* Before, and after, an apply worker has written the outcome into the row.
ApplyPc == {"apply_write", "apply_continue", "apply_follow", "apply_offer",
            "apply_tests", "apply_err"}
ApplyTailPc == {"apply_refresh", "apply_llm", "apply_push"}
PushPc == {"push_branch", "push_tag", "push_clean", "push_done"}
AbandonPc == {"abandon_clean", "abandon_done"}
Pcs == {"idle", "refresh_llm"} \cup SyncPc \cup OtherPc \cup GenPc \cup ApplyPc
         \cup ApplyTailPc \cup PushPc \cup AbandonPc

HasRow(j) == state[j] \notin NoRow

\* UPDATE jobs SET state WHERE id = ?: no condition on the state it replaces,
\* and no error when the row is gone.
SetState(j, s) ==
  state' = [state EXCEPT ![j] = IF HasRow(j) THEN s ELSE @]

Spawn(w, p, j, l) ==
  /\ pc[w] = "idle"
  /\ pc' = [pc EXCEPT ![w] = p]
  /\ job' = [job EXCEPT ![w] = j]
  /\ seen' = [seen EXCEPT ![w] = l]
Goto(w, p) ==
  /\ pc' = [pc EXCEPT ![w] = p]
  /\ seen' = [seen EXCEPT ![w] = 0]
  /\ UNCHANGED job
Finish(w) ==
  /\ pc' = [pc EXCEPT ![w] = "idle"]
  /\ job' = [job EXCEPT ![w] = NoJob]
  /\ seen' = [seen EXCEPT ![w] = 0]

\* git worktree remove --force, or remove_dir_all when that fails.
DropTree(j) ==
  /\ onDisk' = [onDisk EXCEPT ![j] = FALSE]
  /\ layer' = [layer EXCEPT ![j] = 0]
  /\ tested' = [tested EXCEPT ![j] = FALSE]
  /\ UNCHANGED untested

\* remove_worktree: does nothing for a row without a worktree path, and may
\* fail and leave the directory.
RemoveWorktree(j) ==
  IF recorded[j] THEN DropTree(j) ELSE UNCHANGED gitVars

Init ==
  /\ state = [j \in Jobs |-> "unused"]
  /\ kind = [j \in Jobs |-> "sync"]
  /\ branch = [j \in Jobs |-> NoBranch]
  /\ recorded = [j \in Jobs |-> FALSE]
  /\ conf = [j \in Jobs |-> 0]
  /\ opts = [j \in Jobs |-> 0]
  /\ prop = [j \in Jobs |-> 0]
  /\ onDisk = [j \in Jobs |-> FALSE]
  /\ layer = [j \in Jobs |-> 0]
  /\ tested = [j \in Jobs |-> FALSE]
  /\ untested = {}
  /\ pc = [w \in Workers |-> "idle"]
  /\ job = [w \in Workers |-> NoJob]
  /\ seen = [w \in Workers |-> 0]
  /\ holder = {}
  /\ doomed = {}
  /\ cleaning = FALSE

-----------------------------------------------------------------------------
(* Sync and background jobs: create_job and the worker it starts.          *)

\* Mutants of create_job whose check of the branch forgets some states.
CreateJobUnless(w, j, k, b, p, busy) ==
  /\ state[j] = "unused"
  /\ k = "sync" => \A i \in Jobs : branch[i] = b => state[i] \notin busy
  /\ state' = [state EXCEPT ![j] = "queued"]
  /\ kind' = [kind EXCEPT ![j] = k]
  /\ branch' = [branch EXCEPT ![j] = b]
  /\ Spawn(w, p, j, 0)
  /\ UNCHANGED <<recorded, conf, opts, prop, gitVars, holder, cleanVars>>
CreateJobIgnoringRunning(w, j, k, b, p) ==
  CreateJobUnless(w, j, k, b, p, Active \ {"running"})
CreateJobIgnoringWaiting(w, j, k, b, p) ==
  CreateJobUnless(w, j, k, b, p, {"queued", "running"})

\* create_job in its IMMEDIATE transaction: a sync is refused while any job,
\* of any kind, is active on the branch; other kinds are always accepted.
CreateJob(w, j, k, b, p) ==
  /\ state[j] = "unused"
  /\ k = "sync" => \A i \in Jobs : branch[i] = b => state[i] \notin Active
  /\ state' = [state EXCEPT ![j] = "queued"]
  /\ kind' = [kind EXCEPT ![j] = k]
  /\ branch' = [branch EXCEPT ![j] = b]
  /\ Spawn(w, p, j, 0)
  /\ UNCHANGED <<recorded, conf, opts, prop, gitVars, holder, cleanVars>>

StartSync(w, j, b) == CreateJob(w, j, "sync", b, "sync_begin")
StartOther(w, j, b) == CreateJob(w, j, "other", b, "other_begin")

\* Both kinds of worker first write "running", then ask for repository_lock.
Begin(w) ==
  /\ \/ pc[w] = "sync_begin" /\ Goto(w, "sync_lock")
     \/ pc[w] = "other_begin" /\ Goto(w, "other_lock")
  /\ SetState(job[w], "running")
  /\ UNCHANGED <<kind, branch, recorded, conf, opts, prop, gitVars, holder,
                 cleanVars>>

AcquireLock(w) ==
  /\ holder = {}
  /\ holder' = {w}
  /\ \/ pc[w] = "sync_lock" /\ Goto(w, "sync_checkout")
     \/ pc[w] = "other_lock" /\ Goto(w, "other_work")
  /\ UNCHANGED <<rowVars, gitVars, cleanVars>>

\* Mutant: the lock is kept by a job that ends.
OtherWorkKeepingLock(w) ==
  /\ pc[w] = "other_work"
  /\ \E s \in {"completed", "failed"} : SetState(job[w], s)
  /\ Finish(w)
  /\ UNCHANGED <<kind, branch, recorded, conf, opts, prop, gitVars, holder,
                 cleanVars>>

\* A check, an investigation or an advisory scan runs under the lock to its end.
OtherWork(w) ==
  /\ pc[w] = "other_work"
  /\ \E s \in {"completed", "failed"} : SetState(job[w], s)
  /\ holder' = {}
  /\ Finish(w)
  /\ UNCHANGED <<kind, branch, recorded, conf, opts, prop, gitVars, cleanVars>>

\* fetch_all and `git worktree add` under the lock, which is then released.
SyncCheckout(w) ==
  /\ pc[w] = "sync_checkout"
  /\ holder' = {}
  /\ \/ /\ ~onDisk[job[w]]
        /\ onDisk' = [onDisk EXCEPT ![job[w]] = TRUE]
        /\ Goto(w, "sync_record")
     \/ Goto(w, "sync_fail") /\ UNCHANGED onDisk
  /\ UNCHANGED <<rowVars, layer, tested, untested, cleanVars>>

\* Mutant: the worktree path never reaches the row.
SyncRecordNothing(w) ==
  /\ pc[w] = "sync_record"
  /\ Goto(w, "sync_git") \/ Goto(w, "sync_fail")
  /\ UNCHANGED <<rowVars, gitVars, holder, cleanVars>>

\* The worktree path reaches the row only now, after two rev-parse calls.
SyncRecord(w) ==
  /\ pc[w] = "sync_record"
  /\ \/ /\ recorded' = [recorded EXCEPT ![job[w]] = TRUE]
        /\ Goto(w, "sync_git")
     \/ Goto(w, "sync_fail") /\ UNCHANGED recorded
  /\ UNCHANGED <<state, kind, branch, conf, opts, prop, gitVars, holder,
                 cleanVars>>

\* The rebase or merge, with continue_autoresolved_sync when git stops
\* without a conflicted file.
SyncGit(w) ==
  LET j == job[w] IN
  /\ pc[w] = "sync_git"
  /\ \/ Goto(w, "sync_tests") /\ UNCHANGED <<state, gitVars>>
     \/ /\ \E g \in 1..Layers : layer' = [layer EXCEPT ![j] = g]
        /\ Goto(w, "sync_autoresolve")
        /\ UNCHANGED <<state, onDisk, tested, untested>>
     \/ /\ SetState(j, "failed")
        /\ RemoveWorktree(j) \/ UNCHANGED gitVars
        /\ Finish(w)
     \/ Goto(w, "sync_fail") /\ UNCHANGED <<state, gitVars>>
  /\ UNCHANGED <<kind, branch, recorded, conf, opts, prop, holder, cleanVars>>

\* try_low_risk_auto_resolve: each round resolves the current layer and may
\* stop at a later one.  Some(true): done.  Some(false): capture again.
\* None or Err: the snapshot taken before the first round is the one saved.
SyncAutoResolve(w) ==
  LET j == job[w]
      Reached == IF AutoResolve THEN layer[j]..Layers ELSE {layer[j]}
      Save(g) == conf' = [conf EXCEPT ![j] = g]
  IN
  /\ pc[w] = "sync_autoresolve"
  /\ \/ /\ AutoResolve
        /\ layer' = [layer EXCEPT ![j] = 0]
        /\ Goto(w, "sync_tests")
        /\ UNCHANGED <<state, conf>>
     \/ /\ AutoResolve
        /\ \E g \in Reached : layer' = [layer EXCEPT ![j] = g] /\ Save(g)
        /\ Goto(w, "sync_options")
        /\ UNCHANGED state
     \/ /\ AutoResolve
        /\ SetState(j, "failed")
        /\ Finish(w)
        /\ UNCHANGED <<conf, layer>>
     \/ /\ \E g \in Reached : layer' = [layer EXCEPT ![j] = g]
        /\ Save(layer[j])
        /\ Goto(w, "sync_options")
        /\ UNCHANGED state
     \/ Goto(w, "sync_fail") /\ UNCHANGED <<state, conf, layer>>
  /\ UNCHANGED <<kind, branch, recorded, opts, prop, onDisk, tested, untested,
                 holder, cleanVars>>

\* The LLM's options for the saved conflict, or none; the job then waits.
SyncOptions(w) ==
  LET j == job[w] IN
  /\ pc[w] = "sync_options"
  /\ \E g \in {0, conf[j]} : opts' = [opts EXCEPT ![j] = g]
  /\ SetState(j, "waiting_guidance")
  /\ Finish(w)
  /\ UNCHANGED <<kind, branch, recorded, conf, prop, gitVars, holder, cleanVars>>

SyncTests(w) ==
  /\ pc[w] = "sync_tests"
  /\ \/ tested' = [tested EXCEPT ![job[w]] = TRUE] /\ Goto(w, "sync_push")
     \/ Goto(w, "sync_fail") /\ UNCHANGED tested
  /\ UNCHANGED <<rowVars, onDisk, layer, untested, holder, cleanVars>>

\* What reaches the fork is the HEAD of the worktree, tested or not.
Publish(j) ==
  /\ onDisk[j]
  /\ untested' = IF tested[j] THEN untested ELSE untested \cup {j}
  /\ UNCHANGED <<onDisk, layer, tested>>

\* push_job up to the branch: pushed, nothing to push (push: none), an error
\* of a job whose head equals the recorded remote head, or another error.
SyncPush(w) ==
  /\ pc[w] = "sync_push"
  /\ \/ Publish(job[w]) /\ Goto(w, "sync_tag") /\ UNCHANGED state
     \/ Goto(w, "sync_report") /\ UNCHANGED <<state, gitVars>>
     \/ /\ SetState(job[w], "waiting_push")
        /\ Finish(w)
        /\ UNCHANGED gitVars
     \/ Goto(w, "sync_fail") /\ UNCHANGED <<state, gitVars>>
  /\ UNCHANGED <<kind, branch, recorded, conf, opts, prop, holder, cleanVars>>

\* Mutant: the worktree is removed although the job will be retried.
SyncTagDroppingTree(w) ==
  /\ pc[w] = "sync_tag"
  /\ \/ Goto(w, "sync_report") /\ UNCHANGED <<state, gitVars>>
     \/ SetState(job[w], "waiting_push") /\ Finish(w) /\ RemoveWorktree(job[w])
  /\ UNCHANGED <<kind, branch, recorded, conf, opts, prop, holder, cleanVars>>

\* ensure_release_tag, with the branch already pushed and recorded.
SyncTag(w) ==
  /\ pc[w] = "sync_tag"
  /\ \/ Goto(w, "sync_report") /\ UNCHANGED state
     \/ SetState(job[w], "waiting_push") /\ Finish(w)
  /\ UNCHANGED <<kind, branch, recorded, conf, opts, prop, gitVars, holder,
                 cleanVars>>

\* build_completed_sync_report, then remove_worktree: either may fail the job.
SyncReport(w) ==
  /\ pc[w] = "sync_report"
  /\ \/ RemoveWorktree(job[w]) /\ Goto(w, "sync_complete")
     \/ Goto(w, "sync_fail") /\ UNCHANGED gitVars
  /\ UNCHANGED <<rowVars, holder, cleanVars>>

SyncComplete(w) ==
  /\ pc[w] = "sync_complete"
  /\ SetState(job[w], "completed")
  /\ Finish(w)
  /\ UNCHANGED <<kind, branch, recorded, conf, opts, prop, gitVars, holder,
                 cleanVars>>

\* execute_sync on Err: cleanup_failed_worktree, whose own error is dropped.
SyncFail(w) ==
  /\ pc[w] = "sync_fail"
  /\ RemoveWorktree(job[w]) \/ UNCHANGED gitVars
  /\ Goto(w, "sync_failed")
  /\ UNCHANGED <<rowVars, holder, cleanVars>>

SyncFailed(w) ==
  /\ pc[w] = "sync_failed"
  /\ SetState(job[w], "failed")
  /\ Finish(w)
  /\ UNCHANGED <<kind, branch, recorded, conf, opts, prop, gitVars, holder,
                 cleanVars>>

SyncStep(w) ==
  \/ SyncCheckout(w) \/ SyncRecord(w) \/ SyncGit(w) \/ SyncAutoResolve(w)
  \/ SyncOptions(w) \/ SyncTests(w) \/ SyncPush(w) \/ SyncTag(w)
  \/ SyncReport(w) \/ SyncComplete(w) \/ SyncFail(w) \/ SyncFailed(w)

-----------------------------------------------------------------------------
(* Guidance: new options, and a candidate for one of them.                 *)

\* add_message: the state is checked and the saved conflict read, then the
\* LLM is asked.
AddMessage(w, j) ==
  /\ state[j] \in Guidable
  /\ conf[j] # 0
  /\ Spawn(w, "refresh_llm", j, conf[j])
  /\ UNCHANGED <<rowVars, gitVars, holder, cleanVars>>

\* Mutant: the answer is stored without looking at the state again.
StoreOptionsAnyState(w) ==
  /\ opts' = [opts EXCEPT ![job[w]] = seen[w]]
  /\ prop' = [prop EXCEPT ![job[w]] = 0]

\* The answer replaces the options and clears the candidate if the state, and
\* nothing else, still allows it.
StoreOptions(w) ==
  /\ state[job[w]] \in Guidable
  /\ opts' = [opts EXCEPT ![job[w]] = seen[w]]
  /\ prop' = [prop EXCEPT ![job[w]] = 0]

RefreshLlm(w) ==
  /\ pc[w] = "refresh_llm"
  /\ StoreOptions(w) \/ UNCHANGED <<opts, prop>>
  /\ Finish(w)
  /\ UNCHANGED <<state, kind, branch, recorded, conf, gitVars, holder, cleanVars>>

\* mark_generating_proposal.
GenerateProposal(w, j) ==
  /\ state[j] \in Guidable
  /\ conf[j] # 0
  /\ opts[j] # 0
  /\ SetState(j, "generating_proposal")
  /\ prop' = [prop EXCEPT ![j] = 0]
  /\ Spawn(w, "gen_read", j, 0)
  /\ UNCHANGED <<kind, branch, recorded, conf, opts, gitVars, holder, cleanVars>>

GenRead(w) ==
  LET j == job[w] IN
  /\ pc[w] = "gen_read"
  /\ IF state[j] = "generating_proposal" /\ opts[j] # 0
       THEN /\ pc' = [pc EXCEPT ![w] = "gen_llm"]
            /\ seen' = [seen EXCEPT ![w] = conf[j]]
            /\ UNCHANGED job
       ELSE Goto(w, "gen_end")
  /\ UNCHANGED <<rowVars, gitVars, holder, cleanVars>>

\* The candidate is stored whatever the state is by now.
GenLlm(w) ==
  /\ pc[w] = "gen_llm"
  /\ \/ prop' = [prop EXCEPT ![job[w]] = seen[w]]
     \/ UNCHANGED prop
  /\ Goto(w, "gen_end")
  /\ UNCHANGED <<state, kind, branch, recorded, conf, opts, gitVars, holder,
                 cleanVars>>

\* Mutant: the generation ends without handing the job back.
GenEndSilently(w) ==
  /\ pc[w] = "gen_end"
  /\ Finish(w)
  /\ UNCHANGED <<rowVars, gitVars, holder, cleanVars>>

GenEnd(w) ==
  /\ pc[w] = "gen_end"
  /\ SetState(job[w], "waiting_guidance")
  /\ Finish(w)
  /\ UNCHANGED <<kind, branch, recorded, conf, opts, prop, gitVars, holder,
                 cleanVars>>

GenStep(w) == GenRead(w) \/ GenLlm(w) \/ GenEnd(w)

-----------------------------------------------------------------------------
(* Applying a candidate: execute_apply.                                    *)

\* Mutant: the state is written without the compare-and-set.
ApplyProposalTwice(w, j) ==
  /\ state[j] \in Guidable \cup {"applying"}
  /\ prop[j] # 0
  /\ SetState(j, "applying")
  /\ Spawn(w, "apply_write", j, 0)
  /\ UNCHANGED <<kind, branch, recorded, conf, opts, prop, gitVars, holder,
                 cleanVars>>

\* mark_applying.
ApplyProposal(w, j) ==
  /\ state[j] \in Guidable
  /\ prop[j] # 0
  /\ SetState(j, "applying")
  /\ Spawn(w, "apply_write", j, 0)
  /\ UNCHANGED <<kind, branch, recorded, conf, opts, prop, gitVars, holder,
                 cleanVars>>

\* The files of the stored candidate are written and staged.
ApplyWrite(w) ==
  LET j == job[w] IN
  /\ pc[w] = "apply_write"
  /\ \/ /\ onDisk[j]
        /\ prop[j] # 0
        /\ tested' = [tested EXCEPT ![j] = FALSE]
        /\ pc' = [pc EXCEPT ![w] = "apply_continue"]
        /\ seen' = [seen EXCEPT ![w] = prop[j]]
        /\ UNCHANGED job
     \/ Goto(w, "apply_err") /\ UNCHANGED tested
  /\ UNCHANGED <<rowVars, onDisk, layer, untested, holder, cleanVars>>

\* `git rebase --continue` when an operation is in progress, `git commit
\* --amend` when not.  The layer stays unresolved if the candidate was for
\* another one.
ApplyContinue(w) ==
  LET j == job[w] IN
  /\ pc[w] = "apply_continue"
  /\ \/ /\ onDisk[j]
        /\ layer' = [layer EXCEPT ![j] = 0]
        /\ tested' = [tested EXCEPT ![j] = FALSE]
        /\ Goto(w, "apply_tests")
        /\ UNCHANGED <<state, prop>>
     \/ /\ onDisk[j]
        /\ layer[j] # 0
        /\ \E g \in 1..Layers :
             /\ g > layer[j] \/ (g = layer[j] /\ seen[w] # g)
             /\ layer' = [layer EXCEPT ![j] = g]
        /\ tested' = [tested EXCEPT ![j] = FALSE]
        /\ Goto(w, "apply_follow")
        /\ UNCHANGED <<state, prop>>
     \/ /\ layer[j] # 0
        /\ SetState(j, "test_failed")
        /\ prop' = [prop EXCEPT ![j] = 0]
        /\ Finish(w)
        /\ UNCHANGED <<layer, tested>>
     \/ Goto(w, "apply_err") /\ UNCHANGED <<state, prop, layer, tested>>
  /\ UNCHANGED <<kind, branch, recorded, conf, opts, onDisk, untested, holder,
                 cleanVars>>

\* try_auto_resolve_followup up to save_conflict: the conflict is captured
\* again whatever the rounds returned.
ApplyFollow(w) ==
  LET j == job[w] IN
  /\ pc[w] = "apply_follow"
  /\ \/ /\ AutoResolve
        /\ layer' = [layer EXCEPT ![j] = 0]
        /\ Goto(w, "apply_tests")
        /\ UNCHANGED conf
     \/ /\ layer[j] # 0
        /\ \E g \in IF AutoResolve THEN layer[j]..Layers ELSE {layer[j]} :
             /\ layer' = [layer EXCEPT ![j] = g]
             /\ conf' = [conf EXCEPT ![j] = g]
        /\ Goto(w, "apply_offer")
     \/ Goto(w, "apply_err") /\ UNCHANGED <<conf, layer>>
  /\ UNCHANGED <<state, kind, branch, recorded, opts, prop, onDisk, tested,
                 untested, holder, cleanVars>>

\* The job is handed back to the admin while this worker still has to ask
\* the LLM for the new conflict's options.
ApplyOffer(w) ==
  LET j == job[w] IN
  /\ pc[w] = "apply_offer"
  /\ SetState(j, "waiting_guidance")
  /\ prop' = [prop EXCEPT ![j] = 0]
  /\ opts' = [opts EXCEPT ![j] = 0]
  /\ Goto(w, "apply_refresh")
  /\ UNCHANGED <<kind, branch, recorded, conf, gitVars, holder, cleanVars>>

\* add_message_and_refresh_options, called by the apply worker.
ApplyRefresh(w) ==
  LET j == job[w] IN
  /\ pc[w] = "apply_refresh"
  /\ IF state[j] \in Guidable
       THEN /\ pc' = [pc EXCEPT ![w] = "apply_llm"]
            /\ seen' = [seen EXCEPT ![w] = conf[j]]
            /\ UNCHANGED job
       ELSE Goto(w, "apply_err")
  /\ UNCHANGED <<rowVars, gitVars, holder, cleanVars>>

ApplyLlm(w) ==
  /\ pc[w] = "apply_llm"
  /\ \/ StoreOptions(w) /\ Finish(w)
     \/ Goto(w, "apply_err") /\ UNCHANGED <<opts, prop>>
  /\ UNCHANGED <<state, kind, branch, recorded, conf, gitVars, holder, cleanVars>>

\* execute_apply on Err: whatever the state has become, it is overwritten.
ApplyErr(w) ==
  /\ pc[w] = "apply_err"
  /\ SetState(job[w], "waiting_guidance")
  /\ Finish(w)
  /\ UNCHANGED <<kind, branch, recorded, conf, opts, prop, gitVars, holder,
                 cleanVars>>

\* Mutant: a candidate that fails the tests still waits for the push.
ApplyTestsIgnored(w) ==
  LET j == job[w] IN
  /\ pc[w] = "apply_tests"
  /\ SetState(j, "waiting_push")
  /\ \/ /\ onDisk[j]
        /\ tested' = [tested EXCEPT ![j] = TRUE]
        /\ Goto(w, "apply_push")
     \/ Finish(w) /\ UNCHANGED tested
  /\ UNCHANGED <<kind, branch, recorded, conf, opts, prop, onDisk, layer,
                 untested, holder, cleanVars>>

ApplyTests(w) ==
  LET j == job[w] IN
  /\ pc[w] = "apply_tests"
  /\ \/ /\ onDisk[j]
        /\ tested' = [tested EXCEPT ![j] = TRUE]
        /\ SetState(j, "waiting_push")
        /\ Goto(w, "apply_push")
     \/ /\ SetState(j, "test_failed")
        /\ Finish(w)
        /\ UNCHANGED tested
  /\ UNCHANGED <<kind, branch, recorded, conf, opts, prop, onDisk, layer,
                 untested, holder, cleanVars>>

-----------------------------------------------------------------------------
(* push_reviewed_job, by the apply worker or by a retry request.           *)

ApplyPush(w) ==
  /\ pc[w] = "apply_push"
  /\ IF state[job[w]] = "waiting_push"
       THEN SetState(job[w], "pushing") /\ Goto(w, "push_branch")
       ELSE Finish(w) /\ UNCHANGED state
  /\ UNCHANGED <<kind, branch, recorded, conf, opts, prop, gitVars, holder,
                 cleanVars>>

ApplyStep(w) ==
  \/ ApplyWrite(w) \/ ApplyContinue(w) \/ ApplyFollow(w) \/ ApplyOffer(w)
  \/ ApplyRefresh(w) \/ ApplyLlm(w) \/ ApplyErr(w) \/ ApplyTests(w)
  \/ ApplyPush(w)

RetryPush(w, j) ==
  /\ state[j] = "waiting_push"
  /\ SetState(j, "pushing")
  /\ Spawn(w, "push_branch", j, 0)
  /\ UNCHANGED <<kind, branch, recorded, conf, opts, prop, gitVars, holder,
                 cleanVars>>

PushBranch(w) ==
  /\ pc[w] = "push_branch"
  /\ \/ Publish(job[w]) /\ Goto(w, "push_tag") /\ UNCHANGED state
     \/ Goto(w, "push_clean") /\ UNCHANGED <<state, gitVars>>
     \/ /\ SetState(job[w], "waiting_push")
        /\ Finish(w)
        /\ UNCHANGED gitVars
  /\ UNCHANGED <<kind, branch, recorded, conf, opts, prop, holder, cleanVars>>

PushTag(w) ==
  /\ pc[w] = "push_tag"
  /\ \/ Goto(w, "push_clean") /\ UNCHANGED state
     \/ SetState(job[w], "waiting_push") /\ Finish(w)
  /\ UNCHANGED <<kind, branch, recorded, conf, opts, prop, gitVars, holder,
                 cleanVars>>

\* A worktree that cannot be removed is only mentioned in the summary.
PushClean(w) ==
  /\ pc[w] = "push_clean"
  /\ RemoveWorktree(job[w]) \/ UNCHANGED gitVars
  /\ Goto(w, "push_done")
  /\ UNCHANGED <<rowVars, holder, cleanVars>>

PushDone(w) ==
  /\ pc[w] = "push_done"
  /\ SetState(job[w], "completed")
  /\ Finish(w)
  /\ UNCHANGED <<kind, branch, recorded, conf, opts, prop, gitVars, holder,
                 cleanVars>>

PushStep(w) == PushBranch(w) \/ PushTag(w) \/ PushClean(w) \/ PushDone(w)

-----------------------------------------------------------------------------
(* Abandoning, cleaning up, restarting.                                    *)

Abandon(w, j) ==
  /\ state[j] \in Abandonable
  /\ SetState(j, "abandoning")
  /\ Spawn(w, "abandon_clean", j, 0)
  /\ UNCHANGED <<kind, branch, recorded, conf, opts, prop, gitVars, holder,
                 cleanVars>>

AbandonClean(w) ==
  LET j == job[w] IN
  /\ pc[w] = "abandon_clean"
  /\ \/ /\ HasRow(j)
        /\ RemoveWorktree(j)
        /\ Goto(w, "abandon_done")
        /\ UNCHANGED state
     \/ SetState(j, "failed") /\ Finish(w) /\ UNCHANGED gitVars
  /\ UNCHANGED <<kind, branch, recorded, conf, opts, prop, holder, cleanVars>>

AbandonDone(w) ==
  /\ pc[w] = "abandon_done"
  /\ SetState(job[w], "abandoned")
  /\ Finish(w)
  /\ UNCHANGED <<kind, branch, recorded, conf, opts, prop, gitVars, holder,
                 cleanVars>>

AbandonStep(w) == AbandonClean(w) \/ AbandonDone(w)

\* cleanup_old_jobs: the rows are selected by state and age.  A worker
\* outlives its last update of the row by less than the cutoff, a day or more.
CleanupSelect ==
  /\ ~cleaning
  /\ \E D \in SUBSET {j \in Jobs : /\ state[j] \in Terminal
                                   /\ \A w \in Workers : job[w] # j} :
       D # {} /\ doomed' = D
  /\ cleaning' = TRUE
  /\ UNCHANGED <<rowVars, gitVars, threadVars, holder>>

\* The worktrees of the selected rows are removed one by one.
CleanupRemove(j) ==
  /\ cleaning
  /\ j \in doomed
  /\ onDisk[j]
  /\ RemoveWorktree(j)
  /\ UNCHANGED <<rowVars, threadVars, holder, cleanVars>>

\* A removal that fails ends the request before anything is deleted.
CleanupAbort ==
  /\ cleaning
  /\ \E j \in doomed : onDisk[j] /\ recorded[j]
  /\ doomed' = {}
  /\ cleaning' = FALSE
  /\ UNCHANGED <<rowVars, gitVars, threadVars, holder>>

\* The rows are deleted by id: their state is not looked at again.
CleanupDelete ==
  LET Reset(f, v) == [j \in Jobs |-> IF j \in doomed THEN v ELSE f[j]] IN
  /\ cleaning
  /\ \A j \in doomed : ~(onDisk[j] /\ recorded[j])
  /\ state' = Reset(state, "deleted")
  /\ kind' = Reset(kind, "sync")
  /\ branch' = Reset(branch, NoBranch)
  /\ recorded' = Reset(recorded, FALSE)
  /\ conf' = Reset(conf, 0)
  /\ opts' = Reset(opts, 0)
  /\ prop' = Reset(prop, 0)
  /\ doomed' = {}
  /\ cleaning' = FALSE
  /\ UNCHANGED <<gitVars, threadVars, holder>>

CleanupStep ==
  \/ CleanupSelect \/ CleanupAbort \/ CleanupDelete
  \/ \E j \in Jobs : CleanupRemove(j)

\* Mutant: the rows that wait for the admin fail too.
RestartFailsAll ==
  /\ \E w \in Workers : pc[w] # "idle"
  /\ state' = [j \in Jobs |-> IF state[j] \in Active THEN "failed" ELSE state[j]]
  /\ pc' = [w \in Workers |-> "idle"]
  /\ job' = [w \in Workers |-> NoJob]
  /\ seen' = [w \in Workers |-> 0]
  /\ holder' = {}
  /\ doomed' = {}
  /\ cleaning' = FALSE
  /\ UNCHANGED <<kind, branch, recorded, conf, opts, prop, gitVars>>

\* The process stops, with every thread; on startup recover_interrupted_jobs
\* fails the rows whose worker is gone.  Worktrees stay as they were.
Restart ==
  /\ \E w \in Workers : pc[w] # "idle"
  /\ state' = [j \in Jobs |-> IF state[j] \in Transient THEN "failed" ELSE state[j]]
  /\ pc' = [w \in Workers |-> "idle"]
  /\ job' = [w \in Workers |-> NoJob]
  /\ seen' = [w \in Workers |-> 0]
  /\ holder' = {}
  /\ doomed' = {}
  /\ cleaning' = FALSE
  /\ UNCHANGED <<kind, branch, recorded, conf, opts, prop, gitVars>>

-----------------------------------------------------------------------------
Request(w) ==
  \E j \in Jobs :
    \/ \E b \in Branches : StartSync(w, j, b) \/ StartOther(w, j, b)
    \/ AddMessage(w, j) \/ GenerateProposal(w, j) \/ ApplyProposal(w, j)
    \/ RetryPush(w, j) \/ Abandon(w, j)

WorkerStep(w) ==
  \/ Begin(w) \/ AcquireLock(w) \/ OtherWork(w) \/ SyncStep(w)
  \/ RefreshLlm(w) \/ GenStep(w) \/ ApplyStep(w) \/ PushStep(w)
  \/ AbandonStep(w)

Next ==
  \/ \E w \in Workers : Request(w) \/ WorkerStep(w)
  \/ CleanupStep
  \/ Restart

Spec == Init /\ [][Next]_vars

\* Commands, tests and LLM requests all have timeouts, so a worker that can
\* take a step takes it.  Nothing obliges the admin, or the process to stop.
FairSpec == Spec /\ \A w \in Workers : WF_vars(WorkerStep(w))

-----------------------------------------------------------------------------
RowsOK ==
  /\ state \in [Jobs -> States]
  /\ kind \in [Jobs -> {"sync", "other"}]
  /\ branch \in [Jobs -> Branches \cup {NoBranch}]
  /\ recorded \in [Jobs -> BOOLEAN]
  /\ conf \in [Jobs -> 0..Layers]
  /\ opts \in [Jobs -> 0..Layers]
  /\ prop \in [Jobs -> 0..Layers]

TreesOK ==
  /\ onDisk \in [Jobs -> BOOLEAN]
  /\ layer \in [Jobs -> 0..Layers]
  /\ tested \in [Jobs -> BOOLEAN]
  /\ untested \subseteq Jobs

\* A busy worker always has a job.
ThreadsOK ==
  /\ pc \in [Workers -> Pcs]
  /\ job \in [Workers -> Jobs \cup {NoJob}]
  /\ seen \in [Workers -> 0..Layers]
  /\ \A w \in Workers : pc[w] # "idle" => job[w] \in Jobs

TypeOK ==
  /\ RowsOK
  /\ TreesOK
  /\ ThreadsOK
  /\ holder \subseteq Workers
  /\ doomed \subseteq Jobs
  /\ cleaning \in BOOLEAN

-----------------------------------------------------------------------------
(* Properties that hold for any number of layers.                          *)

\* Two sync workers never prepare, rebase, test and push the same branch at
\* once: create_job refuses the branch while the first one runs.
SyncPipelineExclusive ==
  \A v, w \in Workers :
    v # w /\ pc[v] \in SyncPc /\ pc[w] \in SyncPc => branch[job[v]] # branch[job[w]]

\* The worker that will take the job out of each transient state.
Drives(w, j) ==
  /\ job[w] = j
  /\ \/ state[j] = "queued" /\ pc[w] \in {"sync_begin", "other_begin"}
     \/ state[j] = "running" /\ pc[w] \in SyncPc \cup OtherPc
     \/ state[j] = "generating_proposal" /\ pc[w] \in GenPc
     \/ state[j] = "applying" /\ pc[w] \in ApplyPc
     \/ state[j] = "pushing" /\ pc[w] \in PushPc
     \/ state[j] = "abandoning" /\ pc[w] \in AbandonPc

\* No job is left in a transient state, which no request can move, without a
\* worker that will end it: the branch would be blocked until a restart.
TransientHasWorker ==
  \A j \in Jobs : state[j] \in Transient => \E w \in Workers : Drives(w, j)

PipelinePc == SyncPc \cup OtherPc

\* Why the pipelines exclude each other: a worker between its start and its
\* last write has a row that is queued or running, which no request accepts
\* and no cleanup selects, and nobody else works on that row.
PipelineInv ==
  /\ \A w \in Workers : pc[w] # "idle" => state[job[w]] # "unused"
  /\ \A w \in Workers : pc[w] \in PipelinePc => state[job[w]] \in {"queued", "running"}
  /\ \A v, w \in Workers :
       v # w /\ pc[v] \in PipelinePc /\ pc[w] # "idle" => job[v] # job[w]
  /\ \A j \in doomed : state[j] \notin {"queued", "running", "unused"}
  /\ SyncPipelineExclusive

\* A worktree the row does not name is lost to every later cleanup.  That
\* happens only to a job whose sync failed between `git worktree add` and the
\* update of the row, or after the row was deleted; never to a waiting job.
StrayWorktreeOnlyOfFailedSync ==
  \A j \in Jobs : onDisk[j] /\ ~recorded[j] =>
    \/ state[j] \in {"failed", "abandoning", "abandoned", "deleted"}
    \/ \E w \in Workers : job[w] = j /\ pc[w] \in SyncPc

\* What is seen of the jobs over the socket: with a single conflict a job ends
\* only from work, and one that waits or has failed is taken up by a request.
StatusOf(s) ==
  CASE s \in Transient -> "working"
    [] s \in Guidable \cup {"waiting_push"} -> "waiting"
    [] s = "completed" -> "completed"
    [] s \in {"failed", "abandoned"} -> "failed"
    [] s = "unused" -> "none"
    [] s = "deleted" -> "gone"
Seen == INSTANCE JobStatus WITH SecondConflict <- Layers > 1,
                                status <- [j \in Jobs |-> StatusOf(state[j])]
ImplementsJobStatus == Seen!Spec

\* Every transient state ends: a worker or a restart finishes it.
TransientEnds == \A j \in Jobs : (state[j] \in Transient) ~> (state[j] \notin Transient)

-----------------------------------------------------------------------------
(* Properties of a job that meets a single conflict (Layers = 1).          *)

\* States in which a job works on its branch or keeps it for the admin; an
\* abandoned job only removes its worktree.
Working == Active \ {"abandoning"}

\* create_job: "write transactions serialize check and creation for a branch,
\* so that concurrent requests do not both see it idle".
OneWorkingSyncPerBranch ==
  \A i, j \in Jobs :
    i # j /\ kind[i] = "sync" /\ kind[j] = "sync" /\ branch[i] = branch[j]
      => ~(state[i] \in Working /\ state[j] \in Working)

WriterPc == SyncPc \cup ApplyPc \cup PushPc \cup AbandonPc

\* transition_state and the compare-and-set of mark_applying exist to stop
\* concurrent requests from running one side effect twice: one worker at a
\* time changes or publishes the worktree of a job.
OneWriterPerJob ==
  \A v, w \in Workers :
    v # w /\ job[v] = job[w] => ~(pc[v] \in WriterPc /\ pc[w] \in WriterPc)

\* A job the admin can still guide, apply or push has its worktree on disk
\* and its path in the row.
ResumableHasWorktree ==
  \A j \in Jobs : kind[j] = "sync" /\ state[j] \in Guidable \cup {"waiting_push"}
    => onDisk[j] /\ recorded[j]

\* Only content that passed run_tests reaches the fork.
OnlyTestedIsPushed == untested = {}

\* "The job state has changed: the guidance did not overwrite the candidate
\* being applied": while a job is applying, its candidate and its options stay.
CandidateStable ==
  [][\A j \in Jobs : state[j] = "applying" /\ state'[j] = "applying"
       => prop'[j] = prop[j] /\ opts'[j] = opts[j]]_vars

BusyPc == PipelinePc \cup GenPc \cup ApplyPc \cup PushPc \cup AbandonPc

\* A second conflict does not come: the steps that deal with one are not reached.
NoSecond(w) ==
  /\ pc[w] \notin {"apply_follow", "apply_offer", "apply_refresh", "apply_llm"}
  /\ pc[w] = "apply_continue" => seen[w] # 0

\* The state s of a row that belongs to its worker's step p; only the row of a job being
\* abandoned may be deleted meanwhile.
OwnsRow(p, s) ==
  /\ p \in PipelinePc => s \in {"queued", "running"}
  /\ p \in GenPc => s = "generating_proposal"
  /\ p \in ApplyPc => s = "applying"
  /\ p \in PushPc => s = "pushing"
  /\ p \in AbandonPc => s \in {"abandoning", "deleted"}

\* What the admin, and a worker at step p, still need of a worktree: that it is there (d)
\* with its path in the row (r), and that its content is tested (t).
RowHasTree(s, d, r, t) ==
  /\ s \in Guidable \cup {"waiting_push", "generating_proposal", "applying"} => d /\ r
  /\ s = "waiting_push" => t
WorkerHasTree(p, d, r, t) ==
  /\ p \in {"sync_git", "sync_autoresolve", "sync_options", "sync_tests", "sync_push",
              "sync_tag", "push_branch", "push_tag"} => d /\ r
  /\ p = "sync_record" => d
  /\ p \in {"sync_push", "sync_tag", "push_branch", "push_tag"} => t

\* Why the four hold: with a single conflict nobody writes a row but the worker it belongs
\* to, and a row has one; so whatever a worker or the admin needs of a worktree stays.
SingleInv ==
  /\ \A w \in Workers : pc[w] # "idle" =>
       LET j == job[w] IN
       /\ NoSecond(w)
       /\ OwnsRow(pc[w], state[j])
       /\ WorkerHasTree(pc[w], onDisk[j], recorded[j], tested[j])
       /\ state[j] # "unused"
  /\ \A j \in Jobs : RowHasTree(state[j], onDisk[j], recorded[j], tested[j])
  /\ \A v, w \in Workers :
       v # w /\ pc[v] \in BusyPc /\ pc[w] \in BusyPc => job[v] # job[w]
  /\ \A j \in doomed : state[j] \in Terminal \cup {"abandoning"}
  /\ OneWorkingSyncPerBranch
  /\ OnlyTestedIsPushed

\* What is known of a worktree (d: there, r: its path in the row) whose row is in state s, and
\* whose worker is at step p: only a sync that fails early leaves one unrecorded.
RowHasPath(s, d, r) ==
  /\ s \in {"unused", "queued"} => ~d
  /\ s \in (Active \cup {"completed"}) \ {"queued", "running", "abandoning"} => r \/ ~d
WorkerHasPath(p, s, d, r) ==
  /\ p \in PipelinePc \ {"sync_begin", "other_begin"} => s = "running"
  /\ p \in OtherPc \cup {"sync_begin", "sync_lock"} => ~d
  /\ p \in SyncPc \ {"sync_begin", "sync_lock", "sync_checkout", "sync_record", "sync_fail",
                     "sync_failed"} => r
  /\ p \in GenPc \cup ApplyPc \cup ApplyTailPc \cup PushPc /\ s \notin NoRow => r \/ ~d

\* Why no worktree is lost, for any number of layers.
StrayInv ==
  /\ \A j \in Jobs : RowHasPath(state[j], onDisk[j], recorded[j])
  /\ \A w \in Workers : pc[w] # "idle" =>
       WorkerHasPath(pc[w], state[job[w]], onDisk[job[w]], recorded[job[w]])

\* A row that a cleanup has selected is taken up by nobody but a worker that abandons it.
DoomedInv ==
  /\ \A j \in doomed : state[j] \in Terminal \cup {"abandoning"}
  /\ \A w \in Workers : pc[w] # "idle" /\ job[w] \in doomed => pc[w] \in AbandonPc

=============================================================================

# TermiteRS in TLA+

TermiteRS maintains branches of a fork.  It synchronises each branch with its
upstream (rebase or merge), lets an LLM or an admin resolve the conflicts, runs
the tests, pushes to the fork with a lease and publishes release tags.  The same
binary runs as a command (`termite sync`), as a daemon that calls it or the
service on a timer (`termite daemon`), and as a web service with a job queue in
SQLite (`termite serve`).  This directory holds TLA+ models of it, the TLC
configurations that check them and the proofs that TLAPS checks.

All paths below are relative to the repository; the Rust code is `src/`.

## 1. Inventory

| Component | State it keeps | Operations | Interacts with |
|---|---|---|---|
| Job engine (`service/db.rs`, `handlers.rs`, `jobs.rs`, `conflicts.rs`, `security.rs`) | rows of table `jobs` (state, branch, worktree path, conflict, options, candidate, heads), one git worktree per job, one thread per request, `repository_lock` | start sync / check / investigation, message, generate, apply, abandon, retry push, cleanup, startup recovery | git, LLM, tests, notifier, daemon (over the HTTP socket), dashboard |
| Branch push (`security.rs: push_job`, `git.rs`) | `remote_head` of the row, the branch at the fork | fetch, compare, push with lease, record the new base | fork, shared with people who push to it |
| Release tags (`release.rs`) | tags at the fork | list, choose the next number, push, list again | fork, other publishers |
| Command-line sync (`sync.rs`, `sync/auto_resolve.rs`) | the main clone, its HEAD and branch, temporary branches | fetch, rebase/merge, auto-resolve, tests, push, one retry when the remote moved | git, LLM, notifier |
| Daemon (`daemon.rs`) | failure counters, next tick | run a tick (service request or CLI sync), wait for the managed jobs, advisory tick | service socket, child processes |
| Research watch (`watch/*`) | SQLite tables of tasks, snapshots, events, assessments | claim due tasks with a lease, scan, insert events once, store snapshots, assess, finish | GitHub, LLM, other windows on the same store |
| Protection gate (`protection/{mod,review,verify,runner,supply_chain,catalog,store}.rs`) | SQLite rows of scans, commit reviews, verifications, signals, findings, drafts | scan the tree, review each new commit, verify fixes after the tests, refuse | tests and pushes of command line and service, LLM, sandbox |
| Advisories and issues (`protection/{osv,store,issue}.rs`, `service/protection.rs`) | cursor and cache of advisories, issue publications | scan, de-duplicate, publish | OSV, GitHub |
| Investigation of messages (`protection/investigate*`, `protection/dependency/*`) | candidate worktree, candidate rows, archive cache | judge a message, write a candidate, test and verify it, record it | LLM, crates.io, sandbox, the gate |
| Conflict blocks (`conflict.rs`) | none | split into blocks, replace them by the model's answer | LLM protocol |
| Assistant (`assistant.rs`) | the last messages of the conversation, `termite.yml` | talk, start a sync that was confirmed, edit the branches, start a task, create a watch | LLM, sync, daemon, whoever edits `termite.yml` |
| Local tasks (`autonomy.rs`, `autonomy/*`, `linear.rs`) | steps, approvals and observations of one task, report files | choose, check the permission, ask the user, act, save the report | LLM, Git, Linear, sandbox |
| LLM client (`llm*`) | none | one question, with retries and one repair of the answer; a streamed reply | network |
| Notifier (`notify.rs`) | none | send to the channels a policy chooses | mail, HTTP |
| Child processes, sandbox (`command.rs`, `sandbox.rs`) | none | run one tool with a deadline | processes |
| Doctor, research, dashboard, configuration, argument parsing | none | read-only reports, defaults | - |
| Research collector (`scripts/research_watch.py`) | documents | fetch feeds | network |

### What is hard

* *Interleavings.* A handler checks a row and starts a thread; the thread works
  for minutes without a transaction and then writes the row again, at some
  places by compare-and-set (`transition_state`, `mark_applying`), at others
  whatever the row now holds (`set_state`).
* *Time of check, time of use.* Cleanup selects rows and deletes them later;
  a refresh stores an answer to a question asked minutes ago; the conflict that
  is saved was captured before the automatic rounds; the tests run on a worktree
  that is not locked.
* *Crashes.* The process may stop between any two steps. Startup fails the
  interrupted rows; worktrees stay.
* *Others write the same data.* The fork's branches and tags are shared, and so are
  `termite.yml` and the store of reviews, which several processes use under
  whatever policy each has read.
* *Partial failure.* A branch is pushed but its tag is not; a worktree exists
  but the row does not name it yet; a batch of syncs is started in part.

### What makes it correct

Job engine: one pipeline per branch; a job in a transient state has a worker
and the state ends; one writer per worktree; a job that can be resumed still has
its worktree; only tested content is pushed; the admin sees the conflict that is
there; the candidate that is applied is the one that was approved; cleanup takes
only finished jobs.  Push: foreign commits are never lost, the recorded base is
what the fork held.  Tags: one number per commit, none overwritten.  Daemon:
one tick at a time, failures counted.  Watch: no change is stored
without its event, every event is assessed, the store catches up with GitHub.  Gate: no code of a
project runs before a clean scan and a review of every new commit under the policy in
force; what passes was verified for exactly the patch and the test output at hand; an
unsafe commit has its finding; a finding awaits delivery only with a candidate that
passed.  Assistant: a task does what the user allowed, a sync is started only when it
was asked for in this conversation, an edit of the configuration keeps the other
branches and sections, a listed report is whole.

The list of single hazards with their lines is in `PROJECT.json`.

## 2. Plan

The order in which the modules were written, the core first: `ServiceJobs`;
`TagRegistry` and `ReleaseTag`; `ForkBranch` and `BranchPush`; `CliSync`;
`IssueDelivery`; `JobStatus` and `Daemon`; `Watch`; `SecurityPolicy`, `StaticScan`,
`LockGraph` and `ProtectionGate`; `ConfigEdit`, `LlmCall` and `Assistant`;
`ConflictBlocks` and `Notify`.  All but `LockGraph`, `ConflictBlocks` and `Notify` have
their proofs in a module beside them; those of the issues and of the watch, whose workers
both claim by a lease, share one.

Composition: `Daemon` sees the jobs of the service only through `JobStatus`, which
`ServiceJobs` is shown to implement.  `BranchPush` and `ReleaseTag` refine what a push
and a tag are to everybody else (`ForkBranch`, `TagRegistry`).  `CliSync` and
`ServiceJobs` take the gate as a step that passes or fails; what a pass means is
`ProtectionGate`.

Left for whoever goes on: what the walks of `LockGraph` and `ConflictBlocks` keep from
round to round; two runs of `termite sync` in one working copy, once the code says what
keeps them apart.

## 3. Modules

| Module | What it is |
|---|---|
| `ServiceJobs` | the job engine |
| `TagRegistry` | abstract: a registry of names to which pairs are only added |
| `ReleaseTag` | concurrent publishers of release tags; implements `TagRegistry` |
| `ForkBranch` | abstract: a branch at the fork from which no change is ever lost |
| `BranchPush` | pushes of service jobs next to other writers of the fork; implements `ForkBranch` |
| `CliSync` | `termite sync`: one working copy, runs one after the other |
| `IssueDelivery` | publishers of one issue draft, the claim and its lease |
| `JobStatus` | abstract: a job as it is seen over the socket; implemented by `ServiceJobs`, used by `Daemon` |
| `Daemon` | the ticks of `termite daemon`, with the cache of advisories |
| `Watch` | a task of the research watch, run by several processes |
| `SecurityPolicy` | functions: the verdict on a commit, a range, a fix, a message |
| `StaticScan` | functions: the scan of Cargo files and locked archives |
| `LockGraph` | function: the packages of a lock file that local packages reach |
| `ProtectionGate` | the gates before tests and pushes, and investigations, over one store |
| `ConfigEdit` | functions: how the assistant edits `termite.yml` line by line |
| `LlmCall` | functions: retries, repair and streaming of one question |
| `Assistant` | one assistant window with its local tasks |
| `ConflictBlocks` | functions: conflict blocks found and replaced |
| `Notify` | functions: the channels a notification is sent to |
| `MCServiceJobs`, `MCReleaseTag`, `MCBranchPush`, `MCCliSync`, `MCIssueDelivery`, `MCDaemon`, `MCWatch`, `MCProtectionGate`, `MCAssistant` | the instances TLC uses; the last two and `MCCliSync` also evaluate the functions |
| `ServiceJobsProofs`, `ReleaseTagProofs`, `BranchPushProofs`, `CliSyncProofs`, `ClaimProofs` (of `Watch` and `IssueDelivery`), `DaemonProofs`, `ProtectionGateProofs`, `AssistantProofs` (with `ConfigEdit` and `LlmCall`) | the theorems and their proofs |

### ServiceJobs

State.  `state`, `kind`, `branch`, `recorded` (the column `worktree_path` is
set), `conf`, `opts`, `prop` are the columns of the row.  `onDisk`, `layer`,
`tested` are the worktree: it exists, the commit the rebase has stopped at, and
whether its content passed `run_tests` and has not changed since; `untested`
remembers the jobs that pushed other content.  `pc`, `job`, `seen` are the worker
threads, `holder` is `repository_lock`, `doomed` and `cleaning` are the cleanup
request in progress.

A conflict is abstracted to a number, the *layer*: the commit at which the
rebase has stopped.  Options and candidates remember the layer they were made
for, which is all that tells a current one from a stale one.  A merge has one
layer; a rebase has as many as there are conflicting commits.

Actions.  A request is one action: between the check of a handler and its update
there is no other step of the program, and the update is a compare-and-set or an
immediate transaction.  A worker is a sequence of actions cut at each read or
write of the row or of the worktree that another thread can observe; a long call
(fetch, rebase, tests, LLM, push) lies in the action that uses its result, and
its failure is a disjunct.  `SetState` writes without a condition and does
nothing when the row is gone, as the SQL does.  `Restart` stops every thread and
fails the transient rows.

Not modelled: errors of SQLite and of the event log, panics (a poisoned lock),
an unreadable configuration, notifications, messages; the cleanup's age limit
stands as "no worker is on the row", which a cutoff of a day or more implies.
Two cleanups do not run at once.  `push: none` is the branch of a push that
publishes nothing.

Job ids are never used twice, so the state graph of a finite set of ids ends
where every id is used up and nothing is left to do: the configurations say
`CHECK_DEADLOCK FALSE`.

### TagRegistry and ReleaseTag

`TagRegistry` is what the others may rely on: a commit without a tag gets the
first free number, and a tag never moves and never disappears.  `ReleaseTag` models `release.rs`: each publisher lists the tags,
returns the one its commit already has, else takes the next number, pushes, and
lists again when the push is refused, as often as the loop allows.  Only the
number of a tag is kept: one prefix, and the syntax of the listing is left out.
HEAD does not move during a publisher's loop.  An owner may tag by hand, the
next free number for an untagged commit, or any number in `Foreign`.  With hand tags
out of order a commit may get two numbers: it is tagged by hand after the listing
and before the push, at a number other than the publisher's, and both tags stay.  A
person can do that in any project, so `tags` and the theorems `OneTag` and
`RegistryImplemented` take `Foreign = {}`; the other theorems do not.

### ForkBranch and BranchPush

`ForkBranch` says: a job changes a branch of the fork at most as if it had
fetched, integrated its commit and pushed in one step.  `BranchPush` models
`push_job` with what comes before and after it: the row records the remote head
when the worktree is made; the push lists the fork again, refuses if the head is
neither the recorded one nor the candidate, pushes with the recorded head as the
lease, records the candidate and publishes the tag.  A head is the sequence of its
changes: a merge appends, a rebase puts the job's commit under.  Others push,
rewind and delete; answers are lost; `Restart` may come between any two steps.
The ghost `held` has the jobs whose candidate the fork has had.

### CliSync

`SyncRunner::run`: one run at a time works in the main clone, takes each branch
through prepare, rebase or merge, resolution, gate, tests, push and tag, and leaves
the local branches to the next run.  A head is the set of its commits, a commit a
change with the upstream version below it, so that a rebase makes new commits of
old changes; an ancestor is a subset.  The configuration is chosen in `Init`.

`work` is what Git keeps in the working copy beside the branches: whether the index is
clean, staged or in conflict, and the rebase or merge that has stopped, with its branch
(`of`) and the head that branch had (`orig`).  Nothing promises that a run leaves it
`Clean`: a kill or an error ends a run at any step, and `abort_rebase_or_merge` drops the
results of both aborts (`git.rs:96`), so a report can be made with the operation still
there.  The next run meets what is left.  In an unmerged index no checkout succeeds; a
merge whose files are staged (a kill between `add_file` and `continue_sync`,
`auto_resolve.rs:174`) lets its own branch be checked out again and is cancelled by
another; a rebase that a checkout walks away from is `left`, and `continue_sync` may pick
the rest of it on top of the branch that is now there.

Between runs upstream grows, others push and the owner commits, resets and aborts.  A
single git command is atomic under a kill, upstream is never rewound, and the
branches are taken in any order.  Not modelled: two runs at the same time in one
working copy (nothing in the code keeps them apart, so nothing can be promised),
and the wording of reports.

### IssueDelivery

`publish_github_issue_at`, called for one draft by any number of processes (the
service, a command).  The module can be extended together with `Watch`, the other claim in
the store, so its names are its own (`step`, `DeliverySpec`).  A publisher claims the draft in SQLite, reads GitHub's pages
in search of the marker of an earlier attempt, refreshes its claim before each
request, sends the POST and records the receipt.  A POST is on its way in `wire`;
it may be carried out, rejected or lost, and its answer too.  The publisher that is
in doubt keeps the claim, which expires.  Time is `since`, the ticks since a claim
was written (`Lease`) or a request was sent (`Window`).

Where an issue may be created (the fork on GitHub) is a fact of the draft and does not change.

`TimesAssumption` and two facts about GitHub are all that the model asks of the
outside: from the refresh to the effect of its POST no more time passes than the lease of two minutes
(`Window <= Lease`; the request has a timeout, so a process that is not suspended
keeps to it); GitHub lists an issue as soon as it exists; issues are not deleted,
so that pages do not shift under the search.  Without the first no claim of this
kind can work.

### JobStatus and Daemon

`JobStatus` is what somebody who polls a row may rely on.  `ServiceJobs` implements
it (`ImplementsJobStatus`), with `SecondConflict` exactly when a job may meet a
second conflict (the first observation of section 6).  `Daemon` builds on it: `mine` are the jobs of
the running tick, each moving as `JobStatus` says, with the admin's help or
without; `other` are branches with any other active row.  Investigations (`osv`)
are modelled in detail, as they outlive the tick that asked for them: they queue for
`repository_lock`, mark the observation, investigate one advisory after the other
and go on after a failure.  `published` is OSV, which may bring out a new version at
any moment; `investigated` remembers which versions were.

A tick is a program counter: look for the socket, look for its directory, ask for
advisories, wait, ask for the syncs, wait, or the direct path.  Every request may
fail, which is the disjunct `Fails`, and a poll reads one row per step.  The
service's side of a request is in the action that makes it; `create_osv` and
`creating` are points inside a request, where a stop of the service ends it.

An advisory stands for a group of aliases, marked together.  `MaxPasses` stands for
the 3600 seconds, `OsvJobs` for the rows of investigations, of which an ended one is
used again; with none free, the request waits.  The scan's paging, `--once` and the
jitter are left out, and the admin's own jobs appear only as active rows.

### Watch

`run_due_tasks` for one task, in any number of processes on one store.  A run claims
the task, reads what the store knows, takes the repositories one by one (list,
compare, insert an event, store the snapshot), looks up what is not listed any more,
assesses every event without an assessment and sets the next time.  Each SQL statement
is one action, so a run may be killed, or overtaken by another, between any two.  The
variables `world` and `closings` are GitHub; a content is a commit with a mark for
checks and reviews.  Events are sets of what their fingerprints tell apart.

Time is abstract: `due` becomes true at any moment (`Elapse`), so the model has every
length of lease and run.  A run that fails retries after 60 seconds, which is the
same `due`.  Each repository has one pull request.  The evidence and the texts of the
assessments are left out, as is `watch scan`, which works on a scope of its own.

### SecurityPolicy, StaticScan, LockGraph

The functions the gate is made of.  A decision of the model is a record of what
`evaluate_security_review` looks at: texts are there or not, categories are universal
or not.  A file of a scan has its directories, its name and what reading it gives:
whether it is a link, too large, text, parses, and the marks that its text holds, each
in code or in a comment.  An archive is a set of entries and a package says whether its
checksum, its cached copy and its download fit.  Everything that cannot be read,
parsed, fetched or matched refuses.  `LockGraph` is recursive and stays out of the
proofs.

### ProtectionGate

`run[g]` is one gate: a sync, or the tests of an apply job, or the candidate of an
investigation, with the policy it started under.  The steps are the scan with its
signal, finding and draft; each commit looked up in the store or asked of the model, its
review saved, then signal, finding and draft of the review; the judgement of the range;
the tests; the verification of each fix, looked up or asked; and, for an investigation,
signal and finding of the message before all this, the candidate, its verification, the
finding that awaits delivery and the draft after it.  The store (`signals`, `findings`,
`drafts`, `cache`, `contracts`, `candidates`, `verifications`) is shared by all gates; each
SQL statement is a step, which may fail, and a gate may be killed between any two.  A draft
is written for blockers and only if the fork is a GitHub remote (`Github`).
`EditPolicy` changes the project's name or the profile at any moment.  Digests are the
text they are of.  `said` and `confirmed` are history: what the model has answered and what
the verifier has confirmed.
Each gate works in a tree of its own; errors of SQLite other than the one of
disagreement 2 are not modelled.

### Assistant and ConfigEdit

`Assistant` is one window: it reads a line of the user, and what kind of line it is
(`Kinds`) is a choice of the model, as is everything an LLM says.  `history` holds what
`push_history` keeps, and `age` how long ago the choice was put and made.  An edit of
`termite.yml` is read, empty, fill, and again for an addition; a local task is plan,
check, approve, act, at most `MaxSteps` times, then the report in four steps (file, text,
fsync, rename).  Beside the window a person saves whole configurations and checks
branches out, the window is killed, and power losses take back what was not synced.
The configuration of a settings file is what its lines say of the sections and branches
(`ConfigEdit`) and, apart from these, the settings a task asks for (`Configured`).
The sync itself is `CliSync`, the watch that it creates is `Watch`.

`ConfigEdit` has the edits as functions over lines.  A line names a branch, is a top-level
key, is empty, or is another one, which YAML can read or not (`Odd`).  What the code
recognises is narrower than YAML, so a name has a spelling and a key a form: only
`  - name: b` is found, only `  - name: ` with anything behind it begins another branch,
and only a key with nothing behind its colon ends a block, while the marker `daemon:` is
found with anything behind it.  The note of a new branch is text of the user that the code
writes without quotes, and so the rest of a block may be `Odd`.  `Parses` says which files
`Config::read_from` takes, whoever wrote them; `Recognised` says that every branch and
section is written as the code expects.  A file has lines that end in `\n`, a comment
between the lines is one of the others, and a branch's name is not a part of another's.

### ConflictBlocks, Notify, LlmCall

Functions without state: a file of tagged lines and the answer of the model to its
blocks; the channels tried under each policy and what the caller is told; the request
with which a question ends, given what each request would bring.

## 4. Runs

| Run | Instance | Shows |
|---|---|---|
| `jobs_rebase` | 2 jobs, 2 workers, 1 branch, 2 layers, auto-resolve | `SyncPipelineExclusive`, `TransientHasWorker`, `StrayWorktreeOnlyOfFailedSync` |
| `jobs_merge` | 2 jobs, 2 workers, 2 branches, 1 layer, fair workers | `OneWorkingSyncPerBranch`, `OneWriterPerJob`, `ResumableHasWorktree`, `OnlyTestedIsPushed`, `CandidateStable`, `TransientEnds`, `ImplementsJobStatus` |
| `tags` | 2 publishers, 3 commits, 2 attempts, 2 numbers, fair publishers | `ImplementsRegistry`, `OneTagPerCommit`, `TaggedMeansPublished`, `PublisherEnds` |
| `push` | 2 jobs of one branch, 2 changes of others, rebase, lease | `ImplementsFork`, `RecordedWasHeld`, `NothingLost` |
| `cli` | 1 branch, upstream versions 0 to 2, 2 rounds of resolution, 1 retry, 1 change of another, 1 of the owner, any number of runs, fair runs | `LocalKept`, `NothingLost`, `ResolvedIsTested`, `RunEnds` |
| `cli_untested` | as `cli` | disagreement 1 of section 6 |
| `delivery` | 3 publishers, 2 pages, a lease of 2 ticks, fair publishers and clock | `OneIssue`, `DoneIsDelivered`, `ClaimEnds` |
| `daemon` | 2 branches, 1 advisory with 1 version, 1 investigation job, 2 failures, 2 passes, fair daemon | `AdvisoriesFirst`, `OkMeansSynced`, `CacheIsSound`, `NeverSilent` |
| `watch` | 2 processes, 1 pull request with 2 contents, 1 closing, 1 trouble (a failure, a kill or a pause), fair processes and clock | `ChangesReported`, `EventsAssessed`, `Settles` |
| `gate` | 2 gates, 2 commits, 1 message, 3 kinds of answer, 2 test outputs, 1 edit of the policy, any number of kills | `JudgedBeforeRun`, `PassedIsVerified`, `ScanIsRecorded`, `AwaitingIsVerified` |
| `gate_renamed` | as `gate`, with 1 commit and 2 names of the project | disagreement 2 of section 6 |
| `assistant` | 2 branches, 3 layouts, 4 settings, 4 messages of which 3 are recent, 2 tasks of 3 steps, 2 edits, 1 save by a person | `Granted`, `ReportsAreWhole`, `SyncIsAsked`, `EditsKeepOthers` |

Types are not checked by a run of their own: the type invariants are theorems, and the
other properties fail or raise an error on a state of the wrong shape.

The functions are evaluated on all small inputs before the runs of their modules begin:

| Run | Assumption | Inputs |
|---|---|---|
| `gate` | `VerdictsAreSafe`, `RangesAreWorst` | every decision under both profiles; every set of verdicts |
| `gate` | `ScansAreExact` | trees of up to 3 of 12 files, up to 2 of 10 packages: a scan passes exactly when all it has to see is clean and within bounds |
| `gate` | `SnapshotsAreClosures` | every lock file of 3 packages: the queue finds exactly the closure |
| `assistant` | `AddSafeExactly`, `RemovalIsSafe` | 7 orders of the sections, 4 lists of branches, with and without empty lines, notes that are YAML and that are not: which additions and removals leave a file that can be read |
| `assistant` | `UnrecognisedIsLost` | files written in ways the code does not recognise: what an edit of them loses (section 6) |
| `assistant` | `CallIsBounded`, `CutIsAnswer` | all sequences of answers for up to 2 retries; all streams of 5 events |
| `cli` | `AnswersResolve`, `OthersRefused` | all files of up to 6 lines: a complete answer replaces exactly the blocks; any other changes nothing |
| `cli` | `NotificationsAreTold` | all small lists of channels under each policy |

Two jobs and two workers are enough for every race the code has: a race is
between two workers on one job, two jobs on one branch, or a worker and a request
(a request needs no worker until it is accepted).  Two layers are enough for a
stale conflict; with one layer the follow-up path ends in tests or in an error and
never offers a second conflict.  Two publishers with two attempts show every way
to lose a race for a number and to win the next, the third commit can be tagged by
hand, and two numbers bring the saturated end of the count into reach.  Two jobs and
two foreign changes let a push race both with another job of the branch and with a
person before and after its listing.  The runs of the command line are not counted,
so each may start from what any other has left.  One branch means that a leftover is
always of the branch at hand: `LocalKept` and `ResolvedIsTested` of several branches hold
only if that is so (`LeftoversAreOwn`, sections 5 and 6).  Merge jobs and a push without
`force-with-lease` are covered by the theorems, not by `push`.  Three publishers let
one be in doubt, one take over the claim and one come late; two pages let a claim
expire in the middle of a search.  In `daemon` one advisory with one version is
enough for an investigation to be cut off, taken up again and run twice at once (by
the service and the daemon); a newer version in between, and two jobs of the
service, are covered by the theorems.  Two failures show a tick that clears the
count and one that reaches the limit, two passes a wait that goes on and one that
ends.  In `watch` two processes let the lease of one lapse while it is at work, and any
number of runs follow one another; one trouble cuts one of them off at any step;
two contents let a run store the older one last.  In `gate` two gates are all that can
meet over one row; two commits let a range grow between two verifications, one edit lets
a verdict of the lax profile meet the strict one, and the answers are one harmless, one
that only the strict profile blocks, and one fix; more of each is covered by the
theorems.  In `assistant` the history is one message longer than what is looked at, so
that a question can be remembered and yet be too old; three steps allow one inspect, one
action and one that is refused; two edits let one work on what the other left.  One layout is written
as the code expects, one has a branch and one has sections that it does not recognise.  The
numbers of the code are 12 messages, 4 recent ones and 8 steps.

Fairness: `FairSpec` is weak fairness of each worker's next step.  Commands,
tests and LLM requests have timeouts (`command.rs`, `llm/transport.rs`), so a
thread always comes back; the mutex is released on every path.  Nothing obliges
the admin to act, so only the transient states must end.  `AcquireLock` needs no
strong fairness: a job id is used once, so the lock is taken finitely often.
`tags` and `cli` assume weak fairness of the publishers and of the run in progress
for the same reason; nothing is assumed of other people or of upstream.
`delivery` adds the clock and GitHub's answers, which come or are lost.  `daemon`
assumes only that the daemon's own loop goes on, as every request has a timeout of
two minutes: nothing of the service, the jobs or the supervisor, so that an exited
daemon may stay so, which is the visible failure the README of the program promises.
`watch` assumes that a window is open (`WatchSupervisor` looks for due tasks every ten
seconds), that commands and LLM requests end by their timeouts, and that time goes on;
its liveness properties ask for a task that is not paused and a pull request that no
longer changes, since overlapping runs may store an older content meanwhile.
`gate` and `assistant` assume no fairness and state no liveness: a refusal, a kill or a
user who does not answer ends or stops them rightly.  One thing weakens all of this:
`command.rs` waits for the output of a tool without a deadline once the tool has ended
(section 6), so "a tool always ends" holds only if it leaves no process behind
that keeps its output open.

Deadlock is checked except in `jobs_*`, `gate*` and `assistant`: there ids, gates, tasks and
edits are finite, a gate ends for good, and a window cannot start on a file that it
cannot read.

## 5. Proofs

* `TypeCorrect`: `Spec => []TypeOK`.  From `LayersAssumption`.
* `PipelinesExclusive`: `Spec => []SyncPipelineExclusive`.  The invariant alone is
  not inductive.  `PipelineInv` adds that a worker between its start and its last
  write has a row that is queued or running, that nobody else works on that row,
  that the row of a busy worker was created, and that the cleanup has selected
  none that is queued or running; then no request can take the row away, and
  `create_job` finds it active.
* `TransientDriven`: `Spec => []TransientHasWorker`, which is inductive together
  with the types.

Both rest on `WorkerHasShape`: whatever action a worker takes, it changes its own
row and counter only, and it stays in its phase, starts to run, leaves the
transient states or takes up the push.  Requests have two shapes
(`RequestHasShape`).

* `NoStrayWorktree`: `Spec => []StrayWorktreeOnlyOfFailedSync`, for any number of
  layers.  `StrayInv` says at which steps of a worker, and in which states of a row, a
  worktree has its path in the row or does not exist; with `TransientHasWorker`, a running
  row without a path has a sync at work.
* `OneSyncPerBranch`, `OneWriter`, `Resumable`, `TestedIsPushed`, `CandidateKept`: from
  `Layers = 1`.  `SingleInv` says that the row of a busy worker is in the state of its
  phase, that no row has two, and that what the worker or the admin still needs of the
  worktree is there.  A worker that is not busy (it asks for options, or looks whether
  there is a push to take up) changes nothing that another one needs, and no request or
  cleanup accepts the row of a busy one.  With a second conflict `SingleInv` is false:
  section 6.
* `JobStatusImplemented`: `Spec => ImplementsJobStatus`, for any number of layers.
  `Moves` lists the ways a step changes the state of a row; `DoomedInv` says that a row the
  cleanup has selected is taken up by nobody but a worker that abandons it.

* `TagTypes`, `OnlyAdded`, `TaggedIsPublished`: for any number of publishers and
  commits and any hand tags.  `OneTag` and `RegistryImplemented` assume
  `Foreign = {}`.  The invariant `TagInv` adds to one-tag-per-commit that the
  numbers have no gaps (so the next number is above every tag) and that what a
  publisher has learnt about the numbers below its own stays true (`PushersKnow`).
* `PushTypes`, `LeaseIsBase`, `ForkImplemented` (with `Lease`), `PushLosesNothing`:
  for any jobs and foreign changes, merge or rebase.  `LeaseInv` says that before
  its push a job's lease is its base and its candidate is made from the base, so
  that an accepted push replaces exactly what was integrated.  Without the lease
  the fork accepts descendants only, and `PushLosesNothing` still holds.  `RecordedHeld`
  assumes that no job's commit is one of other people.  `HeldInv` says that the commit of
  a job the fork has not had is in its own candidate and nowhere else, so that a head
  equal to the candidate has the job's work.
* `CliTypes`, `CliPushLosesNothing`, and under `LeftoversAreOwn` also `LocalIsKept` and
  `PushedIsTested`: the command line, for any branches, upstream versions, runs and
  retries.  `Based` says that from prepare to push the local branch has every change of
  the remote head the run has read, whatever was in the working copy, so that no push
  loses any.  `LeftoversAreOwn` is the hypothesis that a run which prepares a branch finds
  nothing there, or an operation of that same branch; with one branch it always holds.
  `Leftovers` then says that an operation is of the branch at hand, that this branch still
  has what the abort or the end of the operation will give it, and that nothing is left
  when the tests begin.  Without the hypothesis both are false of the code (section 6).

* `DeliveryTypes`, `AtMostOneIssue`, `DoneMeansDelivered`: for any number of
  publishers and pages and any `Window <= Lease`.  `DeliveryInv` says that while a
  POST may take effect its publisher has the claim, as fresh as the POST, and there
  is no issue yet; nor is there one as long as the holder's search has found none.
* `DaemonTypes`, `InvestigatedFirst`, `SkippedIsInvestigated`, `GoodTickSynced`: for
  any branches, advisories, versions, investigations and limits.  `ScanInv` follows
  a version from the scan through the job, the observation and the daemon's own
  hands: at every point of the tick it is investigated, or someone whom the tick
  waits for still has it, or that one will end as failed.  `PollInv` says that a
  row read as completed belongs to a branch synced in this tick, even if the row
  has changed since.
* `WatchTypes`, `StoredIsReported`: for any number of processes, pull requests and
  contents.  `StoreInv` says that a run that has not met another compares with the
  snapshot that is still there when it stores, and has inserted the event by then.
  Once two runs have overlapped this is lost, which is why the property has the ghost
  `mixed`; that the store then still settles is `Settles`.

* `AcuteRiskStops`, `FixesAreVerified`, `StrictStricter`, `BlockRemedy`, `RangeWorst`: the
  verdicts, for every decision and profile; `PassedScansAreClean`: for trees and sets
  of packages of any size, every file that has to be seen was seen and is clean.
* `GateTypes`, `NothingRunsUnjudged`, `OnlyVerifiedPasses`, `OnlyVerifiedAwaits`,
  `ActedOnScansAreRecorded`: the gate, for any number of gates, commits, messages, projects and
  edits of the policy.  `Judged` says that a review in the store was given under the
  policy in its key, so that taking it is as good as asking; `Verified` the same of a
  verification and its fix, output and range; `Recorded` that what a gate has written of its
  scan is still there at each later step: the rows of another gate with the same key are
  equal, as the key has the digest of the report.  `Awaiting` says that a gate marks the
  finding only with its candidate and that one's passed verification in the store.

* `AssistantTypes`, `TasksDoWhatWasGranted`, `ListedReportsAreWhole`, `SyncsAreAsked`,
  `EditsKeepTheOthers`: the assistant, for any branches, layouts that parse, permissions,
  lengths of the conversation and numbers of tasks, steps, edits and saves.
  + `GrantedInv`: what is about to be done is allowed, or has a yes that is not used up; a
    task that may still ask for Linear has not read it.  Without that, one action more would
    exceed the yeses.
  + `ReportsInv`: a text is renamed only after it was synced, so that a power loss, which
    takes unsynced text and perhaps the last rename, takes nothing from a listed report.
  + `SyncInv`: a question or a choice at distance d from the end of the conversation was
    put at most d messages ago (`Aged`).  `push_history` drops from the front, so the
    distance survives any `MaxHistory` (`TrimmedPushes`); that a confirmation is looked for
    in the last `Recent` messages then means that it is recent (`LastAreRecent`).
  + `EditInv`: what the text of an edit is at each of its steps, as a function of the file
    the edit began with, unless somebody saved in between.  What that function does to the
    branches and sections is the following.  `EditsKeepTheOthers` is about the file at every
    step of an edit, as others read it meanwhile and a kill leaves it; the one exception is
    the write itself, during which it is empty.
* `RemovalKeeps`, `AdditionKeeps`, `ReplacementKeeps`: the edits of `termite.yml` as
  functions, for files of any length that the code recognises (`Recognised`; the lemmas
  speak of sequences over `Style`, and `StyleIs` says that this is the same).  That the
  result is made of lines again (`CutTypes`, `PutTypes`) is for files of any lines.  The
  others keep their place whatever the note is, and whether or not `AddIsSafe`; that the
  result can be read needs both `AddIsSafe` and a note that is YAML.  `Cuts` and `Puts` say which lines an edit takes and
  where it puts three; `Moved` and `Shifted` where the others come from and go to, so that
  a line of another branch stays below the one key `branches` with no key between
  (`Readable`, which is `Parses` by lines).  A block lands there if the marker, or the end
  of the file, follows lines of that section (`Room`), and `AddIsSafe` is enough for this
  before a removal and after it (`SafeHasRoom`, `CutLeavesRoom`).  The proof needs that no
  section is there twice and that `repo` is there, as serde demands and `Parses` therefore
  says: with two lists the last branch of the first could take the first marker away.  `AddIsSafe` is not
  necessary for every layout (an empty line between two branches and none above `daemon`
  becomes a marker by the removal); that it is for the usual ones is `AddSafeExactly`.
* `CallsAreBounded`, `CutIsTakenForDone`: questions to the model, for any number of
  retries and streams of any length.

Assumptions on the constants.  Those of the assistant say that what a person saves is a
file that parses (`LayoutsParse`) with settings of the right shape, that the bounds are
numbers, and that `None` is neither an edit nor a task.  `NamesAssumption` of the command
line says that `None` is no branch and that changes are not numbers, which versions of
upstream are; `Github` of the gate is any Boolean.  The others are named in the modules'
heads, say as much, and are evaluated in every run.  `LeftoversAreOwn` is no assumption on
constants but a hypothesis of two theorems on the behaviour.

Only model-checked: the functions in `LockGraph`, `ConflictBlocks` and `Notify`, of which the
first two are recursive; that `AddIsSafe` is necessary, and what edits lose of files that
the code does not recognise; and liveness, which this prover
cannot do.

## 6. Where the code and its documents disagree

1. `cli_untested`.  With `require_tests` and no tests a run refuses to push an
   automatic resolution (`sync.rs:380`), but leaves it in the local branch; the next
   run finds nothing to resolve and pushes it, against README.md:429.
2. `gate_renamed`.  The ids of a scan's rows come from the report alone and their dedupe
   keys from the project's name as well, while the upserts give way to the dedupe key
   only (`runner.rs:89`, `store.rs:33-106`).  After `protection.project.name` is edited, or
   for a second project with the same `data_dir`, a report seen before cannot be saved and
   the gate refuses, against README.md:367.

### What else the models reach

These are behaviours of the code that no run is about; most contradict no document, and
where one does its line is given.  Line numbers are those of `src/`.

*Service.*

* `try_auto_resolve_followup` sets `waiting_guidance` and then asks the LLM; if that fails,
  `execute_apply` sets `waiting_guidance` again (`conflicts.rs:180`) over whatever the admin
  did in between, so an abandoned job is back beside a newer sync of its branch.  It
  needs a second conflict (`Layers` = 2), as has the loss of `OneWriterPerJob` and
  `OnlyTestedIsPushed` that follows: `jobs_merge` shows that these hold for jobs with a
  single conflict.
* `execute_sync_inner` saves the conflict it captured before the automatic rounds
  (`jobs.rs:219`), though the rounds may have moved the rebase on before they failed.
* A refresh is stored if the row's state is what it was, whichever conflict it was
  asked about (`conflicts.rs:38`).
* `finish_automatic_sync` takes every error of `push_job` for a failed tag when the row's
  `remote_head` is HEAD (`jobs.rs:365`).  For a sync with nothing new they are equal from
  the start, so a failed fetch also ends as "branch pushed, tag failed".
* Cleanup deletes rows by id that were terminal when it selected them (`db.rs:99`); a failed
  job that is being abandoned loses its row, and the worker's writes then change nothing.
* A retry of a command-line sync after the fork moved starts from the local branch the
  first attempt has changed; unless that changed nothing, it ends in an error
  (`sync.rs:160`).
* A person who pushes a tag with a higher number between two listings of one commit
  gives it two numbers (`release.rs:30`); `tags` has no such person.

*Command line.*

* What a run leaves in the working copy is not cleared before the next one.  If the next
  one is of another branch (`--branch`, or the next of the list after a failed abort), its
  own rebase refuses to start over the old one, no file is in conflict, and
  `continue_sync` goes on with the old rebase on the branch that is checked out now: this
  branch gets commits of the other, and the other is set to the result and loses what had
  been picked before the stop.  The comment of `sync.rs:545` promises that local commits
  are kept.  A rebase left behind in this way, or files staged by a killed merge, are also
  part of what the tests see, and a branch can be reported as done without the upstream
  version.  With two branches TLC finds `LocalKept` violated, and no error under
  `LeftoversAreOwn`; no run is about it.

*Gate.*

* A gate killed between a review and its finding or draft leaves the review in the store;
  later gates take it from there, refuse rightly, and write neither (`review.rs:66-69`,
  76, 158-163), though README.md:39 says that blockers get a draft.  Scans are made anew
  by every gate, which completes their record: `ScanIsRecorded`.

*Assistant.*

* Replacing the last branch of a file in the order of `examples/termite.yml`, or adding it
  again after its removal, puts it behind the other sections, and the program can no longer
  read the file: the empty line above `daemon:` goes with the branch, and the insertion
  looks for it (`assistant.rs:721`, `:751`).  `AddSafeExactly` says for which layouts this
  happens.
* The note of a new branch is what the user typed, written without quotes
  (`assistant.rs:755`, 885): with ": " in it, or an opening bracket before it, the file cannot be
  read any more.
* A top-level key ends a branch only if its line ends in ":" (`assistant.rs:738`): with a
  value or a comment behind the colon, the whole section goes with the branch above it.  An
  item of the list that does not begin with `  - name: ` goes the same way.
* A branch whose name is quoted or has a comment is not found (`assistant.rs:715`): its
  removal changes nothing and is reported as done, and adding it lists it twice.
  `UnrecognisedIsLost` evaluates these three.
* `try_remove_branch` takes the first branch whose name is contained in what the user
  typed (`assistant.rs:497`), which may be a prefix of the one that was meant.
* `fs::write` empties the file before it writes it (`assistant.rs:733`, 778): a kill in
  between leaves a `termite.yml` without anything in it.
* Somebody who saves the file between the two writes of an addition may have the branch
  listed twice.
* "B" is taken for a choice whether or not one was offered, so "B" to any other question
  and then "直接上" starts a sync (`assistant.rs:862`); `SyncIsAsked` says no more.
* A reply whose stream ends without `[DONE]` counts as whole (`llm/transport.rs:201`).
* The tests a task may choose are those of the branch that was checked out when it
  inspected; another may be checked out when they run (`local_task.rs:149`).

*Watch.*

* Events are told apart by the content they lead to, so a pull request that returns to an
  earlier content makes no second event (`watch/store.rs:161`).

### What the models do not reach

Seen while reading; these lie below what is modelled.

* `run_prepared` joins the readers of a tool's output without a deadline once the tool
  has ended: a process left in the background that holds the output open keeps the
  caller, and with it `repository_lock`, beyond the two hours of README.md:82
  (`command.rs:106`).
* A piece of evidence of more than 2000 bytes that control characters shrink below that
  makes the subtraction of `safe_display_evidence` go below zero (`watch/mod.rs:450`).
* The report of a task that ends in an error has no trace (`assistant.rs:206` writes it for a
  result only).
* If SQLite fails after a row was made transient, the row stays so until a restart
  (`conflicts.rs:89`); if the configuration has become invalid when `notify_once` reads it,
  a waiting job is failed (`jobs.rs:260`); two workers of one job may both send a
  notification (`security.rs:163`).
* The static scan reads the tree before `git add`, and the tests use it afterwards
  (`candidate.rs:92`); each gate's tree is its own, so only its own test commands are in
  between.

## 7. Not modelled

* Child processes and the sandbox (`command.rs`, `sandbox.rs`): a tool call is one step that
  succeeds or fails.  The poll of its end is below the grain of the models, and the
  sandbox is the arguments of one `docker` invocation.
* Doctor, research, dashboard, rendering, defaults of the configuration, argument parsing
  and the entry points: no state that two steps share.
* The research collector (`scripts/research_watch.py`): it fetches feeds and writes documents.
* Of modelled parts: errors of SQLite, panics, the wording of messages, reports, prompts and
  drafts, wire formats, the paging of the OSV scan, migrations of old databases,
  `watch scan`, two runs of `termite sync` in one working copy.

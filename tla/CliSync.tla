------------------------------- MODULE CliSync -------------------------------
(***************************************************************************)
(* SyncRunner: `termite sync`, and the daemon when there is no service.    *)
(*                                                                         *)
(* One run at a time works in the one working copy: it fetches, then takes *)
(* each branch through prepare, rebase or merge, gates, tests, push and    *)
(* tag.  The local branches stay as a run leaves them, and the next run    *)
(* starts from there.  Other people push to the fork, upstream grows, and  *)
(* the owner commits and repairs between runs.                             *)
(*                                                                         *)
(* A head is the set of the commits in its history, {} if the branch does  *)
(* not exist; an ancestor is a subset.  A commit is a change and the       *)
(* upstream version below it: a rebase makes other commits of the same     *)
(* changes.  Auto-resolve is enabled, with require_tests.                  *)
(***************************************************************************)
EXTENDS Naturals

CONSTANTS Branches,
          Own,          \* the change each branch starts with
          Others,       \* changes of other people
          Mine,         \* changes the owner commits locally
          MergeCommit,
          None,         \* no branch
          MaxUpstream,  \* bound: versions of upstream
          MaxRounds,    \* auto_resolve.max_rounds
          MaxRetries    \* MAX_REMOTE_CHANGED_RETRIES

ASSUME BoundsAssumption == MaxUpstream \in Nat /\ MaxRounds \in Nat \ {0} /\ MaxRetries \in Nat
ASSUME NamesAssumption == None \notin Branches /\ ({Own, MergeCommit} \cup Others \cup Mine) \cap Nat = {}

VARIABLES
  conf,      \* the configuration: sync, push, and whether there are tests
  upstream,  \* the version of upstream
  base,      \* the version fetched by the run
  remote,    \* remote[b]: the branch at the fork
  local,     \* local[b]: the local branch
  work,      \* the working copy: its index, and the rebase or merge it is in
  pc,        \* the next step of the run
  todo,      \* the branches it still has to take
  cur,       \* the branch it is at
  attempt,   \* retries because the fork's branch changed
  before,    \* remote_before
  round,     \* rounds of auto-resolve
  resolved,  \* auto_resolve_details is not empty
  unproven   \* branches with a resolution no passing test has seen (history)

envVars == <<conf, upstream, remote>>
runVars == <<base, todo, cur, attempt, before, round, resolved>>
vars == <<envVars, runVars, local, work, pc, unproven>>

Versions == 0..MaxUpstream
Changes == Versions \cup {Own, MergeCommit} \cup Others \cup Mine
Upstream(k) == {<<i, i>> : i \in 0..k}
ChangesOf(h) == {c[1] : c \in h}

Rebased(h, k) == Upstream(k) \cup {<<c[1], k>> : c \in h \ Upstream(k)}
Merged(h, k) ==
  h \cup Upstream(k) \cup (IF h \subseteq Upstream(k) THEN {} ELSE {<<MergeCommit, k>>})
Integrated(h, k) == IF conf.sync = "rebase" THEN Rebased(h, k) ELSE Merged(h, k)

Confs == [sync : {"rebase", "merge"}, push : {"none", "normal", "lease"}, tests : BOOLEAN]
Pcs == {"idle", "start", "next", "prepare", "sync", "conflict", "resolve", "continue", "gate",
        "tests", "verify", "push", "tag"}
FirstHead == Upstream(0) \cup {<<Own, 0>>}

\* The operation is of branch `of`, whose head was `orig` when it stopped;
\* `left` is a rebase that a later checkout has walked away from.
Clean == [index |-> "clean", op |-> "none", of |-> None, orig |-> {}]

Init ==
  /\ conf \in Confs
  /\ upstream = 0 /\ base = 0
  /\ remote \in [Branches -> {{}, FirstHead}]
  /\ local \in [Branches -> {{}, FirstHead}]
  /\ work = Clean /\ pc = "idle" /\ todo = {}
  /\ cur \in Branches
  /\ attempt = 0 /\ before = {} /\ round = 0 /\ resolved = FALSE /\ unproven = {}

Goto(p) == pc' = p

\* The local variables of sync_branch_once end with it.
Forget == attempt' = 0 /\ before' = {} /\ round' = 0 /\ resolved' = FALSE

\* run: fetch_all; all branches, or the one of --branch.
StartRun ==
  /\ pc = "idle"
  /\ base' = upstream
  /\ todo' = Branches \/ \E b \in Branches : todo' = {b}
  /\ Goto("start")
  /\ UNCHANGED <<envVars, local, work, cur, attempt, before, round, resolved, unproven>>

\* The next branch of the run, or its summary.
NextBranch ==
  /\ pc \in {"start", "next"}
  /\ \/ \E b \in todo :
          /\ cur' = b
          /\ todo' = todo \ {b}
          /\ Goto("prepare")
     \/ todo = {} /\ Goto("idle") /\ UNCHANGED <<cur, todo>>
  /\ Forget
  /\ UNCHANGED <<envVars, base, local, work, unproven>>

\* A branch's report is complete.
Report == Goto("next")

\* An error ends the run at once, and so does a kill; nothing is cleaned up.
Stop ==
  /\ pc # "idle"
  /\ Goto("idle") /\ Forget
  /\ UNCHANGED <<envVars, base, todo, cur, local, work, unproven>>


\* Mutant: the local branch is always reset to the fork's.
TargetsResetting ==
  IF remote[cur] # {} THEN {remote[cur]} ELSE {local[cur]} \ {{}}

\* Mutant: a local branch is used as it is, whatever the fork has.
TargetsTrusting ==
  IF local[cur] # {} THEN {local[cur]} ELSE {remote[cur]} \ {{}}

\* The head to check out: the fork's decides, unless the local branch holds
\* unpushed commits on top of it; none if they have diverged.
Targets ==
  IF remote[cur] # {} /\ conf.push # "none"
  THEN {h \in {remote[cur], local[cur]} : local[cur] \subseteq h /\ remote[cur] \subseteq h}
  ELSE IF local[cur] # {} THEN {local[cur]} ELSE {remote[cur]} \ {{}}

\* git checkout of the branch whose merge has stopped: HEAD is there already.
StaysPut(h) ==
  conf.sync = "merge" /\ work.op = "stopped" /\ work.of = cur /\ h = local[cur]

\* git checkout cancels a merge and walks away from a rebase; what is staged
\* comes along, unless the branch has the same.
Checkout(h) ==
  /\ local' = [local EXCEPT ![cur] = h]
  /\ \/ /\ conf.sync = "rebase" /\ work.op # "none"
        /\ \E index \in {work.index, "clean"} : work' = [work EXCEPT !.index = index, !.op = "left"]
     \/ /\ conf.sync = "merge" \/ work.op = "none"
        /\ \/ work.index = "staged" /\ work' = [work EXCEPT !.op = "none"]
           \/ ~(work.index = "staged" /\ StaysPut(h)) /\ work' = Clean
  /\ Goto("sync")

\* prepare_branch_for_sync, with nothing left in conflict.
Prepare ==
  /\ pc = "prepare" /\ work.index # "conflict"
  /\ \E h \in Targets : Checkout(h)
  /\ before' = remote[cur] /\ round' = 0 /\ resolved' = FALSE
  /\ UNCHANGED <<envVars, base, todo, cur, attempt, unproven>>

\* A conflict left in the index, or staged files the checkout would overwrite,
\* diverged branches or no branch at all: the error ends the whole run.
PrepareFails ==
  /\ pc = "prepare"
  /\ \/ work.index = "conflict"
     \/ work.index = "staged" /\ \E h \in Targets : ~StaysPut(h)
     \/ Targets = {}
  /\ Goto("idle") /\ Forget
  /\ UNCHANGED <<envVars, base, todo, cur, local, work, unproven>>

\* The head has all of the fetched upstream.
UpToDate(h) == 0..base \subseteq ChangesOf(h)

\* git rebase or merge: it completes, stops at a commit of the branch that
\* conflicts (rerere may have resolved all of it), or refuses to start, as it
\* does over staged files or a rebase that is under way.
Sync ==
  /\ pc = "sync"
  /\ \/ /\ work.op = "none"
        /\ \/ work.index = "clean"
           \/ conf.sync = "merge" /\ (UpToDate(local[cur]) \/ ChangesOf(local[cur]) \subseteq Versions)
        /\ local' = [local EXCEPT ![cur] = IF UpToDate(@) THEN @ ELSE Integrated(@, base)]
        /\ Goto("gate")
        /\ UNCHANGED work
     \/ /\ work = Clean
        /\ ~UpToDate(local[cur]) /\ ~(ChangesOf(local[cur]) \subseteq Versions)
        /\ \E index \in {"conflict", "staged", "clean"} :
             work' = [index |-> index, op |-> "stopped", of |-> cur, orig |-> local[cur]]
        /\ Goto("conflict")
        /\ UNCHANGED local
     \/ Goto("conflict") /\ UNCHANGED <<local, work>>
  /\ UNCHANGED <<envVars, runVars, unproven>>

\* abort_rebase_or_merge, whose results nobody reads: the operation is undone,
\* or all stays because the abort failed or there was nothing to abort.
GiveUp ==
  /\ \/ /\ work.op # "none"
        /\ local' = [local EXCEPT ![work.of] = work.orig]
        /\ work' = Clean
     \/ UNCHANGED <<local, work>>
  /\ Report
  /\ UNCHANGED unproven

\* What becomes of the branch checked out when a rebase that was left goes on:
\* some of the commits of its old branch are picked on top.
Mixed == {local[cur] \cup {<<c, base>> : c \in picked} : picked \in SUBSET (ChangesOf(work.orig) \ Versions)}

\* continue_sync succeeds.  A rebase that was left takes its own branch along.
Finish ==
  /\ \/ work.op = "stopped" /\ local' = [local EXCEPT ![cur] = Integrated(@, base)]
     \/ /\ work.op = "left"
        /\ \E h \in Mixed : local' = [local EXCEPT ![cur] = h, ![work.of] = h]
  /\ unproven' = unproven \cup {cur, work.of}
  /\ work' = Clean
  /\ Goto("gate")

\* continue_sync stops at another conflict of the rebase.
StopsAgain ==
  /\ conf.sync = "rebase" /\ work.op # "none"
  /\ \/ work.op = "stopped" /\ UNCHANGED <<local, unproven>>
     \/ /\ work.op = "left"
        /\ \E h \in Mixed : local' = [local EXCEPT ![cur] = h]
        /\ unproven' = unproven \cup {cur}
  /\ work' = [work EXCEPT !.index = "conflict"]
  /\ Goto("resolve")

\* Without conflicting files the staged resolutions are continued with, until
\* the end or a conflict; there may be none, or no progress.
Conflict ==
  /\ pc = "conflict"
  /\ \/ work.index = "conflict" /\ Goto("resolve") /\ UNCHANGED <<local, work, unproven, resolved>>
     \/ work.index = "staged" /\ resolved' = TRUE /\ (Finish \/ StopsAgain)
     \/ work.index # "conflict" /\ GiveUp /\ resolved' = (work.index = "staged")
  /\ UNCHANGED <<envVars, base, todo, cur, attempt, before, round>>

\* One round of try_auto_resolve_conflict: refused or rejected, or all files
\* are written and added, which may leave nothing to commit.
Resolve ==
  /\ pc = "resolve"
  /\ \/ GiveUp
     \/ /\ \E index \in {"staged", "clean"} : work' = [work EXCEPT !.index = index]
        /\ Goto("continue")
        /\ UNCHANGED <<local, unproven>>
  /\ resolved' = TRUE
  /\ UNCHANGED <<envVars, base, todo, cur, attempt, before, round>>

\* Mutant: the rounds are counted again from each new conflict.
ContinueForever ==
  /\ pc = "continue"
  /\ \/ (Finish \/ GiveUp) /\ UNCHANGED round
     \/ StopsAgain /\ round' = (round + 1) % MaxRounds
  /\ UNCHANGED <<envVars, base, todo, cur, attempt, before, resolved>>

\* The round goes on: the last conflict, another one, or no progress.
Continue ==
  /\ pc = "continue"
  /\ \/ (Finish \/ GiveUp) /\ UNCHANGED round
     \/ StopsAgain /\ round + 1 < MaxRounds /\ round' = round + 1
  /\ UNCHANGED <<envVars, base, todo, cur, attempt, before, resolved>>

\* The test policy, the prebuild gate and the security review.
Gate ==
  /\ pc = "gate"
  /\ Goto("tests") \/ Report
  /\ UNCHANGED <<envVars, runVars, local, work, unproven>>

\* Mutant: a branch without a conflict in this run is not tested.
TestsIfResolved ==
  /\ pc = "tests"
  /\ \/ /\ conf.tests \/ ~resolved
        /\ unproven' = IF conf.tests /\ resolved THEN unproven \ {cur} ELSE unproven
        /\ IF conf.push = "none" THEN Report ELSE Goto("verify")
     \/ Report /\ UNCHANGED unproven
  /\ UNCHANGED <<envVars, runVars, local, work>>

\* The tests of the working copy, the contracts, and require_tests.  They prove
\* a branch only if nothing else is staged there.
Tests ==
  /\ pc = "tests"
  /\ \/ /\ conf.tests \/ ~resolved
        /\ unproven' = IF conf.tests /\ work.index = "clean" THEN unproven \ {cur} ELSE unproven
        /\ IF conf.push = "none" THEN Report ELSE Goto("verify")
     \/ Report /\ UNCHANGED unproven
  /\ UNCHANGED <<envVars, runVars, local, work>>

\* verify_remote_before_push: if the branch has moved, the sync is retried
\* from the start, or reported as blocked.
Verify ==
  /\ pc = "verify"
  /\ \/ remote[cur] = before /\ Goto("push") /\ UNCHANGED attempt
     \/ /\ remote[cur] # before /\ attempt < MaxRetries
        /\ attempt' = attempt + 1
        /\ Goto("prepare")
     \/ remote[cur] # before /\ attempt = MaxRetries /\ Report /\ UNCHANGED attempt
  /\ UNCHANGED <<envVars, base, todo, cur, before, round, resolved, local, work, unproven>>

\* What the fork accepts: with a lease, or for a new branch, only over
\* `before`; otherwise only a descendant.
Accepts ==
  IF conf.push = "lease" \/ before = {} THEN remote[cur] = before
                                       ELSE remote[cur] \subseteq local[cur]

\* git push, whose answer may be lost.
Push ==
  /\ pc = "push"
  /\ \/ Accepts /\ remote' = [remote EXCEPT ![cur] = local[cur]]
     \/ UNCHANGED remote
  /\ \/ remote'[cur] = local[cur] /\ Goto("tag")
     \/ Report
  /\ UNCHANGED <<conf, upstream, runVars, local, work, unproven>>

\* ensure_release_tag, which may fail; the report is made either way.
Tag ==
  /\ pc = "tag"
  /\ Report
  /\ UNCHANGED <<envVars, runVars, local, work, unproven>>

Step ==
  \/ NextBranch \/ Prepare \/ PrepareFails \/ Sync \/ Conflict \/ Resolve
  \/ Continue \/ Gate \/ Tests \/ Verify \/ Push \/ Tag

UpstreamGrows ==
  /\ upstream < MaxUpstream
  /\ upstream' = upstream + 1
  /\ UNCHANGED <<conf, remote, runVars, local, work, pc, unproven>>

\* Other people push a commit, or delete the branch.
OtherPush(b, x) ==
  /\ remote[b] # {} /\ x \notin ChangesOf(remote[b])
  /\ remote' = [remote EXCEPT ![b] = @ \cup {<<x, 0>>}]
  /\ UNCHANGED <<conf, upstream, runVars, local, work, pc, unproven>>
OtherDelete(b) ==
  /\ remote[b] # {}
  /\ remote' = [remote EXCEPT ![b] = {}]
  /\ UNCHANGED <<conf, upstream, runVars, local, work, pc, unproven>>

\* Between runs the owner commits, resets a branch to the fork's, or aborts
\* what a run left behind.
OwnerCommits(b, y) ==
  /\ pc = "idle" /\ work = Clean /\ local[b] # {} /\ y \notin ChangesOf(local[b])
  /\ local' = [local EXCEPT ![b] = @ \cup {<<y, 0>>}]
  /\ UNCHANGED <<envVars, runVars, work, pc, unproven>>
OwnerResets(b) ==
  /\ pc = "idle" /\ work = Clean /\ remote[b] # {}
  /\ local' = [local EXCEPT ![b] = remote[b]]
  /\ unproven' = unproven \ {b}
  /\ UNCHANGED <<envVars, runVars, work, pc>>
OwnerAborts ==
  /\ pc = "idle" /\ work # Clean /\ work' = Clean
  /\ local' = IF work.op = "none" THEN local ELSE [local EXCEPT ![work.of] = work.orig]
  /\ UNCHANGED <<envVars, runVars, pc, unproven>>

Owner ==
  \/ \E b \in Branches : OwnerResets(b) \/ \E y \in Mine : OwnerCommits(b, y)
  \/ OwnerAborts
Environment ==
  \/ UpstreamGrows \/ Owner
  \/ \E b \in Branches : OtherDelete(b) \/ \E x \in Others : OtherPush(b, x)

Next == StartRun \/ Step \/ Stop \/ Environment

Spec == Init /\ [][Next]_vars
FairSpec == Spec /\ WF_vars(Step)

-----------------------------------------------------------------------------
Heads == SUBSET (Changes \X Versions)

Works ==
  {Clean} \cup {w \in [index : {"clean", "conflict", "staged"}, op : {"none", "stopped", "left"},
                     of : Branches, orig : Heads] : w.op = "none" => w.index = "staged"}

TypeOK ==
  /\ conf \in Confs
  /\ upstream \in Versions /\ base \in 0..upstream
  /\ remote \in [Branches -> Heads] /\ local \in [Branches -> Heads]
  /\ work \in Works /\ pc \in Pcs /\ (pc = "resolve" => work.index = "conflict")
  /\ todo \subseteq Branches /\ cur \in Branches
  /\ attempt \in 0..MaxRetries /\ before \in Heads
  /\ round \in 0..MaxRounds - 1 /\ resolved \in BOOLEAN
  /\ unproven \subseteq Branches

\* "Local commits that were not pushed are kept" (prepare_branch_for_sync): a
\* run never loses a change from a local branch, whatever conflicts, failures
\* and retries it goes through and wherever earlier runs have stopped.  What it
\* had fetched of other people's it may take back.
LocalKept ==
  [][Step => \A b \in Branches : ChangesOf(local[b]) \ Others \subseteq ChangesOf(local'[b])]_vars

\* "A later push is still guarded by the fork's head" (the same comment): no
\* push loses a change of other people.
NothingLost == [][Push => ChangesOf(remote[cur]) \subseteq ChangesOf(remote'[cur])]_vars

\* With tests, an automatic resolution is pushed only when they have passed on
\* it, in this run or an earlier one.
ResolvedIsTested == conf.tests /\ pc = "tag" => cur \notin unproven

\* "With require_tests there must be tests, and all must pass, after an
\* automatic resolution, or there is no push" (README).
RequireTests == pc = "tag" => cur \notin unproven

\* A run ends, whatever changes around it.
RunEnds == pc # "idle" ~> pc = "idle"

\* What a run left in the working copy is cleared away, or the next run begins
\* with the same branch: with several branches LocalKept and ResolvedIsTested
\* hold under this hypothesis only.
LeftoversAreOwn == [][Prepare => work.of \in {None, cur}]_vars

\* Why: from prepare to push the local branch has every change of `before`.
Based ==
  conf.push # "none" /\ pc \in {"sync", "conflict", "resolve", "continue", "gate", "tests", "verify", "push"} =>
    ChangesOf(before) \subseteq ChangesOf(local[cur])

\* Why, under LeftoversAreOwn: what is left in the working copy is of a branch
\* with commits of its own and without all of upstream, which has no changes
\* but those it had then and other people's; and nothing is left at the tests.
Leftovers ==
  /\ pc \in {"sync", "conflict", "resolve", "continue"} /\ work # Clean => work.of = cur
  /\ pc \in {"gate", "tests", "verify", "push", "tag"} => work = Clean
  /\ pc = "sync" /\ conf.push # "none" => ChangesOf(remote[cur]) \subseteq ChangesOf(local[cur]) \cup Others
  /\ work # Clean =>
       /\ ~(ChangesOf(local[work.of]) \subseteq Versions)
       /\ ChangesOf(local[work.of]) \subseteq ChangesOf(work.orig) \cup Others
       /\ conf.push # "none" => ChangesOf(remote[work.of]) \subseteq ChangesOf(work.orig) \cup Others
       /\ ~UpToDate(work.orig)
=============================================================================

------------------------------ MODULE BranchPush -----------------------------
(***************************************************************************)
(* push_job: how the jobs of the service put a branch on the fork that     *)
(* other people push to as well.                                           *)
(*                                                                         *)
(* A job starts from the head it has fetched, its base, and builds a       *)
(* candidate: the base with the job's commit, or the base itself when the  *)
(* upstream has nothing new.  push_job compares the fork's head with the   *)
(* one in the row, pushes with a lease on it, records the candidate in the *)
(* row and publishes the tag.  A head is the sequence of changes in it.    *)
(***************************************************************************)
EXTENDS Sequences, SequencesExt

CONSTANTS Jobs,
          Others,   \* changes of other people
          Rebase,   \* branch.sync is rebase, not merge
          Lease     \* branch.push is force-with-lease, not normal

ASSUME RebaseAssumption == Rebase \in BOOLEAN
ASSUME LeaseAssumption == Lease \in BOOLEAN

VARIABLES
  remote,    \* the head of the branch at the fork, <<>> if there is none
  pc,        \* pc[j]: the next step of the job, or where it waits or ended
  base,      \* base[j]: the head its worktree was made from
  cand,      \* cand[j]: HEAD of its worktree
  recorded,  \* recorded[j]: column remote_head
  reviewed,  \* reviewed[j]: pushed by push_reviewed_job, not by the sync itself
  held       \* jobs whose candidate the fork has had (history)

jobVars == <<pc, base, cand, recorded, reviewed, held>>
vars == <<remote, jobVars>>

Working == {"build", "list", "push", "record", "tag"}
Built == {"list", "push", "record", "tag", "waiting_push", "waiting_tag", "completed"}
Pcs == Working \cup {"idle", "waiting_push", "waiting_tag", "completed", "failed"}

Init ==
  /\ remote = <<>>
  /\ pc = [j \in Jobs |-> "idle"]
  /\ base = [j \in Jobs |-> <<>>]
  /\ cand = [j \in Jobs |-> <<>>]
  /\ recorded = [j \in Jobs |-> <<>>]
  /\ reviewed = [j \in Jobs |-> FALSE]
  /\ held = {}

Goto(j, p) == pc' = [pc EXCEPT ![j] = p]

\* fetch_all and git worktree add: HEAD of the worktree is the base, and is
\* written to the row as the lease of the push to come.
Prepare(j) ==
  /\ pc[j] = "idle"
  /\ base' = [base EXCEPT ![j] = remote]
  /\ recorded' = [recorded EXCEPT ![j] = remote]
  /\ Goto(j, "build")
  /\ UNCHANGED <<remote, cand, reviewed, held>>

\* The rebase or merge and the tests, by the sync itself or, after a conflict,
\* with the admin's help.  Upstream may have nothing new.
Build(j) ==
  /\ pc[j] = "build"
  /\ \/ /\ cand' = [cand EXCEPT ![j] = IF Rebase THEN <<j>> \o base[j]
                                                 ELSE Append(base[j], j)]
        /\ UNCHANGED held
     \/ /\ base[j] # <<>>
        /\ cand' = [cand EXCEPT ![j] = base[j]]
        /\ held' = held \cup {j}
  /\ \/ Goto(j, "list") /\ UNCHANGED reviewed
     \/ Goto(j, "waiting_push") /\ reviewed' = [reviewed EXCEPT ![j] = TRUE]
  /\ UNCHANGED <<remote, base, recorded>>

\* Mutant: the lease is sampled again when the push is retried.
PushReviewedResampling(j) ==
  /\ pc[j] \in {"waiting_push", "waiting_tag"}
  /\ reviewed' = [reviewed EXCEPT ![j] = TRUE]
  /\ recorded' = [recorded EXCEPT ![j] = remote]
  /\ Goto(j, "list")
  /\ UNCHANGED <<remote, base, cand, held>>

\* push_reviewed_job: by the apply worker, or when the admin retries.
PushReviewed(j) ==
  /\ pc[j] \in {"waiting_push", "waiting_tag"}
  /\ reviewed' = [reviewed EXCEPT ![j] = TRUE]
  /\ Goto(j, "list")
  /\ UNCHANGED <<remote, base, cand, recorded, held>>

\* An error of push_job: a reviewed job waits for a retry; a sync does if its
\* row names the candidate as the fork's head, and has failed if not.
PushFails(j) ==
  Goto(j, IF reviewed[j] THEN "waiting_push"
          ELSE IF recorded[j] = cand[j] THEN "waiting_tag" ELSE "failed")

\* fetch_branch and ls-remote: the head must be the recorded one, or already
\* the candidate, which is then not pushed again.
List(j) ==
  /\ pc[j] = "list"
  /\ \/ remote = cand[j] /\ Goto(j, "record")
     \/ remote = recorded[j] /\ remote # cand[j] /\ Goto(j, "push")
     \/ PushFails(j)
  /\ UNCHANGED <<remote, base, cand, recorded, reviewed, held>>

\* Mutant: the push is forced without a lease.
AcceptsAnything(j) == TRUE

\* What the fork accepts: with a lease, only over the recorded head; without,
\* only a descendant of what it has.
Accepts(j) ==
  IF Lease \/ reviewed[j] \/ recorded[j] = <<>>
    THEN remote = recorded[j]
    ELSE IsPrefix(remote, cand[j])

\* Mutant: the exit status of git push is not looked at.
PushUnchecked(j) ==
  /\ pc[j] = "push"
  /\ Goto(j, "record")
  /\ \/ Accepts(j) /\ remote' = cand[j] /\ held' = held \cup {j}
     \/ UNCHANGED <<remote, held>>
  /\ UNCHANGED <<base, cand, recorded, reviewed>>

\* git push.  The answer may be lost although the branch was updated.
Push(j) ==
  /\ pc[j] = "push"
  /\ \/ /\ Accepts(j)
        /\ remote' = cand[j]
        /\ held' = held \cup {j}
        /\ Goto(j, "record") \/ PushFails(j)
     \/ /\ remote = cand[j]
        /\ Goto(j, "record")
        /\ UNCHANGED <<remote, held>>
     \/ PushFails(j) /\ UNCHANGED <<remote, held>>
  /\ UNCHANGED <<base, cand, recorded, reviewed>>

\* The candidate becomes the recorded head before the tag is tried.
Record(j) ==
  /\ pc[j] = "record"
  /\ recorded' = [recorded EXCEPT ![j] = cand[j]]
  /\ Goto(j, "tag")
  /\ UNCHANGED <<remote, base, cand, reviewed, held>>

\* ensure_release_tag, and the job's end.
Tag(j) ==
  /\ pc[j] = "tag"
  /\ Goto(j, "completed") \/ PushFails(j)
  /\ UNCHANGED <<remote, base, cand, recorded, reviewed, held>>

Step(j) ==
  Prepare(j) \/ Build(j) \/ PushReviewed(j) \/ List(j) \/ Push(j) \/ Record(j) \/ Tag(j)

\* The process stops; on startup the jobs at work have failed.
Restart ==
  /\ \E j \in Jobs : pc[j] \in Working
  /\ pc' = [j \in Jobs |-> IF pc[j] \in Working THEN "failed" ELSE pc[j]]
  /\ UNCHANGED <<remote, base, cand, recorded, reviewed, held>>

\* Other people push a commit, or rewind or delete the branch by force.
OtherPush(o) ==
  /\ o \notin ToSet(remote)
  /\ remote' = Append(remote, o)
  /\ UNCHANGED jobVars
OtherRewind ==
  /\ remote # <<>>
  /\ remote' = Front(remote)
  /\ UNCHANGED jobVars

Next ==
  \/ \E j \in Jobs : Step(j)
  \/ Restart
  \/ \E o \in Others : OtherPush(o)
  \/ OtherRewind

Spec == Init /\ [][Next]_vars

-----------------------------------------------------------------------------
Heads == Seq(Jobs \cup Others)

TypeOK ==
  /\ remote \in Heads
  /\ pc \in [Jobs -> Pcs]
  /\ base \in [Jobs -> Heads]
  /\ cand \in [Jobs -> Heads]
  /\ recorded \in [Jobs -> Heads]
  /\ reviewed \in [Jobs -> BOOLEAN]
  /\ held \subseteq Jobs

\* A push never removes a change from the fork's branch, however the branch
\* moved while the job was rebased, tested, reviewed or retried.
NothingLost == [][\A j \in Jobs : Step(j) => ToSet(remote) \subseteq ToSet(remote')]_vars

\* A push neither loses nor brings back anything: the jobs act as if each had
\* fetched, integrated and pushed in one step.  ("Refuses to overwrite when
\* the remote SHA has changed", push_reviewed_job.)
Fork == INSTANCE ForkBranch
ImplementsFork == Fork!Spec

\* A candidate stands in the row as the fork's head only when the fork has had
\* it, whatever answers were lost; and a job is completed only then.
RecordedWasHeld ==
  \A j \in Jobs :
    /\ pc[j] \in Built /\ recorded[j] = cand[j] => j \in held
    /\ pc[j] = "completed" => recorded[j] = cand[j]

\* Why: before its push a job's lease is its base, and its candidate is made
\* from the base.
LeaseInv ==
  \A j \in Jobs :
    /\ pc[j] \in {"build", "push"} => recorded[j] = base[j]
    /\ pc[j] \in Built => recorded[j] \in {base[j], cand[j]}
    /\ pc[j] \in Built => cand[j] \in Fork!Integrated(base[j], j) \cup {base[j]}

\* Why RecordedWasHeld: the commit of a job that the fork has not had is in its own
\* candidate and nowhere else, so that a head that is its candidate shows that it was held.
HeldInv ==
  \A j \in Jobs :
    /\ pc[j] \in {"record", "tag"} => j \in held
    /\ pc[j] \in {"tag", "completed"} => recorded[j] = cand[j]
    /\ j \notin held =>
         /\ pc[j] \in Built => j \in ToSet(cand[j]) /\ recorded[j] # cand[j]
         /\ j \notin ToSet(remote)
         /\ \A k \in Jobs : j \notin ToSet(base[k]) /\ (k # j => j \notin ToSet(cand[k]))
=============================================================================

------------------------------ MODULE ForkBranch -----------------------------
(* What pushing promises to the people who share a branch of the fork: every *)
(* job changes the branch at most as if it had fetched it, put its commit on *)
(* it and pushed in one step.  A head is the sequence of the changes in it;  *)
(* <<>> is a branch that does not exist.                                     *)
EXTENDS Sequences, SequencesExt

CONSTANTS Jobs, Others

VARIABLE remote   \* the head of the branch at the fork

\* A merge puts the job's commit on top, a rebase rewrites what it lies under.
Integrated(h, j) == {Append(h, j), <<j>> \o h}

Integrate(j) == remote' \in Integrated(remote, j)

\* Other people push, rewind or delete the branch.
OtherPush(o) == o \notin ToSet(remote) /\ remote' = Append(remote, o)
OtherRewind == remote # <<>> /\ remote' = Front(remote)

Init == remote = <<>>

Next ==
  \/ \E j \in Jobs : Integrate(j)
  \/ \E o \in Others : OtherPush(o)
  \/ OtherRewind

Spec == Init /\ [][Next]_remote
=============================================================================

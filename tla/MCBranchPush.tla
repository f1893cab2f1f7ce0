---------------------------- MODULE MCBranchPush -----------------------------
(* TLC instances of BranchPush: jobs, and other people's changes, are        *)
(* interchangeable.                                                          *)
EXTENDS BranchPush

Symmetry == Permutations(Jobs) \cup Permutations(Others)
=============================================================================

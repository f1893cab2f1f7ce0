--------------------------- MODULE MCServiceJobs ---------------------------
(* TLC instances of ServiceJobs: threads and ids are interchangeable.      *)
EXTENDS ServiceJobs, TLC

Symmetry == Permutations(Jobs) \cup Permutations(Workers)
=============================================================================

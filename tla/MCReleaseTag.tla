---------------------------- MODULE MCReleaseTag -----------------------------
(* TLC instances of ReleaseTag.  The liveness property excludes symmetry.    *)
EXTENDS ReleaseTag
=============================================================================

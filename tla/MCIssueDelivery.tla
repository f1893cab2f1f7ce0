--------------------------- MODULE MCIssueDelivery ---------------------------
(* TLC instance of IssueDelivery; liveness is checked, so no symmetry.       *)
EXTENDS IssueDelivery
=============================================================================

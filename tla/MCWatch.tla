------------------------------- MODULE MCWatch -------------------------------
(* TLC instance of Watch.                                                    *)
EXTENDS Watch
=============================================================================

------------------------------ MODULE JobStatus ------------------------------
(* A job as the daemon and the dashboard see it over the socket: at work,    *)
(* waiting for the admin, or ended.  A failed job may be taken up once more, *)
(* to be abandoned.  When a job can meet a second conflict, a late error of  *)
(* its worker may overwrite whatever the row says (execute_apply).           *)

CONSTANTS Jobs, SecondConflict

VARIABLE status

Rows == {"working", "waiting", "completed", "failed"}
Statuses == Rows \cup {"none", "gone"}

\* What a status may be followed by.
Orderly ==
  [s \in Statuses |->
    CASE s = "none"      -> {"working"}
      [] s = "working"   -> {"waiting", "completed", "failed", "gone"}
      [] s = "waiting"   -> {"working"}
      [] s = "completed" -> {"gone"}
      [] s = "failed"    -> {"working", "gone"}
      [] s = "gone"      -> {}]
Follow(s) == Orderly[s] \cup IF SecondConflict /\ s \in Rows THEN Rows ELSE {}

Init == status = [j \in Jobs |-> "none"]

Next ==
  status' \in [Jobs -> Statuses] /\
  \A j \in Jobs : status'[j] \in Follow(status[j]) \cup {status[j]}

Spec == Init /\ [][Next]_status
=============================================================================

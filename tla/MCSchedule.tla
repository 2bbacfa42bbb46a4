----------------------------- MODULE MCSchedule -----------------------------
(* A small instance of Schedule for TLC: see sched.cfg. *)
EXTENDS Schedule

CONSTANTS WebTask, Morning, Evening

OneWriter == {WebTask}
TwoTasks  == {Morning, Evening}
=============================================================================

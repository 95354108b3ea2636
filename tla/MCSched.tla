------------------------------ MODULE MCSched ------------------------------
(***************************************************************************)
(* Model-checking instance of Sched: four PCB slots (the boot idle task,   *)
(* init and two more for create_task, sys_fork and the idle tasks that     *)
(* schedule() creates).  The cfg files scale TIME_SLICE and MAX_PRIORITY.  *)
(***************************************************************************)
EXTENDS Sched

CONSTANTS s1, s2, s3, s4

MCSlots == {s1, s2, s3, s4}
=============================================================================

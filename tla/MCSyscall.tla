----------------------------- MODULE MCSyscall -----------------------------
(***************************************************************************)
(* Model-checking instance of Syscall: three PCB slots (the boot idle   *)
(* task, init, and one more for a fork child or an idle task).          *)
(***************************************************************************)
EXTENDS Syscall

CONSTANTS s1, s2, s3

MCSlots == {s1, s2, s3}
=============================================================================

----------------------------- MODULE MCProcMgr -----------------------------
(* ProcMgr with three PCB blocks. *)
EXTENDS ProcMgr

CONSTANTS k0, q1, q2

MCSlots == {k0, q1, q2}
=============================================================================

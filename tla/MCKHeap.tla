------------------------------ MODULE MCKHeap ------------------------------
(***************************************************************************)
(* Model-checking instance of KHeap: a 96-byte arena with an 8-bit        *)
(* size_t, so that three or four allocations exhaust it and every split,   *)
(* no-split and merge case of kheap.c is reached.                          *)
(***************************************************************************)
EXTENDS KHeap

\* Request sizes that exercise: exact 8-byte multiple, rounding up, a block
\* too small to split off, and an allocation that fails for lack of room.
MCRequests == {0, 1, 20, 64, 100}

\* Requests within 7 bytes of SIZE_MAX, whose rounding wraps to zero.
MCWrapRequests == {8, WordMod - 3}
=============================================================================

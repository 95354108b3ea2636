------------------------------ MODULE MCTmpFS ------------------------------
(* TmpFS with two inode blocks and two descriptor slots. *)
EXTENDS TmpFS, TLC

CONSTANTS n1, n2

MCInodes == {n1, n2}

\* lseek arguments: -1 becomes the offset 0xFFFFFFFF, scaled.
MCOffs == {-1, 1}

Symmetry == Permutations(MCInodes)
=============================================================================

------------------------------ MODULE MCRamFS ------------------------------
(* The instances of RamFS that TLC checks.                                 *)
EXTENDS RamFS, TLC

CONSTANTS i1, i2, i3, e1, e2, e3, e4, e5, e6

MCIno == {i1, i2, i3}
MCEnt == {e1, e2, e3, e4, e5}

\* One entry block more: room for the root's two entries, one entry in a
\* subdirectory and the three entries of a mkdir below it.
MCEnt6 == MCEnt \cup {e6}

\* Heap blocks are interchangeable: no operation depends on which block
\* kmalloc returns.
Symmetry == Permutations(MCIno) \cup Permutations(MCEnt)

Symmetry6 == Permutations(MCIno) \cup Permutations(MCEnt6)
=============================================================================

---------------------------- MODULE HeapAbstract ----------------------------
(***************************************************************************)
(* What the kernel heap promises its callers (kmalloc/kfree in            *)
(* src/kernel/mm/kheap.c, used by the scheduler, the file systems and the  *)
(* ELF loader): every successful kmalloc(n) hands out n bytes inside the   *)
(* arena that overlap no byte of any other live allocation, and kfree      *)
(* gives back exactly one live allocation.  Failure (NULL) is always       *)
(* allowed and changes nothing.                                            *)
(***************************************************************************)
EXTENDS Naturals, Functions, TLC

CONSTANTS
    ARENA,      \* number of bytes in the heap arena
    Requests    \* request sizes the callers pass to kmalloc

VARIABLE
    alloc       \* live allocations: payload address -> requested length

\* The bytes [p, p + n) of an allocation.
Region(p, n) == p .. (p + n - 1)

\* The bytes of every live allocation other than the one at address q.
OtherBytes(q) == UNION { Region(p, alloc[p]) : p \in DOMAIN alloc \ {q} }

AInit == alloc = [p \in {} |-> 0]

\* A successful allocation: a fresh region inside the arena, disjoint from
\* all live regions.
AAlloc ==
    \E p \in 0 .. (ARENA - 1), n \in Requests \ {0} :
        /\ p \notin DOMAIN alloc
        /\ p + n <= ARENA
        /\ Region(p, n) \cap OtherBytes(p) = {}
        /\ alloc' = alloc @@ (p :> n)

\* Releasing a live allocation.
AFree ==
    \E p \in DOMAIN alloc :
        alloc' = Restrict(alloc, DOMAIN alloc \ {p})

ANext == AAlloc \/ AFree

ASpec == AInit /\ [][ANext]_alloc
=============================================================================

------------------------------- MODULE KHeap -------------------------------
(***************************************************************************)
(* The kernel heap allocator of src/kernel/mm/kheap.c.                     *)
(*                                                                         *)
(* The arena is a chain of blocks, each starting with a heap_block_t       *)
(* header (size including the header, next, prev, is_free).  The chain is *)
(* address ordered and contiguous: split_block inserts the new block right *)
(* after the block it carves, merge_blocks removes the absorbed one, and   *)
(* both keep next/prev consistent.  So the chain is modelled as the        *)
(* sequence `blocks` of [size, free] records, in address order; the        *)
(* address of a block is the sum of the sizes before it.                   *)
(*                                                                         *)
(* size_t arithmetic is kept modulo 2^WordBits.  The arena (16 MiB in the  *)
(* code) is scaled down to ARENA bytes and the word width with it, so that *)
(* requests within 7 bytes of SIZE_MAX still wrap as they do in the code.  *)
(***************************************************************************)
EXTENDS Naturals, Sequences, SequencesExt, Functions, TLC

CONSTANTS
    ARENA,      \* KHEAP_SIZE, scaled down
    WordBits,   \* width of size_t, scaled down with the arena
    Requests,   \* sizes callers pass to kmalloc
    NULL        \* the NULL pointer kmalloc returns on failure

\* sizeof(heap_block_t) on i386: size_t + two pointers + bool, padded.
HDR == 16

WordMod == 2 ^ WordBits

ASSUME ARENA \in Nat /\ ARENA > HDR /\ ARENA < WordMod
ASSUME Requests \subseteq 0 .. (WordMod - 1)

VARIABLES
    blocks,     \* the block chain starting at kheap.free_list
    used_size,  \* kheap.used_size
    live,       \* client view: pointer returned by kmalloc -> requested size
    ret,        \* value returned by the last kmalloc
    lastAlloc   \* history: the last successful kmalloc and the chain before it

vars == << blocks, used_size, live, ret, lastAlloc >>

NoAlloc == [ptr |-> NULL, before |-> << >>]

Block == [size : 0 .. ARENA, free : BOOLEAN]

(***************************************************************************)
(* Helpers.                                                                *)
(***************************************************************************)

\* Sum of the sizes of a sequence of blocks.
SumSizes(s) == FoldLeft(LAMBDA acc, b : acc + b.size, 0, s)

\* Address (offset into the arena) of the header of block i.
Addr(s, i) == SumSizes(SubSeq(s, 1, i - 1))

\* Index of the block whose header is at address a, 0 if none.
BlockAt(s, a) ==
    IF \E i \in 1 .. Len(s) : Addr(s, i) = a
    THEN CHOOSE i \in 1 .. Len(s) : Addr(s, i) = a
    ELSE 0

\* Mutation: rounding down instead of up.
Mut_AlignSize(n) == (n \div 8) * 8

\* align_size: (size + 7) & ~7, in size_t.
AlignSize(n) == (((n + 7) % WordMod) \div 8) * 8

\* kmalloc: align_size(size) + sizeof(heap_block_t), in size_t.
ActualSize(n) == (AlignSize(n) + HDR) % WordMod

\* Mutation: first fit that forgets to test is_free.
Mut_FindFreeBlock(s, size) ==
    IF \E i \in 1 .. Len(s) : s[i].size >= size
    THEN CHOOSE i \in 1 .. Len(s) :
            /\ s[i].size >= size
            /\ \A j \in 1 .. (i - 1) : ~(s[j].size >= size)
    ELSE 0

\* find_free_block: first block of the chain that is free and big enough;
\* 0 stands for NULL.
FindFreeBlock(s, size) ==
    IF \E i \in 1 .. Len(s) : s[i].free /\ s[i].size >= size
    THEN CHOOSE i \in 1 .. Len(s) :
            /\ s[i].free /\ s[i].size >= size
            /\ \A j \in 1 .. (i - 1) : ~(s[j].free /\ s[j].size >= size)
    ELSE 0

\* Mutation: the tail block loses the header of the front block.
Mut_SplitBlock(s, i, size) ==
    IF s[i].size - size < HDR + 8
    THEN s
    ELSE SubSeq(s, 1, i - 1)
         \o << [size |-> size, free |-> s[i].free],
               [size |-> s[i].size - size - HDR, free |-> TRUE] >>
         \o SubSeq(s, i + 1, Len(s))

\* split_block: carve a free tail block off block i when the remainder can
\* hold a header and 8 bytes of payload.  size <= s[i].size here.
SplitBlock(s, i, size) ==
    IF s[i].size - size < HDR + 8
    THEN s
    ELSE SubSeq(s, 1, i - 1)
         \o << [size |-> size, free |-> s[i].free],
               [size |-> s[i].size - size, free |-> TRUE] >>
         \o SubSeq(s, i + 1, Len(s))

\* Mutation: the absorbed block's header is counted twice.
Mut_Coalesce(s, i) ==
    SubSeq(s, 1, i - 1)
    \o << [size |-> s[i].size + s[i + 1].size + HDR, free |-> s[i].free] >>
    \o SubSeq(s, i + 2, Len(s))

\* Block i absorbs block i + 1 (size += next->size; relink).
Coalesce(s, i) ==
    SubSeq(s, 1, i - 1)
    \o << [size |-> s[i].size + s[i + 1].size, free |-> s[i].free] >>
    \o SubSeq(s, i + 2, Len(s))

\* Mutation: only the backward merge is done.
Mut_MergeBlocks(s, i) ==
    IF i > 1 /\ s[i - 1].free THEN Coalesce(s, i - 1) ELSE s

\* merge_blocks: merge with the next block if free, then with the previous
\* block if free.
MergeBlocks(s, i) ==
    LET t == IF i < Len(s) /\ s[i + 1].free THEN Coalesce(s, i) ELSE s
    IN  IF i > 1 /\ t[i - 1].free THEN Coalesce(t, i - 1) ELSE t

(***************************************************************************)
(* Operations.                                                             *)
(***************************************************************************)

\* init_kheap: one free block spanning the arena.
Init ==
    /\ blocks = << [size |-> ARENA, free |-> TRUE] >>
    /\ used_size = 0
    /\ live = [p \in {} |-> 0]
    /\ ret = NULL
    /\ lastAlloc = NoAlloc

\* kmalloc(n): NULL for n = 0 or when no block fits; otherwise first fit,
\* split, mark used, account actual_size, return the payload address.
Kmalloc(n) ==
    LET actual == ActualSize(n)
        i      == FindFreeBlock(blocks, actual)
        ptr    == Addr(blocks, i) + HDR
    IN
    \/ /\ n = 0
       /\ ret' = NULL
       /\ UNCHANGED << blocks, used_size, live, lastAlloc >>
    \/ /\ n # 0
       /\ i = 0
       /\ ret' = NULL
       /\ UNCHANGED << blocks, used_size, live, lastAlloc >>
    \/ /\ n # 0
       /\ i # 0
       /\ blocks' = [SplitBlock(blocks, i, actual) EXCEPT ![i].free = FALSE]
       /\ used_size' = (used_size + actual) % WordMod
       /\ live' = live @@ (ptr :> n)
       /\ ret' = ptr
       /\ lastAlloc' = [ptr |-> ptr, before |-> blocks]

\* kfree(ptr) of a pointer some caller holds: find the header before ptr;
\* the double-free early return needs a block already free, which a live
\* pointer never has; mark it free, subtract its size, merge.
Kfree(p) ==
    LET i == BlockAt(blocks, p - HDR)
    IN
    /\ i # 0
    /\ ~blocks[i].free
    /\ blocks' = MergeBlocks([blocks EXCEPT ![i].free = TRUE], i)
    /\ used_size' = (used_size + WordMod - blocks[i].size) % WordMod
    /\ live' = Restrict(live, DOMAIN live \ {p})
    /\ lastAlloc' = IF p = lastAlloc.ptr THEN lastAlloc ELSE NoAlloc
    /\ UNCHANGED ret

\* get_kheap_info: the free byte count it reports.
KheapFree == (ARENA + WordMod - used_size) % WordMod

Next ==
    \/ \E n \in Requests : Kmalloc(n)
    \/ \E p \in DOMAIN live : Kfree(p)

Spec == Init /\ [][Next]_vars

(***************************************************************************)
(* Properties.                                                             *)
(***************************************************************************)

TypeOK ==
    /\ blocks \in Seq(Block)
    /\ used_size \in 0 .. (WordMod - 1)
    /\ DOMAIN live \subseteq 0 .. ARENA
    /\ ret \in (0 .. ARENA) \cup {NULL}

\* The blocks of the chain tile the arena exactly: split_block and
\* merge_blocks never lose or invent bytes (spec section 8).
CoversArena == SumSizes(blocks) = ARENA

\* No two neighbouring blocks are both free: split never leaves a free
\* block beside a free one and kfree's forward-then-backward merge
\* restores the invariant (spec section 8).
NoAdjacentFree ==
    \A i \in 1 .. (Len(blocks) - 1) : ~(blocks[i].free /\ blocks[i + 1].free)

\* Every pointer a caller holds sits right after the header of a used block
\* whose payload holds at least the requested bytes: align_size and the
\* header arithmetic in kmalloc never hand out too little memory.
AllocFits ==
    \A p \in DOMAIN live :
        LET i == BlockAt(blocks, p - HDR)
        IN  /\ i # 0
            /\ ~blocks[i].free
            /\ blocks[i].size >= HDR + live[p]

\* Round trip (spec section 8): kfree of the pointer the last kmalloc
\* returned restores the block chain that kmalloc started from.
RoundTrip ==
    [][ (lastAlloc # NoAlloc /\ lastAlloc.ptr \in DOMAIN live
         /\ lastAlloc.ptr \notin DOMAIN live')
        => blocks' = lastAlloc.before ]_vars

\* The allocator implements the abstract heap: allocations never overlap.
Abs == INSTANCE HeapAbstract WITH alloc <- live
AbstractHeap == Abs!ASpec
=============================================================================

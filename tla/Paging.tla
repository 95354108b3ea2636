------------------------------- MODULE Paging -------------------------------
(***************************************************************************)
(* The physical frame allocator and the page-table code of                *)
(* src/kernel/mm/paging.c, with their only run-time callers: mmap and      *)
(* munmap of src/kernel/proc/process.c, reached by sys_mmap and sys_munmap *)
(* (src/kernel/syscall.c).                                                 *)
(*                                                                         *)
(* Physical memory is modelled word by word, because the code's data       *)
(* structures share it: the frame bitmap is the fixed address 0x100000     *)
(* (frame RES, the first frame after the RES reserved ones), and page      *)
(* directories and tables are frames handed out by alloc_frame and written *)
(* through their physical addresses (paging is off while they are built).  *)
(* A word is WordBits wide.  A bitmap word holds one bit per frame; a page *)
(* entry holds a frame number above FlagBits flag bits.  In the code a     *)
(* word is 32 bits, a page holds 1024 words, there are 32768 frames and    *)
(* the bitmap fills exactly one page; the scaled constants keep that       *)
(* (NF = WordBits * EP).  A frame number an entry can hold but that has no *)
(* RAM behind it reads as all ones and ignores writes.                     *)
(***************************************************************************)
EXTENDS Naturals, FiniteSets, FiniteSetsExt, Bitwise, TLC

CONSTANTS
    NF,             \* total_frames: 128 MiB / PAGE_SIZE, scaled
    EP,             \* PAGE_DIR_ENTRIES = PAGE_TABLE_ENTRIES = words per page
    WordBits,       \* width of a memory word (32)
    FlagBits,       \* entry bits below the frame number (12)
    RES,            \* reserved_frames: 0x100000 / PAGE_SIZE
    CounterBits,    \* width of used_frames (uint32_t), scaled
    ReservedWords,  \* possible contents of a word of low memory at boot
    Addrs,          \* page numbers user code passes to mmap/munmap (0 = NULL)
    Lengths,        \* lengths in pages passed to mmap/munmap
    Prots           \* prot arguments passed to mmap

ASSUME NF = WordBits * EP /\ NF <= 2 ^ (WordBits - FlagBits) /\ FlagBits >= 3
ASSUME RES \in 1 .. (NF - 1)

PAGE_PRESENT == 1
PAGE_WRITABLE == 2
PAGE_USER == 4

WordMax == 2 ^ WordBits - 1
CounterMod == 2 ^ CounterBits
Frames == 0 .. (NF - 1)
Reserved == 0 .. (RES - 1)
Idx == 0 .. (EP - 1)

\* The bitmap sits at 0x100000, which is frame RES.
BitmapFrame == RES

\* Virtual page numbers: a directory index times EP plus a table index.
VP == EP * EP

\* mmap(NULL, ...) maps at 0x80000000, half way up the address space.
MmapBase == VP \div 2

VARIABLES
    mem,             \* physical memory: frame -> word index -> word
    used_frames,     \* frame_allocator.used_frames
    total_frames,    \* frame_allocator.total_frames
    kernel_page_dir, \* the frame of kernel_page_dir
    paging_enabled,  \* CR0.PG
    phase,           \* "boot" before init_paging, "up" after
    handed,          \* history: frames alloc_frame returned and free_frame
                     \* has not taken back
    ret              \* value of the last system call

vars == << mem, used_frames, total_frames, kernel_page_dir, paging_enabled,
           phase, handed, ret >>

(***************************************************************************)
(* Memory and the bitmap.                                                  *)
(***************************************************************************)

Read(m, f, k) == IF f < NF THEN m[f][k] ELSE WordMax

Write(m, f, k, v) == IF f < NF THEN [m EXCEPT ![f][k] = v] ELSE m

Memset(m, f) == IF f < NF THEN [m EXCEPT ![f] = [k \in Idx |-> 0]] ELSE m

\* A page entry: frame number above the flag bits.
Entry(f, flags) == f * 2 ^ FlagBits + flags

EntryFrame(w) == w \div 2 ^ FlagBits

\* Bit b of word w, and w with that bit set or cleared (|= and &= ~).
WordBit(w, b) == (w \div 2 ^ b) % 2 = 1

WithBit(w, b) == IF WordBit(w, b) THEN w ELSE w + 2 ^ b

WithoutBit(w, b) == IF WordBit(w, b) THEN w - 2 ^ b ELSE w

Present(w) == WordBit(w, 0)

Bit(m, f) == WordBit(Read(m, BitmapFrame, f \div WordBits), f % WordBits)

SetBit(m, f) ==
    Write(m, BitmapFrame, f \div WordBits,
          WithBit(Read(m, BitmapFrame, f \div WordBits), f % WordBits))

ClearBit(m, f) ==
    Write(m, BitmapFrame, f \div WordBits,
          WithoutBit(Read(m, BitmapFrame, f \div WordBits), f % WordBits))

(***************************************************************************)
(* The operations act on a record k = [mem, used, handed, ret] so that the *)
(* loops of the code can be written as recursive operators.                *)
(***************************************************************************)

\* init_frame_allocator: zero the bitmap, mark frames 0 .. RES-1 used.
RECURSIVE Reserve(_, _)
Reserve(m, i) == IF i = RES THEN m ELSE Reserve(SetBit(m, i), i + 1)

InitFrameAllocator(m) ==
    [mem |-> Reserve(Memset(m, BitmapFrame), 0), used |-> RES,
     handed |-> {}, ret |-> 0]

\* alloc_frame: first clear bit; 0 when there is none.
FirstClear(m) ==
    LET c == {i \in Frames : ~Bit(m, i)}
    IN  IF c = {} THEN -1 ELSE Min(c)

\* An alloc_frame that reports failure with total_frames instead of 0.
Mut_AllocFrame(k) ==
    LET i == FirstClear(k.mem)
    IN  IF i = -1 THEN [k EXCEPT !.ret = NF]
        ELSE [k EXCEPT !.mem = SetBit(@, i), !.used = (@ + 1) % CounterMod,
                       !.handed = @ \cup {i}, !.ret = i]

AllocFrame(k) ==
    LET i == FirstClear(k.mem)
    IN  IF i = -1 THEN [k EXCEPT !.ret = 0]
        ELSE [k EXCEPT !.mem = SetBit(@, i), !.used = (@ + 1) % CounterMod,
                       !.handed = @ \cup {i}, !.ret = i]

\* A free_frame without the not-allocated check.
Mut_FreeFrame(k, f) ==
    IF f >= NF THEN k
    ELSE [k EXCEPT !.mem = ClearBit(@, f),
                   !.used = (@ + CounterMod - 1) % CounterMod,
                   !.handed = @ \ {f}]

\* free_frame: ignored when out of range or not allocated.
FreeFrame(k, f) ==
    IF f >= NF \/ ~Bit(k.mem, f) THEN k
    ELSE [k EXCEPT !.mem = ClearBit(@, f),
                   !.used = (@ + CounterMod - 1) % CounterMod,
                   !.handed = @ \ {f}]

\* create_page_table: a zeroed frame, or NULL (0) when alloc_frame gave 0.
CreatePageTable(k) ==
    LET a == AllocFrame(k)
    IN  IF a.ret = 0 THEN a ELSE [a EXCEPT !.mem = Memset(@, a.ret)]

\* The loop of init_paging from directory index i: a page table per
\* entry, identity-mapped; ret is 1 when the loop completes, 0 when
\* create_page_table fails and init_paging returns.
RECURSIVE BuildTables(_, _, _)
BuildTables(k, pd, i) ==
    IF i = EP THEN [k EXCEPT !.ret = 1]
    ELSE LET t == CreatePageTable(k)
             m1 == Write(t.mem, pd, i, Entry(t.ret, PAGE_PRESENT + PAGE_WRITABLE))
             m2 == [m1 EXCEPT ![t.ret] =
                       [j \in Idx |-> Entry(i * EP + j, PAGE_PRESENT + PAGE_WRITABLE)]]
         IN  IF t.ret = 0 THEN t ELSE BuildTables([t EXCEPT !.mem = m2], pd, i + 1)

\* map_page(v, f, flags) in the directory at frame pd.
MapPage(k, pd, v, f, flags) ==
    LET dir == v \div EP
        k1  == IF Present(Read(k.mem, pd, dir)) THEN [k EXCEPT !.ret = 1]
               ELSE LET t == CreatePageTable(k)
                    IN  IF t.ret = 0 THEN t
                        ELSE [t EXCEPT !.mem = Write(@, pd, dir,
                                                     Entry(t.ret, PAGE_PRESENT | flags)),
                                       !.ret = 1]
        tf  == EntryFrame(Read(k1.mem, pd, dir))
    IN  IF k1.ret = 0 THEN k1
        ELSE [k1 EXCEPT !.mem = Write(@, tf, v % EP, Entry(f, flags | PAGE_PRESENT))]

\* unmap_page(v): free the frame of a present entry and clear it.
UnmapPage(k, pd, v) ==
    LET pde == Read(k.mem, pd, v \div EP)
        tf  == EntryFrame(pde)
        pte == Read(k.mem, tf, v % EP)
    IN  IF ~Present(pde) \/ ~Present(pte) THEN k
        ELSE LET k1 == FreeFrame(k, EntryFrame(pte))
             IN  [k1 EXCEPT !.mem = Write(@, tf, v % EP, 0)]

\* get_physical_addr(v) / PAGE_SIZE: 0 when either level is absent.
PhysFrame(m, pd, v) ==
    LET pde == Read(m, pd, v \div EP)
        pte == Read(m, EntryFrame(pde), v % EP)
    IN  IF ~Present(pde) \/ ~Present(pte) THEN 0 ELSE EntryFrame(pte)

\* The mmap loop from page i of n at v0: alloc_frame then map_page; a
\* failed alloc_frame returns NULL and keeps what was mapped.
RECURSIVE MmapLoop(_, _, _, _, _, _)
MmapLoop(k, pd, v0, n, flags, i) ==
    IF i = n THEN [k EXCEPT !.ret = v0]
    ELSE LET a == AllocFrame(k)
         IN  IF a.ret = 0 THEN [a EXCEPT !.ret = 0]
             ELSE MmapLoop(MapPage(a, pd, (v0 + i) % VP, a.ret, flags),
                           pd, v0, n, flags, i + 1)

\* The munmap loop: free the frame get_physical_addr names, then
\* unmap_page, which frees the frame of the entry once more.
RECURSIVE MunmapLoop(_, _, _, _, _)
MunmapLoop(k, pd, v0, n, i) ==
    IF i = n THEN [k EXCEPT !.ret = 0]
    ELSE LET v  == (v0 + i) % VP
             f  == PhysFrame(k.mem, pd, v)
             k1 == IF f # 0 THEN FreeFrame(k, f) ELSE k
         IN  MunmapLoop(UnmapPage(k1, pd, v), pd, v0, n, i + 1)

\* The page flags mmap derives from prot.
ProtFlags(prot) ==
    PAGE_PRESENT | (IF (prot & 2) # 0 THEN PAGE_WRITABLE ELSE 0)
                 | (IF (prot & 4) # 0 THEN PAGE_USER ELSE 0)

(***************************************************************************)
(* Actions.                                                                *)
(***************************************************************************)

K == [mem |-> mem, used |-> used_frames, handed |-> handed, ret |-> ret]

Apply(k) ==
    /\ mem' = k.mem
    /\ used_frames' = k.used
    /\ handed' = k.handed
    /\ ret' = k.ret

\* Power-on memory: the bitmap and the allocator are not yet initialised; low
\* memory holds BIOS and kernel data, the rest of RAM is zero.
BootMemory ==
    {[f \in Frames |-> IF f \in Reserved THEN low[f] ELSE [k \in Idx |-> 0]] :
       low \in [Reserved -> [Idx -> ReservedWords]]}

Init ==
    /\ mem \in BootMemory
    /\ used_frames = 0
    /\ total_frames = 0
    /\ kernel_page_dir = 0
    /\ paging_enabled = FALSE
    /\ phase = "boot"
    /\ handed = {}
    /\ ret = 0

\* init_paging: initialise the allocator, take a frame for the directory
\* and zero it, build the identity-mapped tables, enable paging.
InitPaging ==
    LET k0 == InitFrameAllocator(mem)
        a  == AllocFrame(k0)
        pd == a.ret
        r  == BuildTables([a EXCEPT !.mem = Memset(@, pd)], pd, 0)
    IN  /\ phase = "boot"
        /\ Apply([r EXCEPT !.ret = 0])
        /\ total_frames' = NF
        /\ kernel_page_dir' = pd
        /\ paging_enabled' = (r.ret = 1)
        /\ phase' = "up"

\* sys_mmap_handler: mmap(addr, n pages, prot).
SysMmap(a, n, prot) ==
    LET v0 == IF a = 0 THEN MmapBase ELSE a
    IN  /\ phase = "up"
        /\ Apply(MmapLoop(K, kernel_page_dir, v0, n, ProtFlags(prot), 0))
        /\ UNCHANGED << total_frames, kernel_page_dir, paging_enabled, phase >>

\* sys_munmap_handler: munmap(addr, n pages).
SysMunmap(a, n) ==
    /\ phase = "up"
    /\ Apply(MunmapLoop(K, kernel_page_dir, a, n, 0))
    /\ UNCHANGED << total_frames, kernel_page_dir, paging_enabled, phase >>

Next ==
    \/ InitPaging
    \/ \E a \in Addrs, n \in Lengths, p \in Prots : SysMmap(a, n, p)
    \/ \E a \in Addrs, n \in Lengths : SysMunmap(a, n)

Spec == Init /\ [][Next]_vars

(***************************************************************************)
(* The allocator on its own: the state init_frame_allocator leaves, then   *)
(* alloc_frame and free_frame called by their clients (create_page_table,  *)
(* mmap, munmap).  free_frame is given any frame number, as munmap gives   *)
(* it whatever a page entry holds: a reserved frame of the identity-mapped *)
(* low memory, or a number past the last frame.                            *)
(***************************************************************************)

FreeArgs == Frames \cup {NF}

AllocInit ==
    /\ \E m0 \in BootMemory :
          LET k == InitFrameAllocator(m0)
          IN  /\ mem = k.mem
              /\ used_frames = k.used
              /\ handed = k.handed
              /\ ret = k.ret
    /\ total_frames = NF
    /\ kernel_page_dir = 0
    /\ paging_enabled = FALSE
    /\ phase = "up"

ClientAlloc ==
    /\ Apply(AllocFrame(K))
    /\ UNCHANGED << total_frames, kernel_page_dir, paging_enabled, phase >>

ClientFree(f) ==
    /\ Apply(FreeFrame(K, f))
    /\ UNCHANGED << total_frames, kernel_page_dir, paging_enabled, phase >>

AllocNext == ClientAlloc \/ \E f \in FreeArgs : ClientFree(f)

AllocSpec == AllocInit /\ [][AllocNext]_vars

(***************************************************************************)
(* Properties.                                                             *)
(***************************************************************************)

TypeOK ==
    /\ mem \in [Frames -> [Idx -> 0 .. WordMax]]
    /\ used_frames \in 0 .. (CounterMod - 1)
    /\ total_frames \in {0, NF}
    /\ kernel_page_dir \in Frames
    /\ paging_enabled \in BOOLEAN
    /\ phase \in {"boot", "up"}
    /\ handed \subseteq Frames
    /\ ret \in Frames

\* frame_allocator.used_frames, kept by alloc_frame and free_frame, is the
\* number of bits set in the bitmap, whatever frame numbers free_frame is
\* given.
UsedFramesCount ==
    phase = "up" => used_frames = Cardinality({f \in Frames : Bit(mem, f)})

\* Spec section 8, scenario E: when sys_mmap succeeds, each of the pages
\* it covers translates (get_physical_addr) to a frame that this call took
\* from the allocator.
MmapMapsFreshFrames ==
    [][\A a \in Addrs, n \in Lengths, p \in Prots :
         (SysMmap(a, n, p) /\ ret' # 0) =>
            \A i \in 0 .. (n - 1) :
               PhysFrame(mem', kernel_page_dir, (ret' + i) % VP) \in handed' \ handed]_vars

\* The bitmap implements the frame pool of spec sections 3 and 4.1: the
\* frames in use are those whose bit is set, and every alloc_frame and
\* free_frame, over the words it reads and writes back, sets or clears
\* exactly the one frame's bit.
FP == INSTANCE FramePool WITH used <- {f \in Frames : Bit(mem, f)}

=============================================================================

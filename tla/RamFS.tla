------------------------------- MODULE RamFS -------------------------------
(***************************************************************************)
(* The RAM file system backend of src/kernel/fs/ramfs.c: inodes and        *)
(* directory entries allocated with kmalloc, each directory holding its    *)
(* entries in a circular doubly linked list (head ramfs_inode->entries,    *)
(* links next/prev), and file data in a kmalloc'ed buffer grown in steps   *)
(* of a page.                                                              *)
(*                                                                         *)
(* No code in the tree calls ramfs (the VFS functions are stubs), so the   *)
(* model lets a client call each operation of ramfs_file_ops with the      *)
(* inode pointers ramfs gave it: the root from ramfs_create_root and the   *)
(* results of create.  Every kmalloc may fail, since the heap is shared    *)
(* with the rest of the kernel.  open, close, read and readdir change no   *)
(* state of the file system and are left out; so are the inode numbers,    *)
(* times and permissions, which no operation reads.                        *)
(***************************************************************************)
EXTENDS Naturals, Sequences, SequencesExt, FiniteSets, FiniteSetsExt

CONSTANTS
    Ino,        \* heap blocks that can hold a ramfs_inode_t
    Ent,        \* heap blocks that can hold a ramfs_dir_entry_t
    Names,      \* names a client passes to create, mkdir, rmdir, unlink;
                \* ramfs checks none of them, "." and ".." included
    Offsets,    \* offsets passed to write
    Counts,     \* byte counts passed to write
    SizeBits,   \* width of size_t, scaled
    PageBytes,  \* PAGE_SIZE (4096), scaled
    NULL        \* the null pointer

ASSUME NULL \notin Ino \cup Ent

REG == "FILE_TYPE_REGULAR"
DIR == "FILE_TYPE_DIRECTORY"

SizeMod == 2 ^ SizeBits

VARIABLES
    ilive,      \* inode blocks allocated and not freed
    itype,      \* inode->type
    entries,    \* ramfs_inode->entries: head of the directory's list
    data,       \* ramfs_inode->data # NULL
    data_size,  \* ramfs_inode->data_size (= inode->size)
    data_cap,   \* ramfs_inode->data_capacity
    elive,      \* entry blocks allocated and not freed
    ename,      \* entry->name
    einode,     \* entry->inode
    next,       \* entry->next
    prev,       \* entry->prev
    root,       \* the inode ramfs_create_root returned to the client
    known,      \* inode pointers the client holds
    ret         \* value the last operation returned: -1, 0 or a byte count

vars == << ilive, itype, entries, data, data_size, data_cap, elive, ename,
           einode, next, prev, root, known, ret >>

FsVars == << ilive, itype, entries, data, data_size, data_cap, elive, ename,
             einode, next, prev >>

(***************************************************************************)
(* Lists.                                                                  *)
(***************************************************************************)

\* The entries of a directory in list order: from the head along next
\* until the head comes round again (the do-while of ramfs_find_entry).
\* The fuel bounds the walk on a broken list.
RECURSIVE Ring(_, _, _)
Ring(head, e, fuel) ==
    IF fuel = 0 THEN << >>
    ELSE << e >> \o (IF next[e] = head THEN << >> ELSE Ring(head, next[e], fuel - 1))

EntriesOf(d) ==
    IF entries[d] = NULL THEN << >> ELSE Ring(entries[d], entries[d], Cardinality(Ent) + 1)

\* ramfs_find_entry: the first entry of the directory with that name.
FindEntry(d, nm) ==
    LET s  == EntriesOf(d)
        ks == {k \in 1 .. Len(s) : ename[s[k]] = nm}
    IN  IF ks = {} THEN NULL ELSE s[Min(ks)]

\* The links after entry e is put in front of the head of directory d's
\* list, that is at its tail, or made a list of its own when d has none
\* (ramfs_create, lines 237-248).
LinkNext(d, e) ==
    IF entries[d] = NULL THEN [next EXCEPT ![e] = e]
    ELSE [next EXCEPT ![e] = entries[d], ![prev[entries[d]]] = e]

LinkPrev(d, e) ==
    IF entries[d] = NULL THEN [prev EXCEPT ![e] = e]
    ELSE [prev EXCEPT ![e] = prev[entries[d]], ![entries[d]] = e]

LinkHead(d, e) ==
    IF entries[d] = NULL THEN [entries EXCEPT ![d] = e] ELSE entries

\* The links after entry e is taken out of directory d's list (ramfs_rmdir
\* and ramfs_unlink): its neighbours are joined, and the head moves on
\* when e was the head.
UnlinkNext(d, e) == [next EXCEPT ![prev[e]] = next[e]]

\* An unlink that leaves the successor's prev pointing at the removed entry.
Mut_UnlinkPrev(d, e) == prev

UnlinkPrev(d, e) == [prev EXCEPT ![next[e]] = prev[e]]

UnlinkHead(d, e) ==
    IF entries[d] = e
    THEN [entries EXCEPT ![d] = IF next[e] # e THEN next[e] ELSE NULL]
    ELSE entries

\* The emptiness test of ramfs_rmdir: no list, or a head named "." whose
\* next and prev are the same entry.
LooksEmpty(d) ==
    LET sub == entries[d]
    IN  sub = NULL \/ (next[sub] = prev[sub] /\ ename[sub] = ".")

(***************************************************************************)
(* Allocation.                                                             *)
(***************************************************************************)

\* ramfs_alloc_inode(type) into block i; its entries field is set to NULL
\* by the callers' updates of entries.
NewInode(i, ty) ==
    /\ ilive' = ilive \cup {i}
    /\ itype' = [itype EXCEPT ![i] = ty]
    /\ data' = [data EXCEPT ![i] = FALSE]
    /\ data_size' = [data_size EXCEPT ![i] = 0]
    /\ data_cap' = [data_cap EXCEPT ![i] = 0]

FreeInodes == Ino \ ilive

FreeEntries == Ent \ elive

\* Any sequence of kmalloc calls in an operation may fail.
Fail ==
    /\ ret' = -1
    /\ UNCHANGED << FsVars, root, known >>

(***************************************************************************)
(* Operations.                                                             *)
(***************************************************************************)

Init ==
    /\ ilive = {}
    /\ itype = [i \in Ino |-> REG]
    /\ entries = [i \in Ino |-> NULL]
    /\ data = [i \in Ino |-> FALSE]
    /\ data_size = [i \in Ino |-> 0]
    /\ data_cap = [i \in Ino |-> 0]
    /\ elive = {}
    /\ ename = [e \in Ent |-> "."]
    /\ einode = [e \in Ent |-> NULL]
    /\ next = [e \in Ent |-> NULL]
    /\ prev = [e \in Ent |-> NULL]
    /\ root = NULL
    /\ known = {}
    /\ ret = 0

\* ramfs_create_root: the root directory with "." and ".." both naming it.
\* A failed kmalloc of either entry frees both and the inode.
CreateRoot ==
    /\ root = NULL
    /\ \E i \in FreeInodes, e1, e2 \in FreeEntries :
          /\ e1 # e2
          /\ NewInode(i, DIR)
          /\ elive' = elive \cup {e1, e2}
          /\ ename' = [ename EXCEPT ![e1] = ".", ![e2] = ".."]
          /\ einode' = [einode EXCEPT ![e1] = i, ![e2] = i]
          /\ next' = [next EXCEPT ![e1] = e2, ![e2] = e1]
          /\ prev' = [prev EXCEPT ![e1] = e2, ![e2] = e1]
          /\ entries' = [entries EXCEPT ![i] = e1]
          /\ root' = i
          /\ known' = {i}
          /\ ret' = 0

\* A create that checks the parent's type and not the name.
Mut_CanCreate(p, nm) == itype[p] = DIR

\* The checks ramfs_create makes before it allocates: the parent is a
\* directory and has no entry of that name.
CanCreate(p, nm) == itype[p] = DIR /\ FindEntry(p, nm) = NULL

\* ramfs_create(parent, name, type): refuse a non-directory parent or an
\* existing name, else a new inode and an entry linked at the tail.
Create(p, nm, ty) ==
    /\ CanCreate(p, nm)
    /\ \E i \in FreeInodes, e \in FreeEntries :
          /\ NewInode(i, ty)
          /\ elive' = elive \cup {e}
          /\ ename' = [ename EXCEPT ![e] = nm]
          /\ einode' = [einode EXCEPT ![e] = i]
          /\ next' = LinkNext(p, e)
          /\ prev' = LinkPrev(p, e)
          /\ entries' = [LinkHead(p, e) EXCEPT ![i] = NULL]
          /\ known' = known \cup {i}
          /\ ret' = 0
          /\ UNCHANGED root

\* ramfs_mkdir(parent, name): ramfs_create of a directory, then its "."
\* and ".." entries.  When either cannot be allocated the new directory
\* stays linked in the parent with no entries and -1 is returned.  The
\* new inode is not returned to the client.
Mkdir(p, nm) ==
    /\ CanCreate(p, nm)
    /\ \E i \in FreeInodes, e \in FreeEntries :
          /\ NewInode(i, DIR)
          /\ \/ /\ elive' = elive \cup {e}
                /\ ename' = [ename EXCEPT ![e] = nm]
                /\ einode' = [einode EXCEPT ![e] = i]
                /\ next' = LinkNext(p, e)
                /\ prev' = LinkPrev(p, e)
                /\ entries' = [LinkHead(p, e) EXCEPT ![i] = NULL]
                /\ ret' = -1
             \/ \E e1, e2 \in FreeEntries \ {e} :
                /\ e1 # e2
                /\ elive' = elive \cup {e, e1, e2}
                /\ ename' = [ename EXCEPT ![e] = nm, ![e1] = ".", ![e2] = ".."]
                /\ einode' = [einode EXCEPT ![e] = i, ![e1] = i, ![e2] = p]
                /\ next' = [LinkNext(p, e) EXCEPT ![e1] = e2, ![e2] = e1]
                /\ prev' = [LinkPrev(p, e) EXCEPT ![e1] = e2, ![e2] = e1]
                /\ entries' = [LinkHead(p, e) EXCEPT ![i] = e1]
                /\ ret' = 0
    /\ UNCHANGED << root, known >>

\* ramfs_rmdir(parent, name): a directory entry whose directory passes
\* the emptiness test is unlinked, and the entry and the directory's
\* inode are freed; the directory's own "." and ".." entries are not.
Rmdir(p, nm) ==
    LET e == FindEntry(p, nm)
    IN  IF itype[p] = DIR /\ e # NULL /\ itype[einode[e]] = DIR /\ LooksEmpty(einode[e])
        THEN /\ next' = UnlinkNext(p, e)
             /\ prev' = UnlinkPrev(p, e)
             /\ entries' = UnlinkHead(p, e)
             /\ elive' = elive \ {e}
             /\ ilive' = ilive \ {einode[e]}
             /\ ret' = 0
             /\ UNCHANGED << itype, data, data_size, data_cap, ename, einode, root, known >>
        ELSE Fail

\* ramfs_unlink(parent, name): a regular file's entry is unlinked, and its
\* data buffer, the entry and the inode are freed.
Unlink(p, nm) ==
    LET e == FindEntry(p, nm)
    IN  IF itype[p] = DIR /\ e # NULL /\ itype[einode[e]] = REG
        THEN /\ next' = UnlinkNext(p, e)
             /\ prev' = UnlinkPrev(p, e)
             /\ entries' = UnlinkHead(p, e)
             /\ elive' = elive \ {e}
             /\ ilive' = ilive \ {einode[e]}
             /\ data' = [data EXCEPT ![einode[e]] = FALSE]
             /\ ret' = 0
             /\ UNCHANGED << itype, data_size, data_cap, ename, einode, root, known >>
        ELSE Fail

\* A capacity computed without the size_t wrap-around.
Mut_NewCapacity(n) == ((n + PageBytes - 1) \div PageBytes) * PageBytes

\* The capacity ramfs_write asks for: new_size rounded up to a page, in
\* size_t arithmetic.
NewCapacity(n) == (((n + PageBytes - 1) \div PageBytes) * PageBytes) % SizeMod

\* A capacity check that lets a write one byte past the buffer through.
Mut_NeedsRealloc(i, n) == n > data_cap[i] + 1

\* The test of ramfs_write for a larger buffer: the end of the write is
\* beyond data_capacity.
NeedsRealloc(i, n) == n > data_cap[i]

\* ramfs_write(file, count, offset) on the file's inode i: a non-regular
\* inode is refused; when offset + count exceeds the capacity the buffer
\* is replaced by a kmalloc of the rounded size (kmalloc(0) and a failed
\* kmalloc return -1); the size grows to offset + count.
Write(i, off, cnt) ==
    LET n == (off + cnt) % SizeMod
    IN  IF itype[i] # REG THEN Fail
        ELSE IF NeedsRealloc(i, n)
        THEN \/ Fail
             \/ /\ NewCapacity(n) # 0
                /\ data' = [data EXCEPT ![i] = TRUE]
                /\ data_cap' = [data_cap EXCEPT ![i] = NewCapacity(n)]
                /\ data_size' = [data_size EXCEPT ![i] = IF n > @ THEN n ELSE @]
                /\ ret' = 0
                /\ UNCHANGED << ilive, itype, entries, elive, ename, einode, next, prev, root, known >>
        ELSE /\ data_size' = [data_size EXCEPT ![i] = IF n > @ THEN n ELSE @]
             /\ ret' = 0
             /\ UNCHANGED << ilive, itype, entries, data, data_cap, elive, ename, einode,
                             next, prev, root, known >>

\* A count of readable bytes computed without the test of the offset.
Mut_Available(i, off) == data_size[i] - off

\* The bytes ramfs_read can copy from offset: those before data_size.
Available(i, off) == IF off < data_size[i] THEN data_size[i] - off ELSE 0

\* ramfs_read(file, count, offset) on inode i: -1 for a non-regular inode,
\* else the bytes between offset and data_size, at most count, which it
\* copies out of the buffer and returns.
Read(i, off, cnt) ==
    LET available == Available(i, off)
    IN  /\ ret' = IF itype[i] # REG THEN -1
                  ELSE IF cnt < available THEN cnt ELSE available
        /\ UNCHANGED << FsVars, root, known >>

Next ==
    \/ CreateRoot
    \/ Fail
    \/ \E p \in known \cap ilive, nm \in Names :
          \/ \E ty \in {REG, DIR} : Create(p, nm, ty)
          \/ Mkdir(p, nm)
          \/ Rmdir(p, nm)
          \/ Unlink(p, nm)
    \/ \E i \in known \cap ilive, off \in Offsets, cnt \in Counts :
          Write(i, off, cnt) \/ Read(i, off, cnt)

Spec == Init /\ [][Next]_vars

(***************************************************************************)
(* Properties.                                                             *)
(***************************************************************************)

TypeOK ==
    /\ ilive \subseteq Ino /\ elive \subseteq Ent
    /\ itype \in [Ino -> {REG, DIR}]
    /\ entries \in [Ino -> Ent \cup {NULL}]
    /\ data \in [Ino -> BOOLEAN]
    /\ data_size \in [Ino -> 0 .. (SizeMod - 1)]
    /\ data_cap \in [Ino -> 0 .. (SizeMod - 1)]
    /\ ename \in [Ent -> Names \cup {".", ".."}]
    /\ einode \in [Ent -> Ino \cup {NULL}]
    /\ next \in [Ent -> Ent \cup {NULL}] /\ prev \in [Ent -> Ent \cup {NULL}]
    /\ root \in Ino \cup {NULL} /\ known \subseteq Ino
    /\ ret \in {-1} \cup 0 .. (SizeMod - 1)

\* The directory lists that create, mkdir, rmdir and unlink splice stay
\* circular doubly linked lists of allocated entries: walking next from
\* the head returns to it without repeating an entry, prev undoes next,
\* and no entry is on two directories' lists.
ListsWellFormed ==
    /\ \A d \in ilive :
          entries[d] # NULL =>
             LET s == EntriesOf(d)
             IN  /\ ToSet(s) \subseteq elive
                 /\ IsInjective(s)
                 /\ next[s[Len(s)]] = entries[d]
                 /\ \A k \in 1 .. Len(s) : prev[next[s[k]]] = s[k]
    /\ \A d1, d2 \in ilive :
          d1 # d2 => ToSet(EntriesOf(d1)) \cap ToSet(EntriesOf(d2)) = {}

\* No directory holds two entries of the same name, which ramfs_create's
\* lookup before it links a new entry is there to ensure.
NamesUnique ==
    \A d \in ilive :
       LET s == EntriesOf(d)
       IN  \A j, k \in 1 .. Len(s) : j # k => ename[s[j]] # ename[s[k]]

\* An entry on the list of a live directory names a live inode.
\* ramfs_rmdir frees a directory only after its check that the directory
\* holds nothing but "." and ".." (ramfs.c:314-318); a name the client
\* chose, "." or ".." included, must not get past that check.
NoDanglingEntry ==
    \A d \in ilive : \A e \in ToSet(EntriesOf(d)) : einode[e] \in ilive

\* A regular file's data_size never passes its data_capacity, and a file
\* with bytes has a buffer.  ramfs_read copies data_size - offset bytes
\* from the buffer trusting this, and ramfs_write keeps it through the
\* size_t sum offset + count, the page rounding that can wrap to 0, the
\* failed kmalloc, and the write that fits the buffer it has.
SizeWithinBuffer ==
    \A i \in ilive :
       itype[i] = REG =>
          /\ data_size[i] <= data_cap[i]
          /\ data_size[i] > 0 => data[i]

=============================================================================

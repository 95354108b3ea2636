------------------------------- MODULE TmpFS -------------------------------
(***************************************************************************)
(* The mounted file system of src/kernel/fs/tmpfs.c: the mount table, the  *)
(* inodes tmpfs_create allocates, and the file descriptor table behind    *)
(* open, close, read, write, lseek, mkdir, rmdir and unlink.               *)
(*                                                                         *)
(* resolve_path returns the mount's root inode for every path the mount    *)
(* point "/" prefixes and NULL for any other, so a path is abstracted to   *)
(* whether it starts with "/".  The only caller in the kernel is kprintf,  *)
(* which logs every message through open/write/close of "/dev/log"; the    *)
(* other functions are exported and modelled as calls a kernel client may  *)
(* make.  Every kmalloc after boot may fail.  Names, permissions, times    *)
(* and the flags word of a descriptor are left out: no operation reads     *)
(* them.                                                                   *)
(***************************************************************************)
EXTENDS Naturals, Integers, FiniteSets

CONSTANTS
    Inodes,     \* heap blocks that can hold an inode_t
    Fds,        \* descriptor slots 0 .. MAX_FILES - 1, scaled
    AbsPath,    \* a path starting with "/"
    RelPath,    \* a path not starting with "/"
    Offs,       \* off_t arguments of lseek
    OffBits,    \* width of uint32_t, scaled
    NULL        \* the null pointer

ASSUME Fds = 0 .. (Cardinality(Fds) - 1) /\ NULL \notin Inodes

REG == "FT_REGULAR"
DIR == "FT_DIRECTORY"

OffMod == 2 ^ OffBits

Paths == {AbsPath, RelPath}

\* Descriptor numbers a caller may pass: the slots and one out of range
\* on each side.
FdArgs == Fds \cup {-1, Cardinality(Fds)}

VARIABLES
    phase,      \* "boot" before init_filesystem, "up" after it
    root,       \* ((tmpfs_data_t*)mount_points[0].fs_data)->root_inode
    ilive,      \* inode blocks allocated and not freed
    itype,      \* inode->type; a freed block keeps its last contents
    kids,       \* inode->children # NULL (its kmalloc succeeded)
    fdused,     \* file_descriptors[fd].used
    fdino,      \* file_descriptors[fd].inode
    fdoff,      \* file_descriptors[fd].offset (uint32_t)
    ret         \* value the last call returned

vars == << phase, root, ilive, itype, kids, fdused, fdino, fdoff, ret >>

(***************************************************************************)
(* Helpers.                                                                *)
(***************************************************************************)

\* find_mount_point and resolve_path: the root inode of the "/" mount for
\* a path it prefixes, NULL before the mount or for any other path.
Resolve(p) == IF phase = "up" /\ p = AbsPath THEN root ELSE NULL

\* The checks of close, read, write and lseek on a descriptor number.
FdOpen(fd) == fd \in Fds /\ fdused[fd]

\* alloc_file_descriptor: the lowest unused slot, or -1.
FirstFree == IF \A fd \in Fds : fdused[fd] THEN -1
             ELSE CHOOSE fd \in Fds : ~fdused[fd] /\ \A g \in Fds : ~fdused[g] => fd <= g

\* The int that lseek returns for a uint32_t offset.
AsInt(o) == IF o >= OffMod \div 2 THEN o - OffMod ELSE o

\* tmpfs_create(path, DIR) once its parent check passed: a fresh inode
\* block, memset to zero, typed a directory, whose 4-entry children
\* array kmalloc may or may not return.
NewDir(i) ==
    /\ ilive' = ilive \cup {i}
    /\ itype' = [itype EXCEPT ![i] = DIR]
    /\ kids' \in {[kids EXCEPT ![i] = b] : b \in BOOLEAN}

Refused ==
    /\ ret' = -1
    /\ UNCHANGED << phase, root, ilive, itype, kids, fdused, fdino, fdoff >>

(***************************************************************************)
(* Operations.                                                             *)
(***************************************************************************)

Init ==
    /\ phase = "boot"
    /\ root = NULL
    /\ ilive = {}
    /\ itype = [i \in Inodes |-> DIR]
    /\ kids = [i \in Inodes |-> FALSE]
    /\ fdused = [fd \in Fds |-> FALSE]
    /\ fdino = [fd \in Fds |-> NULL]
    /\ fdoff = [fd \in Fds |-> 0]
    /\ ret = 0

\* init_filesystem: clear the descriptor table, then mount(NULL, "/",
\* TMPFS).  mount takes the slot with mount_point_count++ and copies the
\* target before it sets fs_data, so the tmpfs_create("/") it calls finds
\* the new mount point and reads root_inode through its NULL fs_data: the
\* word at address 0.  What is there is not the kernel's; when it is NULL
\* or does not point at something typed FT_DIRECTORY the root stays NULL,
\* otherwise a root directory is created.  The boot heap is fresh, so the
\* kmalloc of fs_data and of the root inode succeed.  The kprintf calls of
\* mount and init_filesystem leave the table as it was.
InitFilesystem ==
    /\ phase = "boot"
    /\ phase' = "up"
    /\ fdused' = [fd \in Fds |-> FALSE]
    /\ fdino' = [fd \in Fds |-> NULL]
    /\ fdoff' = [fd \in Fds |-> 0]
    /\ ret' = 0
    /\ \/ /\ root' = NULL
          /\ UNCHANGED << ilive, itype, kids >>
       \/ \E i \in Inodes \ ilive :
             /\ NewDir(i)
             /\ root' = i

\* kprintf's log: open("/dev/log", O_WRONLY | O_CREAT), write, close.  The
\* path resolves to the root; when that is NULL the O_CREAT branch calls
\* tmpfs_create, whose parent is the same NULL, and open fails.  Else the
\* lowest free slot is taken, tmpfs_write refuses the directory, and close
\* frees the slot again, leaving its offset 0.
Log ==
    /\ phase = "up"
    /\ IF Resolve(AbsPath) # NULL /\ FirstFree # -1
       THEN /\ fdoff' = [fdoff EXCEPT ![FirstFree] = 0]
            /\ UNCHANGED << fdused, fdino >>
       ELSE UNCHANGED << fdused, fdino, fdoff >>
    /\ ret' = 0
    /\ UNCHANGED << phase, root, ilive, itype, kids >>

\* open(path, flags): the resolved inode or, with O_CREAT, one
\* tmpfs_create makes under the resolved parent; then the lowest free
\* slot.  tmpfs_create's parent is the same resolved inode, so when the
\* path resolves to NULL no file is created and open fails.
Open(p, creat) ==
    LET ino == Resolve(p)
    IN  IF ino = NULL \/ FirstFree = -1
        THEN Refused
        ELSE /\ fdused' = [fdused EXCEPT ![FirstFree] = TRUE]
             /\ fdino' = [fdino EXCEPT ![FirstFree] = ino]
             /\ fdoff' = [fdoff EXCEPT ![FirstFree] = 0]
             /\ ret' = FirstFree
             /\ UNCHANGED << phase, root, ilive, itype, kids >>

\* close(fd): tmpfs_close keeps the inode; the slot is freed.
Close(fd) ==
    IF ~FdOpen(fd) THEN Refused
    ELSE /\ fdused' = [fdused EXCEPT ![fd] = FALSE]
         /\ fdino' = [fdino EXCEPT ![fd] = NULL]
         /\ ret' = 0
         /\ UNCHANGED << phase, root, ilive, itype, kids, fdoff >>

\* read(fd) and write(fd): tmpfs_read and tmpfs_write refuse an inode that
\* is not FT_REGULAR, which every inode is, so the offset is not moved.
ReadWrite(fd) ==
    /\ IF FdOpen(fd) THEN itype[fdino[fd]] # REG ELSE TRUE
    /\ Refused

\* lseek(fd, offset, whence): SEEK_SET, SEEK_CUR and SEEK_END (a directory's
\* size is 0) in uint32_t; the new offset is returned as an int.
Lseek(fd, off, whence) ==
    IF ~FdOpen(fd) \/ whence \notin {0, 1, 2} THEN Refused
    ELSE LET o == CASE whence = 0 -> off % OffMod
                  []   whence = 1 -> (fdoff[fd] + off) % OffMod
                  []   whence = 2 -> (0 + off) % OffMod
         IN  /\ fdoff' = [fdoff EXCEPT ![fd] = o]
             /\ ret' = AsInt(o)
             /\ UNCHANGED << phase, root, ilive, itype, kids, fdused, fdino >>

\* mkdir(path): tmpfs_create of a directory under the resolved parent; the
\* new inode is linked nowhere.  The kmalloc of the inode may fail.
Mkdir(p) ==
    LET par == Resolve(p)
    IN  IF par = NULL \/ itype[par] # DIR THEN Refused
        ELSE \/ Refused
             \/ \E i \in Inodes \ ilive :
                   /\ NewDir(i)
                   /\ ret' = 0
                   /\ UNCHANGED << phase, root, fdused, fdino, fdoff >>

\* rmdir(path): the resolved inode, when a directory (child_count is never
\* raised from 0), has its children array and itself kfree'd.  The mount
\* keeps pointing at it.
Rmdir(p) ==
    LET ino == Resolve(p)
    IN  IF ino = NULL \/ itype[ino] # DIR THEN Refused
        ELSE /\ ilive' = ilive \ {ino}
             /\ kids' = [kids EXCEPT ![ino] = FALSE]
             /\ ret' = 0
             /\ UNCHANGED << phase, root, itype, fdused, fdino, fdoff >>

\* unlink(path): refused for NULL and for a directory, which every
\* resolved inode is; the data and inode frees behind it are not reached.
Unlink(p) ==
    LET ino == Resolve(p)
    IN  /\ IF ino = NULL THEN TRUE ELSE itype[ino] = DIR
        /\ Refused

Next ==
    \/ InitFilesystem
    \/ Log
    \/ \E p \in Paths :
          \/ \E creat \in BOOLEAN : Open(p, creat)
          \/ Mkdir(p)
          \/ Rmdir(p)
          \/ Unlink(p)
    \/ \E fd \in FdArgs :
          \/ Close(fd)
          \/ ReadWrite(fd)
          \/ \E off \in Offs, whence \in 0 .. 3 : Lseek(fd, off, whence)

Spec == Init /\ [][Next]_vars

(***************************************************************************)
(* Properties.                                                             *)
(***************************************************************************)

TypeOK ==
    /\ phase \in {"boot", "up"}
    /\ root \in Inodes \cup {NULL}
    /\ ilive \subseteq Inodes
    /\ itype \in [Inodes -> {REG, DIR}]
    /\ kids \in [Inodes -> BOOLEAN]
    /\ fdused \in [Fds -> BOOLEAN]
    /\ fdino \in [Fds -> Inodes \cup {NULL}]
    /\ fdoff \in [Fds -> 0 .. (OffMod - 1)]

\* tmpfs_close does not free an inode "because other processes may use
\* it": the mount's root inode and the inode of every open descriptor stay
\* allocated for as long as they are reachable.
OpenInodesLive ==
    /\ root # NULL => root \in ilive
    /\ \A fd \in Fds : fdused[fd] => fdino[fd] \in ilive

=============================================================================

----------------------------- MODULE FramePool -----------------------------
(***************************************************************************)
(* What the physical frame allocator promises (spec sections 3 and 4.1):  *)
(* a frame is either used or free; an allocation takes some free frame,    *)
(* or fails and changes nothing; a free gives back a used frame.  Spec     *)
(* section 2 also has the reserved frames never revisited; free_frame      *)
(* (paging.c:61-79) does not check for them, so that part is not stated.   *)
(***************************************************************************)
EXTENDS Naturals

CONSTANTS
    Frames,     \* the physical frames
    Reserved    \* the low-memory frames backing the kernel image

VARIABLE
    used        \* the frames in use

PInit == used = Reserved

PAlloc == \E f \in Frames \ used : used' = used \cup {f}

PFail == UNCHANGED used

PFree == \E f \in used : used' = used \ {f}

PNext == PAlloc \/ PFail \/ PFree

PSpec == PInit /\ [][PNext]_used
=============================================================================

------------------------------ MODULE MCPaging ------------------------------
(* The instance of Paging that TLC checks: 16 frames of two 8-bit words,  *)
(* two reserved frames (the bitmap is frame 2), four virtual pages.       *)
EXTENDS Paging
=============================================================================

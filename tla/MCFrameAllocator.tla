------------------------- MODULE MCFrameAllocator --------------------------
(* FrameAllocator for TLC: three harts contend for a heap of two frames.   *)
EXTENDS FrameAllocator

CONSTANTS h1, h2, h3
=============================================================================

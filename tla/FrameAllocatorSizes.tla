------------------------ MODULE FrameAllocatorSizes ------------------------
(***************************************************************************)
(* FrameAllocator::allocate and ::deallocate as their signatures allow     *)
(* them to be used: with requests of several pages.  The kernel's only     *)
(* caller asks for PAGE_SIZE (see FrameAllocator); this module states what *)
(* a comment of allocate says of any size.                                 *)
(***************************************************************************)
EXTENDS FrameBitmap

CONSTANT Sizes   \* the sizes requested, in bytes

VARIABLES
  page_allocated, \* the bitmap
  blocks,         \* live blocks: [ptr, pages], the pointer and the pages marked
  panicked

vars == << page_allocated, blocks, panicked >>

Init ==
  /\ page_allocated = [i \in Index |-> 0]
  /\ blocks = {}
  /\ panicked = FALSE

allocate(size) ==
  /\ ~ panicked
  /\ \/ \E i \in Index :
          /\ AllocatesAt(page_allocated, size, i)
          /\ page_allocated' = MarkAllocated(page_allocated, size, i)
          /\ blocks' = blocks \cup
               {[ptr |-> BlockPtr(size, i), pages |-> i .. i + npages(size) - 1]}
          /\ UNCHANGED panicked
     \/ /\ AllocatePanics(page_allocated, size)
        /\ panicked' = TRUE
        /\ UNCHANGED << page_allocated, blocks >>

\* The pointer of the block at page i is i * size past the base: deallocate
\* begins at page i only when size is PAGE_SIZE.
deallocate(b) ==
  /\ ~ panicked
  /\ blocks' = blocks \ {b}
  /\ IF begin_idx(b.ptr) \notin Index \/ DeallocatePanics(page_allocated, b.ptr)
     THEN panicked' = TRUE /\ UNCHANGED page_allocated
     ELSE page_allocated' = MarkFree(page_allocated, b.ptr) /\ UNCHANGED panicked

Next ==
  \/ \E size \in Sizes : allocate(size)
  \/ \E b \in blocks : deallocate(b)

Spec == Init /\ [][Next]_vars

-----------------------------------------------------------------------------

(* The search looks for memory that is free ("find contiguois memory that  *)
(* fits"): live blocks share no page.  The test of frame_allocator.rs:50   *)
(* complements the mark instead of negating the comparison, so it sees no  *)
(* page but the first.                                                     *)
BlocksDisjoint ==
  \A a, b \in blocks : a # b => a.pages \cap b.pages = {}
=============================================================================

-------------------------- MODULE FrameAllocator ---------------------------
(***************************************************************************)
(* The frame allocator shared by the harts, and the RAII guards through    *)
(* which they use it: FRAME_ALLOCATOR, allocate_one_frame and              *)
(* deallocate_one_frame of frame_allocator.rs, FrameGuard of memory.rs.    *)
(*                                                                         *)
(* A hart allocates with FrameGuard::allocate_zeroed: it spins for the     *)
(* mutex, searches the bitmap, releases the mutex, and only then clears    *)
(* the frame.  Dropping a guard spins for the same mutex.  A panic stops   *)
(* the hart in a `wfi` loop (lib.rs), so what it locked stays locked.      *)
(***************************************************************************)
EXTENDS FrameBitmap

CONSTANTS
  Harts,   \* the harts that use the allocator
  NoHart   \* the mutex is free

ASSUME HartsAssumption == NoHart \notin Harts

VARIABLES
  page_allocated, \* the bitmap: page -> number of pages of its block, 0 = free
  lock,           \* FRAME_ALLOCATOR's mutex: the hart that holds it
  pc,             \* where each hart is
  cur,            \* the frame a hart is allocating or giving back
  guards,         \* the frames of the FrameGuards each hart owns
  content         \* what each frame of the heap holds: zeroes or data

vars == << page_allocated, lock, pc, cur, guards, content >>

Frames == { BaseFrame + i : i \in Index }

\* Frame::from_phys_addr and Frame::get_base_phys_addr
from_phys_addr(pa) == pa \div PageSize
get_base_phys_addr(frame) == frame * PageSize

Locations ==
  { "idle", "lock_allocate", "allocate", "zero", "return",
    "lock_deallocate", "deallocate", "panicked" }

Init ==
  /\ page_allocated = [i \in Index |-> 0]
  /\ lock = NoHart
  /\ pc = [h \in Harts |-> "idle"]
  /\ cur = [h \in Harts |-> BaseFrame]
  /\ guards = [h \in Harts |-> {}]
  /\ content \in [Frames -> {"zero", "data"}]

Goto(h, from, to) == pc[h] = from /\ pc' = [pc EXCEPT ![h] = to]

-----------------------------------------------------------------------------
(* FrameGuard::allocate_zeroed *)

CallAllocate(h) ==
  /\ Goto(h, "idle", "lock_allocate")
  /\ UNCHANGED << page_allocated, lock, cur, guards, content >>

LockForAllocate(h) ==
  /\ Goto(h, "lock_allocate", "allocate")
  /\ lock = NoHart
  /\ lock' = h
  /\ UNCHANGED << page_allocated, cur, guards, content >>

(* An operator named X_<Word> directly above X is a faulty variant of X,   *)
(* kept to show that the properties tell it from X; no action uses it.     *)
AllocateBody_NotMarked(h) ==
  \E i \in Index :
    /\ AllocatesAt(page_allocated, PageSize, i)
    /\ UNCHANGED page_allocated
    /\ cur' = [cur EXCEPT ![h] = from_phys_addr(BlockPtr(PageSize, i))]

\* the search and the marking of one page
AllocateBody(h) ==
  \E i \in Index :
    /\ AllocatesAt(page_allocated, PageSize, i)
    /\ page_allocated' = MarkAllocated(page_allocated, PageSize, i)
    /\ cur' = [cur EXCEPT ![h] = from_phys_addr(BlockPtr(PageSize, i))]

\* allocate(PAGE_SIZE) under the mutex, which the statement's end releases
Allocate(h) ==
  /\ Goto(h, "allocate", "zero")
  /\ AllocateBody(h)
  /\ lock' = NoHart
  /\ UNCHANGED << guards, content >>

AllocatePanic_Unlocks(h) ==
  /\ Goto(h, "allocate", "panicked")
  /\ AllocatePanics(page_allocated, PageSize)
  /\ lock' = NoHart
  /\ UNCHANGED << page_allocated, cur, guards, content >>

\* "no available page!": the hart stops with the mutex locked
AllocatePanic(h) ==
  /\ Goto(h, "allocate", "panicked")
  /\ AllocatePanics(page_allocated, PageSize)
  /\ UNCHANGED << page_allocated, lock, cur, guards, content >>

Zero_Skipped(h) ==
  /\ Goto(h, "zero", "return")
  /\ UNCHANGED << page_allocated, lock, cur, guards, content >>

\* frame.zero(), outside the mutex
Zero(h) ==
  /\ Goto(h, "zero", "return")
  /\ content' = [content EXCEPT ![cur[h]] = "zero"]
  /\ UNCHANGED << page_allocated, lock, cur, guards >>

\* the guard is handed to the caller
Return(h) ==
  /\ Goto(h, "return", "idle")
  /\ guards' = [guards EXCEPT ![h] = @ \cup {cur[h]}]
  /\ UNCHANGED << page_allocated, lock, cur, content >>

-----------------------------------------------------------------------------
(* The owner of a guard writes its frame: Frame::write, a page table node, *)
(* a stack, a trapframe.                                                   *)

Write(h, f) ==
  /\ pc[h] = "idle"
  /\ f \in guards[h]
  /\ content' = [content EXCEPT ![f] = "data"]
  /\ UNCHANGED << page_allocated, lock, pc, cur, guards >>

-----------------------------------------------------------------------------
(* impl Drop for FrameGuard *)

DropGuard_KeepsCopy(h, f) ==
  /\ Goto(h, "idle", "lock_deallocate")
  /\ f \in guards[h]
  /\ cur' = [cur EXCEPT ![h] = f]
  /\ UNCHANGED << page_allocated, lock, guards, content >>

DropGuard(h, f) ==
  /\ Goto(h, "idle", "lock_deallocate")
  /\ f \in guards[h]
  /\ guards' = [guards EXCEPT ![h] = @ \ {f}]
  /\ cur' = [cur EXCEPT ![h] = f]
  /\ UNCHANGED << page_allocated, lock, content >>

LockForDeallocate(h) ==
  /\ Goto(h, "lock_deallocate", "deallocate")
  /\ lock = NoHart
  /\ lock' = h
  /\ UNCHANGED << page_allocated, cur, guards, content >>

Deallocate_NotCleared(h) ==
  /\ Goto(h, "deallocate", "idle")
  /\ lock' = NoHart
  /\ UNCHANGED << page_allocated, cur, guards, content >>

Deallocate_KeepsLock(h) ==
  /\ Goto(h, "deallocate", "idle")
  /\ page_allocated' = MarkFree(page_allocated, get_base_phys_addr(cur[h]))
  /\ UNCHANGED << lock, cur, guards, content >>

Deallocate(h) ==
  /\ Goto(h, "deallocate", "idle")
  /\ ~ DeallocatePanics(page_allocated, get_base_phys_addr(cur[h]))
  /\ page_allocated' = MarkFree(page_allocated, get_base_phys_addr(cur[h]))
  /\ lock' = NoHart
  /\ UNCHANGED << cur, guards, content >>

-----------------------------------------------------------------------------

\* what a hart does once it has called into the allocator
HartStep(h) ==
  \/ LockForAllocate(h) \/ Allocate(h) \/ AllocatePanic(h) \/ Zero(h) \/ Return(h)
  \/ LockForDeallocate(h) \/ Deallocate(h)

Next ==
  \E h \in Harts :
    \/ CallAllocate(h)
    \/ HartStep(h)
    \/ \E f \in guards[h] : Write(h, f) \/ DropGuard(h, f)

(* A hart inside the allocator keeps executing.  spin::Mutex is a plain    *)
(* test-and-set lock, so nothing stronger is assumed of the lock itself.   *)
Fairness == \A h \in Harts : WF_vars(HartStep(h))

Spec == Init /\ [][Next]_vars /\ Fairness

-----------------------------------------------------------------------------
(* Properties *)

TypeOK ==
  /\ page_allocated \in [Index -> 0 .. 1]
  /\ lock \in Harts \cup {NoHart}
  /\ pc \in [Harts -> Locations]
  /\ cur \in [Harts -> Nat]
  /\ \A h \in Harts : pc[h] \in { "zero", "return", "lock_deallocate", "deallocate" }
                        => cur[h] \in Frames
  /\ guards \in [Harts -> SUBSET Frames]
  /\ content \in [Frames -> {"zero", "data"}]

\* the frame hart h has taken from the bitmap or has not yet given back
InFlight(h) ==
  IF pc[h] \in { "zero", "return", "lock_deallocate", "deallocate" } THEN {cur[h]} ELSE {}

(* A frame has one user at a time: no two harts hold the same frame, in a  *)
(* guard or on its way to or from one, although the bitmap is unlocked     *)
(* while a frame is cleared and while a guard is being dropped.            *)
ExclusiveFrames ==
  \A h \in Harts :
    /\ guards[h] \cap InFlight(h) = {}
    /\ \A k \in Harts \ {h} :
         (guards[h] \cup InFlight(h)) \cap (guards[k] \cup InFlight(k)) = {}

(* The bitmap and the guards agree: a page is marked exactly when some     *)
(* hart uses its frame.  No frame leaks and none is free while in use.     *)
BitmapMatchesGuards ==
  \A i \in Index :
    page_allocated[i] # 0 <=>
      \E h \in Harts : BaseFrame + i \in guards[h] \cup InFlight(h)

(* allocate_zeroed returns a frame of zeroes, although the frame is        *)
(* cleared after the mutex is released (FrameGuard::allocate_zeroed).      *)
HandedOutZeroed == \A h \in Harts : pc[h] = "return" => content[cur[h]] = "zero"

(* The panic "no available page!" means the heap is exhausted, and it      *)
(* stays so: the panicking hart keeps FRAME_ALLOCATOR locked.              *)
PanicMeansExhausted ==
  \A h \in Harts : pc[h] = "panicked" =>
    lock = h /\ \A i \in Index : page_allocated[i] # 0

(* What the owner of a guard wrote stays: allocate_zeroed clears a frame   *)
(* after it has released the mutex, and Drop lets go of a frame before it  *)
(* has the mutex, yet no frame is cleared while a guard of it is held.     *)
HeldFramesKept ==
  [][\A h \in Harts : \A f \in guards[h] :
       content[f] = "data" => content'[f] = "data"]_vars

(* Whoever locks FRAME_ALLOCATOR releases it, unless it panics there.      *)
MutexReleased ==
  \A h \in Harts : lock = h ~> (lock # h \/ pc[h] = "panicked")
=============================================================================

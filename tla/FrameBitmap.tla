---------------------------- MODULE FrameBitmap ----------------------------
(***************************************************************************)
(* The page bitmap of kernel/src/allocator/frame_allocator.rs and the two  *)
(* private methods that search and change it, as operators on a value of   *)
(* `page_allocated`.  Sizes and addresses are in bytes, as in the code.    *)
(***************************************************************************)
EXTENDS Naturals

CONSTANTS
  NPages,    \* page_allocated.len(), i.e. __heap_size / PAGE_SIZE
  PageSize,  \* PAGE_SIZE
  BaseFrame, \* number of the first frame of the heap: __heap_start / PAGE_SIZE
  UsizeMax   \* usize::MAX

ASSUME BitmapAssumption ==
  /\ NPages \in Nat
  /\ PageSize \in Nat \ {0}
  /\ BaseFrame \in Nat
  /\ UsizeMax \in Nat
  /\ UsizeMax > NPages      \* one word per page fits the address space

(* __heap_start is page aligned: kernel.ld aligns __bss_end and adds       *)
(* 0x80000 to it.                                                          *)
base_addr == BaseFrame * PageSize

Index == 0 .. NPages - 1

\* (val + o) & !o with o = PAGE_SIZE - 1, PAGE_SIZE being a power of two
PG_ROUND_UP(val) == ((val + (PageSize - 1)) \div PageSize) * PageSize

npages(size) == PG_ROUND_UP(size) \div PageSize

\* `!x` of Rust on a usize: bitwise complement
Complement(x) == UsizeMax - x

\* A request of n pages that starts at page i meets page i+j and stops there:
\* the index is out of range, or the `== 0` test on the complement succeeds.
InnerStop(pa, i, j) == i + j >= NPages \/ Complement(pa[i + j]) = 0

\* The verdict of the inner loop for page i
InnerLoop(pa, i, n) ==
  IF \A j \in 0 .. n - 1 : ~ InnerStop(pa, i, j)
  THEN "found"
  ELSE LET j == CHOOSE j \in 0 .. n - 1 :
                  InnerStop(pa, i, j) /\ \A k \in 0 .. j - 1 : ~ InnerStop(pa, i, k)
       IN  IF i + j >= NPages THEN "out_of_bounds" ELSE "try_next"

\* The outer loop leaves at page i: with a block, or with an index panic
OuterStop(pa, i, n) == pa[i] = 0 /\ InnerLoop(pa, i, n) # "try_next"

\* Page i is the first one at which it leaves
FirstStop(pa, i, n) == OuterStop(pa, i, n) /\ \A k \in 0 .. i - 1 : ~ OuterStop(pa, k, n)

\* allocate(size) returns the block that starts at page i
AllocatesAt(pa, size, i) ==
  FirstStop(pa, i, npages(size)) /\ InnerLoop(pa, i, npages(size)) = "found"

\* allocate(size) panics: "no available page!", or an index out of bounds
AllocatePanics(pa, size) ==
  \/ \A i \in Index : ~ OuterStop(pa, i, npages(size))
  \/ \E i \in Index : /\ FirstStop(pa, i, npages(size))
                      /\ InnerLoop(pa, i, npages(size)) = "out_of_bounds"

\* page_allocated after the block of `size` bytes at page i is marked
MarkAllocated(pa, size, i) ==
  [k \in Index |-> IF k >= i /\ k < i + npages(size) THEN npages(size) ELSE pa[k]]

BlockPtr_OneBased(size, i) == base_addr + (i + 1) * size

\* the address that allocate returns for that block
BlockPtr(size, i) == base_addr + i * size

begin_idx(addr) == (addr - base_addr) \div PageSize

\* deallocate(addr) panics: the loop indexes past the end or its assert fails
DeallocatePanics(pa, addr) ==
  \E id \in begin_idx(addr) .. begin_idx(addr) + pa[begin_idx(addr)] - 1 :
    id >= NPages \/ pa[id] # pa[begin_idx(addr)]

\* page_allocated after deallocate(addr)
MarkFree(pa, addr) ==
  [k \in Index |->
     IF k >= begin_idx(addr) /\ k < begin_idx(addr) + pa[begin_idx(addr)]
     THEN 0 ELSE pa[k]]
=============================================================================

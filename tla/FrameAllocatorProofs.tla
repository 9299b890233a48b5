----------------------- MODULE FrameAllocatorProofs ------------------------
(***************************************************************************)
(* Proofs about FrameAllocator for any number of harts and pages: frames   *)
(* have one user, the bitmap agrees with the guards, frames are handed out *)
(* zeroed and not cleared while held, and a panic means an exhausted heap. *)
(***************************************************************************)
EXTENDS FrameAllocator, Integers, TLAPS

(* PG_ROUND_UP(PAGE_SIZE) / PAGE_SIZE is one page. *)
LEMMA OnePage == npages(PageSize) = 1
<1>1. (PageSize + (PageSize - 1)) \div PageSize = 1
  BY BitmapAssumption, SMTT(30)
<1>2. (1 * PageSize) \div PageSize = 1
  BY BitmapAssumption, SMTT(30)
<1> QED  BY <1>1, <1>2 DEF npages, PG_ROUND_UP

(* For one page the inner loop looks at page i alone, finds it inside the  *)
(* bitmap, and its complement test never fires on a mark of 0 or 1.        *)
LEMMA InnerLoopOnePage ==
  ASSUME NEW pa \in [Index -> 0 .. 1], NEW i \in Index
  PROVE  InnerLoop(pa, i, 1) = "found"
<1>1. pa[i] \in 0 .. 1 /\ i \in Int /\ i >= 0 /\ i < NPages
  BY BitmapAssumption DEF Index
<1>2. ~ InnerStop(pa, i, 0)
  <2>1. i + 0 = i /\ ~ (i + 0 >= NPages)
    BY <1>1, BitmapAssumption
  <2>2. UsizeMax - pa[i] # 0
    BY <1>1, BitmapAssumption
  <2> QED  BY <2>1, <2>2 DEF InnerStop, Complement
<1>3. \A j \in 0 .. 1 - 1 : j = 0
  OBVIOUS
<1> QED  BY <1>2, <1>3 DEF InnerLoop

(* allocate(PAGE_SIZE) returns page i only when page i is free. *)
LEMMA AllocatesFreePage ==
  ASSUME NEW pa \in [Index -> 0 .. 1], NEW i \in Index, AllocatesAt(pa, PageSize, i)
  PROVE  pa[i] = 0
BY OnePage DEF AllocatesAt, FirstStop, OuterStop

(* allocate(PAGE_SIZE) panics only when every page is marked. *)
LEMMA PanicOnFullBitmap ==
  ASSUME NEW pa \in [Index -> 0 .. 1], AllocatePanics(pa, PageSize)
  PROVE  \A i \in Index : pa[i] # 0
<1>1. \A i \in Index : InnerLoop(pa, i, 1) = "found"
  BY InnerLoopOnePage
<1>2. \A i \in Index : ~ OuterStop(pa, i, 1)
  BY <1>1, OnePage DEF AllocatePanics
<1> QED  BY <1>1, <1>2 DEF OuterStop

(* Marking a one-page block changes the mark of that page alone. *)
LEMMA MarkOnePage ==
  ASSUME NEW pa \in [Index -> 0 .. 1], NEW i \in Index
  PROVE  MarkAllocated(pa, PageSize, i) = [pa EXCEPT ![i] = 1]
<1>1. \A k \in Index : (k >= i /\ k < i + 1) <=> k = i
  BY BitmapAssumption DEF Index
<1> QED  BY <1>1, OnePage DEF MarkAllocated

(* The address of a one-page block names the frame of its page. *)
LEMMA FrameOfBlock ==
  ASSUME NEW i \in Index
  PROVE  from_phys_addr(BlockPtr(PageSize, i)) = BaseFrame + i
<1>1. i \in Nat
  BY BitmapAssumption DEF Index
<1>2. BaseFrame * PageSize + i * PageSize = (BaseFrame + i) * PageSize
  BY <1>1, BitmapAssumption, SMTT(30)
<1>3. ((BaseFrame + i) * PageSize) \div PageSize = BaseFrame + i
  BY <1>1, BitmapAssumption, SMTT(30)
<1> QED  BY <1>2, <1>3 DEF from_phys_addr, BlockPtr, base_addr

(* Giving back the frame of page i finds page i. *)
LEMMA PageOfFrame ==
  ASSUME NEW i \in Index
  PROVE  begin_idx(get_base_phys_addr(BaseFrame + i)) = i
<1>1. i \in Nat
  BY BitmapAssumption DEF Index
<1>2. (BaseFrame + i) * PageSize - BaseFrame * PageSize = i * PageSize
  BY <1>1, BitmapAssumption, SMTT(30)
<1>3. (i * PageSize) \div PageSize = i
  BY <1>1, BitmapAssumption, SMTT(30)
<1> QED  BY <1>2, <1>3 DEF begin_idx, get_base_phys_addr, base_addr

(* Freeing the frame of a marked page clears the mark of that page alone. *)
LEMMA FreeOnePage ==
  ASSUME NEW pa \in [Index -> 0 .. 1], NEW i \in Index, pa[i] = 1
  PROVE  MarkFree(pa, get_base_phys_addr(BaseFrame + i)) = [pa EXCEPT ![i] = 0]
<1>1. \A k \in Index : (k >= i /\ k < i + 1) <=> k = i
  BY BitmapAssumption DEF Index
<1>2. MarkFree(pa, get_base_phys_addr(BaseFrame + i)) =
        [k \in Index |-> IF k >= i /\ k < i + 1 THEN 0 ELSE pa[k]]
  BY PageOfFrame, Zenon DEF MarkFree
<1> QED  BY <1>1, <1>2

-----------------------------------------------------------------------------
(* The mutex protects the bitmap: a hart inside allocate or deallocate     *)
(* holds it, and so does one that panicked there.                          *)
LockInv ==
  \A h \in Harts : pc[h] \in { "allocate", "deallocate", "panicked" } => lock = h

(* The inductive invariant.  ExclusiveFrames alone is not inductive:       *)
(* allocate hands out a page because its mark is 0, so that the marks must *)
(* cover every frame in use (BitmapMatchesGuards); and the panic's verdict *)
(* stays true because the panicking hart keeps the mutex (LockInv).        *)
IInv ==
  /\ TypeOK
  /\ LockInv
  /\ ExclusiveFrames
  /\ BitmapMatchesGuards
  /\ HandedOutZeroed
  /\ PanicMeansExhausted

LEMMA InitInv == Init => IInv
<1> SUFFICES ASSUME Init PROVE IInv
  OBVIOUS
<1>1. TypeOK
  BY BitmapAssumption DEF Init, TypeOK, Locations
<1>2. LockInv /\ HandedOutZeroed /\ PanicMeansExhausted
  BY DEF Init, LockInv, HandedOutZeroed, PanicMeansExhausted
<1>3. \A h \in Harts : guards[h] = {} /\ InFlight(h) = {}
  BY DEF Init, InFlight
<1>4. ExclusiveFrames
  BY <1>3 DEF ExclusiveFrames
<1>5. BitmapMatchesGuards
  BY <1>3 DEF Init, BitmapMatchesGuards
<1> QED  BY <1>1, <1>2, <1>4, <1>5 DEF IInv

(* A step of hart h that moves no frame between the bitmap, its guards and *)
(* its hands leaves the two ownership invariants alone.                    *)
LEMMA OwnershipUnmoved ==
  ASSUME IInv, page_allocated' = page_allocated,
         \A k \in Harts : /\ guards'[k] \cup InFlight(k)' = guards[k] \cup InFlight(k)
                          /\ guards'[k] \cap InFlight(k)' = {}
  PROVE  ExclusiveFrames' /\ BitmapMatchesGuards'
<1>1. ExclusiveFrames'
  BY DEF IInv, ExclusiveFrames
<1>2. BitmapMatchesGuards'
  BY DEF IInv, BitmapMatchesGuards
<1> QED  BY <1>1, <1>2

-----------------------------------------------------------------------------
(* Every step of a hart preserves the inductive invariant. *)
LEMMA HartInv ==
  ASSUME IInv, NEW h \in Harts,
         \/ CallAllocate(h) \/ HartStep(h)
         \/ \E f \in guards[h] : Write(h, f) \/ DropGuard(h, f)
  PROVE  IInv'
<1>1. CASE CallAllocate(h)
  <2>1. TypeOK'
    BY <1>1 DEF IInv, TypeOK, CallAllocate, Goto, Locations
  <2>2. LockInv'
    BY <1>1 DEF IInv, TypeOK, LockInv, CallAllocate, Goto
  <2>3. \A k \in Harts : InFlight(k)' = InFlight(k) /\ guards'[k] = guards[k]
    BY <1>1 DEF IInv, TypeOK, InFlight, CallAllocate, Goto
  <2>4. ExclusiveFrames' /\ BitmapMatchesGuards'
    BY <1>1, <2>3, OwnershipUnmoved DEF CallAllocate, IInv, ExclusiveFrames
  <2>5. HandedOutZeroed'
    BY <1>1 DEF IInv, TypeOK, HandedOutZeroed, CallAllocate, Goto
  <2>6. PanicMeansExhausted'
    BY <1>1 DEF IInv, TypeOK, LockInv, PanicMeansExhausted, CallAllocate, Goto
  <2> QED  BY <2>1, <2>2, <2>4, <2>5, <2>6 DEF IInv
<1>2. CASE LockForAllocate(h)
  <2>1. TypeOK'
    BY <1>2 DEF IInv, TypeOK, LockForAllocate, Goto, Locations
  <2>2. LockInv'
    BY <1>2, HartsAssumption DEF IInv, TypeOK, LockInv, LockForAllocate, Goto
  <2>3. \A k \in Harts : InFlight(k)' = InFlight(k) /\ guards'[k] = guards[k]
    BY <1>2 DEF IInv, TypeOK, InFlight, LockForAllocate, Goto
  <2>4. ExclusiveFrames' /\ BitmapMatchesGuards'
    BY <1>2, <2>3, OwnershipUnmoved DEF LockForAllocate, IInv, ExclusiveFrames
  <2>5. HandedOutZeroed'
    BY <1>2 DEF IInv, TypeOK, HandedOutZeroed, LockForAllocate, Goto
  <2>6. PanicMeansExhausted'
    BY <1>2, HartsAssumption DEF IInv, TypeOK, LockInv, PanicMeansExhausted, LockForAllocate,
                                    Goto
  <2> QED  BY <2>1, <2>2, <2>4, <2>5, <2>6 DEF IInv
<1>3. CASE Allocate(h)
  <2>1. PICK i \in Index :
          /\ AllocatesAt(page_allocated, PageSize, i)
          /\ page_allocated' = MarkAllocated(page_allocated, PageSize, i)
          /\ cur' = [cur EXCEPT ![h] = from_phys_addr(BlockPtr(PageSize, i))]
    BY <1>3 DEF Allocate, AllocateBody
  <2>2. page_allocated[i] = 0 /\ page_allocated' = [page_allocated EXCEPT ![i] = 1]
    BY <2>1, AllocatesFreePage, MarkOnePage DEF IInv, TypeOK
  <2>3. cur' = [cur EXCEPT ![h] = BaseFrame + i] /\ BaseFrame + i \in Frames
    BY <2>1, FrameOfBlock DEF Frames
  <2>4. TypeOK'
    BY <1>3, <2>2, <2>3, BitmapAssumption DEF IInv, TypeOK, Allocate, Goto, Locations, Index
  <2>5. LockInv'
    BY <1>3 DEF IInv, TypeOK, LockInv, Allocate, Goto
  <2>6. /\ InFlight(h) = {} /\ InFlight(h)' = {BaseFrame + i}
        /\ \A k \in Harts \ {h} : InFlight(k)' = InFlight(k)
        /\ guards' = guards
    BY <1>3, <2>3 DEF IInv, TypeOK, InFlight, Allocate, Goto
  <2>7. \A k \in Harts : BaseFrame + i \notin guards[k] \cup InFlight(k)
    BY <2>2 DEF IInv, BitmapMatchesGuards
  <2>8. ExclusiveFrames'
    BY <2>6, <2>7 DEF IInv, ExclusiveFrames
  <2>9. BitmapMatchesGuards'
    <3> SUFFICES ASSUME NEW j \in Index
                 PROVE  page_allocated'[j] # 0 <=>
                          \E k \in Harts : BaseFrame + j \in guards'[k] \cup InFlight(k)'
      BY DEF BitmapMatchesGuards
    <3>1. CASE j = i
      BY <2>2, <2>6, <3>1 DEF IInv, TypeOK
    <3>2. CASE j # i
      <4>1. BaseFrame + j # BaseFrame + i
        BY <3>2, BitmapAssumption DEF Index
      <4>2. page_allocated'[j] = page_allocated[j]
        BY <2>2, <3>2 DEF IInv, TypeOK
      <4> QED  BY <2>6, <4>1, <4>2 DEF IInv, BitmapMatchesGuards
    <3> QED  BY <3>1, <3>2
  <2>10. HandedOutZeroed'
    BY <1>3, <2>3 DEF IInv, TypeOK, HandedOutZeroed, Allocate, Goto
  <2>11. PanicMeansExhausted'
    BY <1>3 DEF IInv, TypeOK, LockInv, PanicMeansExhausted, Allocate, Goto
  <2> QED  BY <2>4, <2>5, <2>8, <2>9, <2>10, <2>11 DEF IInv
<1>4. CASE AllocatePanic(h)
  <2>1. TypeOK'
    BY <1>4 DEF IInv, TypeOK, AllocatePanic, Goto, Locations
  <2>2. LockInv'
    BY <1>4 DEF IInv, TypeOK, LockInv, AllocatePanic, Goto
  <2>3. \A k \in Harts : InFlight(k)' = InFlight(k) /\ guards'[k] = guards[k]
    BY <1>4 DEF IInv, TypeOK, InFlight, AllocatePanic, Goto
  <2>4. ExclusiveFrames' /\ BitmapMatchesGuards'
    BY <1>4, <2>3, OwnershipUnmoved DEF AllocatePanic, IInv, ExclusiveFrames
  <2>5. HandedOutZeroed'
    BY <1>4 DEF IInv, TypeOK, HandedOutZeroed, AllocatePanic, Goto
  <2>6. \A i \in Index : page_allocated[i] # 0
    BY <1>4, PanicOnFullBitmap DEF IInv, TypeOK, AllocatePanic
  <2>7. PanicMeansExhausted'
    BY <1>4, <2>6 DEF IInv, TypeOK, LockInv, PanicMeansExhausted, AllocatePanic, Goto
  <2> QED  BY <2>1, <2>2, <2>4, <2>5, <2>7 DEF IInv
<1>5. CASE Zero(h)
  <2>1. TypeOK'
    BY <1>5 DEF IInv, TypeOK, Zero, Goto, Locations
  <2>2. LockInv'
    BY <1>5 DEF IInv, TypeOK, LockInv, Zero, Goto
  <2>3. \A k \in Harts : InFlight(k)' = InFlight(k) /\ guards'[k] = guards[k]
    BY <1>5 DEF IInv, TypeOK, InFlight, Zero, Goto
  <2>4. ExclusiveFrames' /\ BitmapMatchesGuards'
    BY <1>5, <2>3, OwnershipUnmoved DEF Zero, IInv, ExclusiveFrames
  <2>5. HandedOutZeroed'
    BY <1>5 DEF IInv, TypeOK, HandedOutZeroed, Zero, Goto
  <2>6. PanicMeansExhausted'
    BY <1>5 DEF IInv, TypeOK, PanicMeansExhausted, Zero, Goto
  <2> QED  BY <2>1, <2>2, <2>4, <2>5, <2>6 DEF IInv
<1>6. CASE Return(h)
  <2>1. TypeOK'
    BY <1>6 DEF IInv, TypeOK, Return, Goto, Locations
  <2>2. LockInv'
    BY <1>6 DEF IInv, TypeOK, LockInv, Return, Goto
  <2>3. /\ InFlight(h) = {cur[h]} /\ InFlight(h)' = {}
        /\ guards'[h] = guards[h] \cup {cur[h]}
        /\ \A k \in Harts \ {h} : InFlight(k)' = InFlight(k) /\ guards'[k] = guards[k]
    BY <1>6 DEF IInv, TypeOK, InFlight, Return, Goto
  <2>4. ExclusiveFrames' /\ BitmapMatchesGuards'
    BY <1>6, <2>3, OwnershipUnmoved DEF Return, IInv, ExclusiveFrames
  <2>5. HandedOutZeroed'
    BY <1>6 DEF IInv, TypeOK, HandedOutZeroed, Return, Goto
  <2>6. PanicMeansExhausted'
    BY <1>6 DEF IInv, TypeOK, PanicMeansExhausted, Return, Goto
  <2> QED  BY <2>1, <2>2, <2>4, <2>5, <2>6 DEF IInv
<1>7. CASE LockForDeallocate(h)
  <2>1. TypeOK'
    BY <1>7 DEF IInv, TypeOK, LockForDeallocate, Goto, Locations
  <2>2. LockInv'
    BY <1>7, HartsAssumption DEF IInv, TypeOK, LockInv, LockForDeallocate, Goto
  <2>3. \A k \in Harts : InFlight(k)' = InFlight(k) /\ guards'[k] = guards[k]
    BY <1>7 DEF IInv, TypeOK, InFlight, LockForDeallocate, Goto
  <2>4. ExclusiveFrames' /\ BitmapMatchesGuards'
    BY <1>7, <2>3, OwnershipUnmoved DEF LockForDeallocate, IInv, ExclusiveFrames
  <2>5. HandedOutZeroed'
    BY <1>7 DEF IInv, TypeOK, HandedOutZeroed, LockForDeallocate, Goto
  <2>6. PanicMeansExhausted'
    BY <1>7, HartsAssumption DEF IInv, TypeOK, LockInv, PanicMeansExhausted, LockForDeallocate,
                                    Goto
  <2> QED  BY <2>1, <2>2, <2>4, <2>5, <2>6 DEF IInv
<1>8. CASE Deallocate(h)
  <2>1. PICK i \in Index : cur[h] = BaseFrame + i
    BY <1>8 DEF IInv, TypeOK, Deallocate, Goto, Frames
  <2>2. InFlight(h) = {BaseFrame + i} /\ InFlight(h)' = {}
    BY <1>8, <2>1 DEF IInv, TypeOK, InFlight, Deallocate, Goto
  <2>3. \A k \in Harts \ {h} : InFlight(k)' = InFlight(k)
    BY <1>8 DEF IInv, TypeOK, InFlight, Deallocate, Goto
  <2>4. guards' = guards
    BY <1>8 DEF Deallocate
  <2>5. page_allocated[i] = 1
    <3>1. page_allocated[i] # 0
      BY <2>2 DEF IInv, BitmapMatchesGuards
    <3> QED  BY <3>1 DEF IInv, TypeOK
  <2>6. page_allocated' = [page_allocated EXCEPT ![i] = 0]
    BY <1>8, <2>1, <2>5, FreeOnePage DEF IInv, TypeOK, Deallocate
  <2>7. TypeOK'
    BY <1>8, <2>6 DEF IInv, TypeOK, Deallocate, Goto, Locations
  <2>8. LockInv'
    BY <1>8 DEF IInv, TypeOK, LockInv, Deallocate, Goto
  <2>9. ExclusiveFrames'
    BY <2>2, <2>3, <2>4 DEF IInv, ExclusiveFrames
  <2>10. BitmapMatchesGuards'
    <3> SUFFICES ASSUME NEW j \in Index
                 PROVE  page_allocated'[j] # 0 <=>
                          \E k \in Harts : BaseFrame + j \in guards'[k] \cup InFlight(k)'
      BY DEF BitmapMatchesGuards
    <3>1. CASE j = i
      <4>1. \A k \in Harts : BaseFrame + i \notin guards'[k] \cup InFlight(k)'
        BY <2>2, <2>3, <2>4 DEF IInv, ExclusiveFrames
      <4> QED  BY <2>6, <3>1, <4>1 DEF IInv, TypeOK
    <3>2. CASE j # i
      <4>1. BaseFrame + j # BaseFrame + i
        BY <3>2, BitmapAssumption DEF Index
      <4>2. page_allocated'[j] = page_allocated[j]
        BY <2>6, <3>2 DEF IInv, TypeOK
      <4> QED  BY <2>2, <2>3, <2>4, <4>1, <4>2 DEF IInv, BitmapMatchesGuards
    <3> QED  BY <3>1, <3>2
  <2>11. HandedOutZeroed'
    BY <1>8 DEF IInv, TypeOK, HandedOutZeroed, Deallocate, Goto
  <2>12. PanicMeansExhausted'
    BY <1>8 DEF IInv, TypeOK, LockInv, PanicMeansExhausted, Deallocate, Goto
  <2> QED  BY <2>7, <2>8, <2>9, <2>10, <2>11, <2>12 DEF IInv
<1>9. ASSUME NEW f \in guards[h], Write(h, f)
      PROVE  IInv'
  <2>1. TypeOK'
    BY <1>9 DEF IInv, TypeOK, Write
  <2>2. LockInv' /\ PanicMeansExhausted'
    BY <1>9 DEF IInv, LockInv, PanicMeansExhausted, Write
  <2>3. \A k \in Harts : InFlight(k)' = InFlight(k) /\ guards'[k] = guards[k]
    BY <1>9 DEF InFlight, Write
  <2>4. ExclusiveFrames' /\ BitmapMatchesGuards'
    BY <1>9, <2>3, OwnershipUnmoved DEF Write, IInv, ExclusiveFrames
  <2>5. ASSUME NEW k \in Harts, pc[k] = "return"
        PROVE  content'[cur[k]] = "zero"
    <3>1. cur[k] \in InFlight(k) /\ cur[k] \in Frames
      BY <2>5 DEF IInv, TypeOK, InFlight
    <3>2. cur[k] # f
      BY <1>9, <2>5, <3>1 DEF IInv, ExclusiveFrames, Write
    <3> QED  BY <1>9, <2>5, <3>1, <3>2 DEF IInv, TypeOK, HandedOutZeroed, Write
  <2>6. HandedOutZeroed'
    BY <1>9, <2>5 DEF HandedOutZeroed, Write
  <2> QED  BY <2>1, <2>2, <2>4, <2>6 DEF IInv
<1>10. ASSUME NEW f \in guards[h], DropGuard(h, f)
       PROVE  IInv'
  <2>1. TypeOK'
    <3>1. f \in Frames /\ f \in Nat
      BY <1>10, BitmapAssumption DEF IInv, TypeOK, Frames, Index
    <3> QED  BY <1>10, <3>1 DEF IInv, TypeOK, DropGuard, Goto, Locations
  <2>2. LockInv'
    BY <1>10 DEF IInv, TypeOK, LockInv, DropGuard, Goto
  <2>3. /\ InFlight(h) = {} /\ InFlight(h)' = {f}
        /\ guards'[h] = guards[h] \ {f}
        /\ \A k \in Harts \ {h} : InFlight(k)' = InFlight(k) /\ guards'[k] = guards[k]
    BY <1>10 DEF IInv, TypeOK, InFlight, DropGuard, Goto
  <2>4. ExclusiveFrames' /\ BitmapMatchesGuards'
    BY <1>10, <2>3, OwnershipUnmoved DEF DropGuard, IInv, ExclusiveFrames
  <2>5. HandedOutZeroed'
    BY <1>10 DEF IInv, TypeOK, HandedOutZeroed, DropGuard, Goto
  <2>6. PanicMeansExhausted'
    BY <1>10 DEF IInv, TypeOK, PanicMeansExhausted, DropGuard, Goto
  <2> QED  BY <2>1, <2>2, <2>4, <2>5, <2>6 DEF IInv
<1> QED
  BY <1>1, <1>2, <1>3, <1>4, <1>5, <1>6, <1>7, <1>8, <1>9, <1>10 DEF HartStep

(* So does a step that changes nothing. *)
LEMMA StutterInv == IInv /\ UNCHANGED vars => IInv'
<1> SUFFICES ASSUME IInv, UNCHANGED vars PROVE IInv'
  OBVIOUS
<1>1. TypeOK' /\ LockInv' /\ HandedOutZeroed' /\ PanicMeansExhausted'
  BY DEF IInv, TypeOK, LockInv, HandedOutZeroed, PanicMeansExhausted, vars
<1>2. \A k \in Harts : InFlight(k)' = InFlight(k) /\ guards'[k] = guards[k]
  BY DEF InFlight, vars
<1>3. ExclusiveFrames' /\ BitmapMatchesGuards'
  BY <1>2, OwnershipUnmoved DEF IInv, ExclusiveFrames, vars
<1> QED  BY <1>1, <1>3 DEF IInv

(* The inductive invariant holds in every reachable state. *)
THEOREM Invariance == Spec => []IInv
<1>1. IInv /\ [Next]_vars => IInv'
  BY HartInv, StutterInv DEF Next
<1> QED  BY InitInv, <1>1, PTL DEF Spec

(* The state keeps its types; in particular the frame a hart clears or     *)
(* gives back is one of the heap.                                          *)
THEOREM TypeCorrect == Spec => []TypeOK
BY Invariance, PTL DEF IInv

(* For any number of harts and pages: a frame has one user at a time, even *)
(* while it is being cleared or given back outside the mutex.              *)
THEOREM FramesAreExclusive == Spec => []ExclusiveFrames
BY Invariance, PTL DEF IInv

(* The bitmap marks exactly the frames in use: no leak, no early reuse.    *)
THEOREM BitmapIsExact == Spec => []BitmapMatchesGuards
BY Invariance, PTL DEF IInv

(* FrameGuard::allocate_zeroed returns a frame of zeroes. *)
THEOREM ZeroedHandout == Spec => []HandedOutZeroed
BY Invariance, PTL DEF IInv

(* "no available page!" is raised only with every page in use. *)
THEOREM PanicIsExhaustion == Spec => []PanicMeansExhausted
BY Invariance, PTL DEF IInv

(* No frame is cleared while a guard of it is held, although frames are    *)
(* cleared outside the mutex: the frame that a hart clears is in flight,   *)
(* and so in no guard, its own ones included.                              *)
THEOREM HeldFramesNotCleared == Spec => HeldFramesKept
<1>1. ASSUME IInv, Next, NEW k \in Harts, NEW f \in guards[k], content[f] = "data"
      PROVE  content'[f] = "data"
  <2>1. PICK h \in Harts : \/ CallAllocate(h) \/ HartStep(h)
                           \/ \E g \in guards[h] : Write(h, g) \/ DropGuard(h, g)
    BY <1>1 DEF Next
  <2>2. f \in Frames /\ content \in [Frames -> {"zero", "data"}]
    BY <1>1 DEF IInv, TypeOK
  <2>3. CASE Zero(h)
    <3>1. InFlight(h) = {cur[h]}
      BY <2>3 DEF Zero, Goto, InFlight
    <3>2. f # cur[h]
      BY <1>1, <3>1 DEF IInv, ExclusiveFrames
    <3> QED  BY <1>1, <2>2, <2>3, <3>2 DEF Zero
  <2>4. CASE \E g \in guards[h] : Write(h, g)
    BY <1>1, <2>2, <2>4 DEF Write
  <2> QED
    BY <1>1, <2>1, <2>3, <2>4 DEF HartStep, CallAllocate, LockForAllocate, Allocate,
       AllocatePanic, Return, LockForDeallocate, Deallocate, DropGuard
<1>2. IInv /\ [Next]_vars =>
        [\A h \in Harts : \A f \in guards[h] :
           content[f] = "data" => content'[f] = "data"]_vars
  BY <1>1 DEF vars
<1> QED  BY Invariance, <1>2, PTL DEF Spec, HeldFramesKept
=============================================================================

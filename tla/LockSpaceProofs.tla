-------------------------- MODULE LockSpaceProofs ---------------------------
(***************************************************************************)
(* For any number of harts, any page table and any number of free frames:  *)
(* lock_space never writes to a node it may not write to, never leaves a   *)
(* hart on freed nodes, loses no frame, and is in force when it is over.   *)
(***************************************************************************)
EXTENDS LockSpace, TLAPS

\* the labels of a hart with the write lock
Inside == { "make_kernel", "out_of_frames", "load_another", "lock_table", "drop" }

\* where a hart has all of another_space, and where it has some of it
Complete == { "load_another", "lock_table" }
Owning == Complete \cup { "out_of_frames", "drop" }

\* lock_table is over
Through == { "drop", "intr_on", "usertrapret", "translate" } \cup Done

(* What holds of one hart.  The write lock keeps the frames of the second  *)
(* space apart from those other harts take and return, and the nodes that  *)
(* are not yet read-only are among those lock_table has still to visit.    *)
HartInv(h) ==
  /\ pc[h] \in Inside => writer = h
  /\ satp[h] = "another" <=> pc[h] = "lock_table"
  /\ pc[h] = "lock_table" =>
       todo[h] \in Seq(Nodes) /\ Nodes \subseteq readonly \cup Range(todo[h])
  /\ pc[h] \in Complete => Cardinality(another[h]) = SpaceNodes /\ another[h] \cap free = {}
  /\ pc[h] \notin Owning => another[h] = {}
  /\ pc[h] \in Through => satp[h] \in {"kernel", "user"} /\ Nodes \subseteq readonly /\ tlb[h] = {}

Domains ==
  /\ DOMAIN pc = Harts /\ DOMAIN satp = Harts /\ DOMAIN tlb = Harts
  /\ DOMAIN another = Harts /\ DOMAIN todo = Harts

LockInv == Domains /\ NoFrameLost /\ \A h \in Harts : HartInv(h)

\* What hart k has for itself does not change.
Still(k) ==
  /\ pc'[k] = pc[k] /\ satp'[k] = satp[k] /\ tlb'[k] = tlb[k]
  /\ another'[k] = another[k] /\ todo'[k] = todo[k]

(* Nobody has the lock, and only hart 0 is on the kernel's space. *)
LEMMA LockInit == Init => LockInv
<1> SUFFICES ASSUME Init PROVE LockInv
  OBVIOUS
<1>1. Domains
  BY DEF Init, Domains
<1>2. NoFrameLost
  BY DEF Init, NoFrameLost
<1>3. ASSUME NEW h \in Harts PROVE HartInv(h)
  BY DEF Init, HartInv, Inside, Complete, Owning, Through, Done
<1> QED
  BY <1>1, <1>2, <1>3 DEF LockInv

(* A step of another hart leaves hart k alone, if the lock and the free    *)
(* frames stay as they are, or k has no part in them.                      *)
LEMMA OtherHart ==
  ASSUME NEW k \in Harts, HartInv(k), Still(k),
         readonly \subseteq readonly',
         pc[k] \notin Inside \/ UNCHANGED << writer, free >>
  PROVE  HartInv(k)'
<1>1. pc'[k] \in Inside => writer' = k
  BY DEF HartInv, Still
<1>2. satp'[k] = "another" <=> pc'[k] = "lock_table"
  BY DEF HartInv, Still
<1>3. pc'[k] = "lock_table" =>
        todo'[k] \in Seq(Nodes) /\ Nodes \subseteq readonly' \cup Range(todo'[k])
  BY DEF HartInv, Still
<1>4. pc'[k] \in Complete => Cardinality(another'[k]) = SpaceNodes /\ another'[k] \cap free' = {}
  BY DEF HartInv, Still, Complete, Inside
<1>5. pc'[k] \notin Owning => another'[k] = {}
  BY DEF HartInv, Still
<1>6. pc'[k] \in Through => satp'[k] \in {"kernel", "user"} /\ Nodes \subseteq readonly' /\ tlb'[k] = {}
  BY DEF HartInv, Still
<1> QED
  BY <1>1, <1>2, <1>3, <1>4, <1>5, <1>6 DEF HartInv

(* The other harts are outside while the lock is free or held by h. *)
LEMMA AloneInside ==
  ASSUME LockInv, NEW h \in Harts, NEW k \in Harts, k # h, writer = NoHart \/ writer = h
  PROVE  pc[k] \notin Inside
BY LockSpaceAssumption DEF LockInv, HartInv

(* lock_table visits the first node of todo and leaves the others. *)
LEMMA HeadAndTail ==
  ASSUME NEW S, NEW s \in Seq(S), s # << >>
  PROVE  Tail(s) \in Seq(S) /\ Range(s) \subseteq {Head(s)} \cup Range(Tail(s))
<1>1. Tail(s) \in Seq(S)
  OBVIOUS
<1>2. ASSUME NEW i \in DOMAIN s PROVE s[i] \in {Head(s)} \cup Range(Tail(s))
  <2>1. CASE i = 1
    BY <2>1
  <2>2. CASE i # 1
    <3>1. i - 1 \in DOMAIN Tail(s) /\ Tail(s)[i - 1] = s[i]
      BY <2>2
    <3> QED  BY <3>1 DEF Range
  <2> QED  BY <2>1, <2>2
<1> QED
  BY <1>1, <1>2 DEF Range

(* Frames go between the allocator and hart h's second space. *)
LEMMA FramesMove ==
  ASSUME DOMAIN another = Harts, NoFrameLost, NEW h \in Harts, NEW A,
         another' = [another EXCEPT ![h] = A],
         free' \cup A = free \cup another[h]
  PROVE  NoFrameLost'
<1>1. \A k \in Harts : another'[k] = IF k = h THEN A ELSE another[k]
  OBVIOUS
<1>2. ASSUME NEW f
      PROVE  f \in free \cup UNION { another[k] : k \in Harts }
               <=> f \in free' \cup UNION { another'[k] : k \in Harts }
  <2>1. f \in UNION { another[k] : k \in Harts } <=> \E k \in Harts : f \in another[k]
    OBVIOUS
  <2>2. f \in UNION { another'[k] : k \in Harts } <=> \E k \in Harts : f \in another'[k]
    OBVIOUS
  <2>3. f \in free' \/ f \in A <=> f \in free \/ f \in another[h]
    OBVIOUS
  <2>4. f \in free \/ (\E k \in Harts : f \in another[k])
          <=> f \in free' \/ (\E k \in Harts : f \in another'[k])
    BY <1>1, <2>3
  <2> QED  BY <2>1, <2>2, <2>4
<1>3. free \cup UNION { another[k] : k \in Harts } = free' \cup UNION { another'[k] : k \in Harts }
  BY <1>2
<1> QED
  BY <1>3 DEF NoFrameLost

(* It is enough to look at the hart that takes the step. *)
LEMMA OneHart ==
  ASSUME LockInv, NEW h \in Harts, Domains', NoFrameLost', HartInv(h)',
         readonly \subseteq readonly', \A k \in Harts \ {h} : Still(k),
         UNCHANGED << writer, free >> \/ writer = NoHart \/ writer = h
  PROVE  LockInv'
<1>1. ASSUME NEW k \in Harts, k # h PROVE HartInv(k)'
  <2>1. pc[k] \notin Inside \/ UNCHANGED << writer, free >>
    BY <1>1, AloneInside
  <2>2. HartInv(k) /\ Still(k)
    BY <1>1 DEF LockInv
  <2> QED  BY <2>1, <2>2, OtherHart
<1> QED
  BY <1>1 DEF LockInv

(* The steps that take or give the lock, and those around them. *)
LEMMA LockSteps ==
  ASSUME LockInv, NEW h \in Harts,
         \/ hart_init(h) \/ HartInitLoad(h) \/ WriteLock(h) \/ WriteUnlock(h)
         \/ intr_on(h) \/ tick(h) \/ NoProcessPanic(h) \/ userret_on_trampoline(h) \/ Userret(h)
  PROVE  LockInv'
<1> USE DEF Goto, ReadLock, load
<1>1. UNCHANGED << readonly, another, todo, free >>
  BY DEF hart_init, HartInitLoad, WriteLock, WriteUnlock, intr_on, tick, NoProcessPanic,
         userret_on_trampoline, Userret
<1>2. NoFrameLost'
  BY <1>1 DEF LockInv, NoFrameLost
<1>3. Domains' /\ \A k \in Harts \ {h} : Still(k)
  BY <1>1 DEF LockInv, Domains, Still, hart_init, HartInitLoad, WriteLock, WriteUnlock,
              intr_on, tick, NoProcessPanic, userret_on_trampoline, Userret
<1>4. UNCHANGED << writer, free >> \/ writer = NoHart \/ writer = h
  BY <1>1 DEF LockInv, HartInv, Inside, hart_init, HartInitLoad, WriteLock, WriteUnlock,
              intr_on, tick, NoProcessPanic, userret_on_trampoline, Userret
<1>5. HartInv(h) /\ DOMAIN pc = Harts /\ DOMAIN satp = Harts /\ DOMAIN tlb = Harts
  BY SMTT(20) DEF LockInv, Domains
<1>6. HartInv(h)'
  <2> USE <1>1, <1>5 DEF HartInv, Inside, Complete, Owning, Through, Done
  <2>1. CASE hart_init(h) \/ userret_on_trampoline(h)
    BY <2>1 DEF hart_init, userret_on_trampoline
  <2>2. CASE HartInitLoad(h)
    BY <2>2 DEF HartInitLoad
  <2>3. CASE WriteLock(h)
    BY <2>3 DEF WriteLock
  <2>4. CASE WriteUnlock(h)
    BY <2>4 DEF WriteUnlock
  <2>5. CASE intr_on(h) \/ tick(h) \/ NoProcessPanic(h) \/ Userret(h)
    BY <2>5 DEF intr_on, tick, NoProcessPanic, Userret
  <2> QED  BY <2>1, <2>2, <2>3, <2>4, <2>5
<1> QED
  BY <1>1, <1>2, <1>3, <1>4, <1>6, OneHart

(* The steps that move frames: make_kernel takes them, drop returns them. *)
LEMMA FrameSteps ==
  ASSUME LockInv, NEW h \in Harts, make_kernel(h) \/ MakeKernelPanic(h) \/ DropFrame(h)
  PROVE  LockInv'
<1> USE DEF Goto
<1>1. UNCHANGED << satp, writer, readers, readonly, todo >>
  BY DEF make_kernel, MakeKernelPanic, DropFrame
<1>2. HartInv(h) /\ Domains /\ NoFrameLost
  BY DEF LockInv
<1>3. Domains' /\ \A k \in Harts \ {h} : Still(k)
  BY <1>1, <1>2 DEF Domains, Still, make_kernel, MakeKernelPanic, DropFrame
<1>4. writer = h
  BY <1>2 DEF HartInv, Inside, make_kernel, MakeKernelPanic, DropFrame
<1>5. CASE make_kernel(h)
  <2>1. PICK S \in SUBSET free : /\ Cardinality(S) = SpaceNodes
                                 /\ another' = [another EXCEPT ![h] = S]
                                 /\ free' = free \ S
    BY <1>5, Zenon DEF make_kernel
  <2>2. pc[h] = "make_kernel" /\ pc'[h] = "load_another" /\ UNCHANGED tlb
    BY <1>2, <1>5 DEF make_kernel, Domains
  <2>3. another[h] = {} /\ another'[h] = S
    BY <1>2, <2>1, <2>2 DEF HartInv, Owning, Complete, Domains
  <2>4. NoFrameLost'
    BY <1>2, <2>1, <2>3, FramesMove, Zenon DEF Domains
  <2>5. HartInv(h)'
    BY <1>1, <1>2, <1>4, <2>1, <2>2, <2>3 DEF HartInv, Inside, Complete, Owning, Through, Done
  <2> QED  BY <1>1, <1>3, <1>4, <2>4, <2>5, OneHart
<1>6. CASE MakeKernelPanic(h)
  <2>1. pc[h] = "make_kernel" /\ pc'[h] = "out_of_frames" /\ UNCHANGED tlb
    BY <1>2, <1>6 DEF MakeKernelPanic, Domains
  <2>2. another[h] = {} /\ another' = [another EXCEPT ![h] = free] /\ free' = {}
    BY <1>2, <1>6, <2>1 DEF MakeKernelPanic, HartInv, Owning, Complete
  <2>3. NoFrameLost'
    BY <1>2, <2>2, FramesMove, Zenon DEF Domains
  <2>4. HartInv(h)'
    BY <1>1, <1>2, <1>4, <2>1 DEF HartInv, Inside, Complete, Owning, Through, Done
  <2> QED  BY <1>1, <1>3, <1>4, <2>3, <2>4, OneHart
<1>7. CASE DropFrame(h)
  <2>1. PICK f \in another[h] : /\ another' = [another EXCEPT ![h] = another[h] \ {f}]
                                /\ free' = free \cup {f}
    BY <1>7, Zenon DEF DropFrame
  <2>2. pc[h] = "drop" /\ pc' = pc /\ tlb'[h] = {}
    BY <1>2, <1>7 DEF DropFrame, Domains
  <2>3. NoFrameLost'
    <3>1. free' \cup (another[h] \ {f}) = free \cup another[h]
      BY <2>1
    <3> QED  BY <1>2, <2>1, <3>1, FramesMove, Zenon DEF Domains
  <2>4. HartInv(h)'
    BY <1>1, <1>2, <1>4, <2>2 DEF HartInv, Inside, Complete, Owning, Through, Done
  <2> QED  BY <1>1, <1>3, <1>4, <2>3, <2>4, OneHart
<1> QED
  BY <1>5, <1>6, <1>7

(* The steps of lock_space on the second space. *)
LEMMA TableSteps ==
  ASSUME LockInv, NEW h \in Harts, LoadAnother(h) \/ lock_table(h) \/ LoadSelf(h)
  PROVE  LockInv'
<1> USE DEF Goto, load
<1>1. UNCHANGED << writer, readers, another, free >> /\ readonly \subseteq readonly'
  BY DEF LoadAnother, lock_table, LoadSelf
<1>2. HartInv(h) /\ Domains
  BY DEF LockInv
<1>3. NoFrameLost'
  BY <1>1 DEF LockInv, NoFrameLost
<1>4. Domains' /\ \A k \in Harts \ {h} : Still(k)
  BY <1>1, <1>2 DEF Domains, Still, LoadAnother, lock_table, LoadSelf
<1>5. CASE LoadAnother(h)
  <2>1. /\ pc[h] = "load_another" /\ pc'[h] = "lock_table" /\ satp'[h] = "another"
        /\ todo'[h] = KernelNodes
    BY <1>2, <1>5 DEF LoadAnother, Domains
  <2>2. KernelNodes \in Seq(Nodes)
    BY LockSpaceAssumption DEF Nodes
  <2>3. HartInv(h)'
    BY <1>1, <1>2, <2>1, <2>2 DEF HartInv, Inside, Complete, Owning, Through, Done, Nodes
  <2> QED  BY <1>1, <1>3, <1>4, <2>3, OneHart
<1>6. CASE lock_table(h)
  <2>1. /\ pc[h] = "lock_table" /\ pc' = pc /\ satp' = satp /\ todo[h] # << >>
        /\ todo'[h] = Tail(todo[h]) /\ readonly' = readonly \cup {Head(todo[h])}
    BY <1>2, <1>6 DEF lock_table, Domains
  <2>2. todo[h] \in Seq(Nodes) /\ Nodes \subseteq readonly \cup Range(todo[h])
    BY <1>2, <2>1 DEF HartInv
  <2>3. /\ Tail(todo[h]) \in Seq(Nodes)
        /\ Range(todo[h]) \subseteq {Head(todo[h])} \cup Range(Tail(todo[h]))
    BY <2>1, <2>2, HeadAndTail
  <2>4. todo'[h] \in Seq(Nodes) /\ Nodes \subseteq readonly' \cup Range(todo'[h])
    BY <2>1, <2>2, <2>3
  <2>5. HartInv(h)'
    BY <1>1, <1>2, <2>1, <2>4 DEF HartInv, Inside, Complete, Owning, Through, Done
  <2> QED  BY <1>1, <1>3, <1>4, <2>5, OneHart
<1>7. CASE LoadSelf(h)
  <2>1. /\ pc[h] = "lock_table" /\ pc'[h] = "drop" /\ satp'[h] = "kernel" /\ tlb'[h] = {}
        /\ todo[h] = << >> /\ readonly' = readonly
    BY <1>2, <1>7 DEF LoadSelf, Domains
  <2>2. Range(todo[h]) = {}
    BY <2>1 DEF Range
  <2>3. Nodes \subseteq readonly
    BY <1>2, <2>1, <2>2 DEF HartInv
  <2>4. HartInv(h)'
    BY <1>1, <1>2, <2>1, <2>3 DEF HartInv, Inside, Complete, Owning, Through, Done
  <2> QED  BY <1>1, <1>3, <1>4, <2>4, OneHart
<1> QED
  BY <1>5, <1>6, <1>7

(* The TLB takes no writable translation of a node once all are locked.  *)
LEMMA TlbStep ==
  ASSUME LockInv, NEW h \in Harts, NEW f \in Nodes, FillTlb(h, f)
  PROVE  LockInv'
<1>1. UNCHANGED << pc, satp, writer, readers, readonly, another, todo, free >>
  BY DEF FillTlb
<1>2. HartInv(h) /\ Domains
  BY DEF LockInv
<1>3. NoFrameLost'
  BY <1>1, SMTT(20) DEF LockInv, NoFrameLost
<1>4. Domains' /\ \A k \in Harts \ {h} : Still(k)
  BY <1>1, <1>2 DEF Domains, Still, FillTlb
<1>5. pc[h] \notin Through
  BY <1>2 DEF FillTlb, MapsWritable, HartInv
<1>6. HartInv(h)'
  BY <1>1, <1>2, <1>5 DEF HartInv
<1> QED
  BY <1>1, <1>3, <1>4, <1>6, OneHart

(* Every step keeps the invariant. *)
LEMMA LockStep == LockInv /\ [Next]_vars => LockInv'
<1> SUFFICES ASSUME LockInv, [Next]_vars PROVE LockInv'
  OBVIOUS
<1>1. CASE UNCHANGED vars
  BY <1>1 DEF vars, LockInv, Domains, NoFrameLost, HartInv
<1>2. CASE Next
  <2>1. PICK h \in Harts : HartStep(h) \/ tick(h) \/ \E f \in Nodes : FillTlb(h, f)
    BY <1>2 DEF Next
  <2> QED  BY <2>1, LockSteps, FrameSteps, TableSteps, TlbStep DEF HartStep
<1> QED
  BY <1>1, <1>2

(* The invariant holds throughout. *)
LEMMA LockInvariant == Spec => []LockInv
BY LockInit, LockStep, PTL DEF Spec

-----------------------------------------------------------------------------

(* lock_table's stores never fault, for any number of harts: a hart makes  *)
(* them on another_space only (page_table.rs, lock_table).                 *)
THEOREM StoresAllowed == Spec => []LockTableStoreAllowed
<1>1. LockInv => LockTableStoreAllowed
  BY DEF LockInv, HartInv, LockTableStoreAllowed, MapsWritable
<1> QED
  BY <1>1, LockInvariant, PTL

(* No hart ever runs on a space whose nodes have been given back           *)
(* (lock_space loads self before it drops another_space).                  *)
THEOREM NeverOnFreedNodes == Spec => []ActiveSpaceAllocated
<1>1. LockInv => ActiveSpaceAllocated
  BY DEF LockInv, HartInv, ActiveSpaceAllocated, Complete
<1> QED
  BY <1>1, LockInvariant, PTL

(* After lock_space a hart can write to no node of the kernel's table,     *)
(* through whatever its TLB holds (AddrSpace::load, lock_space).           *)
THEOREM LockInForce == Spec => []LockEnforced
<1>1. LockInv => LockEnforced
  BY DEF LockInv, HartInv, LockEnforced, Through, MapsWritable
<1> QED
  BY <1>1, LockInvariant, PTL

(* However many harts lock the space, the frames that are free and those   *)
(* of second spaces are the ones that were free at the start.              *)
THEOREM FramesReturned == Spec => []NoFrameLost
<1>1. LockInv => NoFrameLost
  BY DEF LockInv
<1> QED
  BY <1>1, LockInvariant, PTL

-----------------------------------------------------------------------------

(* Every step of a hart keeps the types. *)
LEMMA TypeHartStep ==
  ASSUME TypeOK, NEW h \in Harts, HartStep(h) \/ tick(h) \/ \E f \in Nodes : FillTlb(h, f)
  PROVE  TypeOK'
<1> USE DEF TypeOK, Goto, load, Done
<1>1. KernelNodes \in Seq(Nodes)
  BY LockSpaceAssumption DEF Nodes
<1>2. CASE hart_init(h) \/ HartInitLoad(h) \/ WriteLock(h)
  BY <1>2, Zenon DEF hart_init, ReadLock, HartInitLoad, WriteLock
<1>3. CASE make_kernel(h) \/ MakeKernelPanic(h)
  BY <1>3, ZenonT(40) DEF make_kernel, MakeKernelPanic
<1>4. CASE LoadAnother(h)
  BY <1>1, <1>4 DEF LoadAnother
<1>5. CASE lock_table(h)
  <2>1. Head(todo[h]) \in Nodes /\ Tail(todo[h]) \in Seq(Nodes)
    BY <1>5 DEF lock_table
  <2> QED  BY <1>5, <2>1 DEF lock_table
<1>6. CASE LoadSelf(h) \/ DropFrame(h) \/ WriteUnlock(h)
  BY <1>6, ZenonT(40) DEF LoadSelf, DropFrame, WriteUnlock
<1>7. CASE intr_on(h) \/ tick(h) \/ NoProcessPanic(h) \/ userret_on_trampoline(h) \/ Userret(h)
  BY <1>7, ZenonT(40) DEF intr_on, tick, NoProcessPanic, userret_on_trampoline, ReadLock, Userret
<1>8. CASE \E f \in Nodes : FillTlb(h, f)
  BY <1>8 DEF FillTlb
<1> QED
  BY <1>2, <1>3, <1>4, <1>5, <1>6, <1>7, <1>8 DEF HartStep

(* The harts' labels, spaces and node frames keep their types; the second  *)
(* space consists of frames of the heap.                                   *)
THEOREM LockSpaceTypes == Spec => []TypeOK
<1>1. Init => TypeOK
  <2> SUFFICES ASSUME Init PROVE TypeOK
    OBVIOUS
  <2>1. free \subseteq Heap
    BY DEF Init, Heap
  <2>2. << >> \in Seq(Nodes)
    OBVIOUS
  <2> QED  BY <2>1, <2>2 DEF Init, TypeOK
<1>2. TypeOK /\ [Next]_vars => TypeOK'
  <2>1. TypeOK /\ UNCHANGED vars => TypeOK'
    BY DEF vars, TypeOK
  <2> QED  BY <2>1, TypeHartStep DEF Next
<1> QED
  BY <1>1, <1>2, PTL DEF Spec
=============================================================================

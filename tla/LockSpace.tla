----------------------------- MODULE LockSpace -----------------------------
(***************************************************************************)
(* The harts at the end of kmain: each one turns paging on with the        *)
(* kernel's address space, then write-locks KERNEL_ADDRESS_SPACE and runs  *)
(* AddrSpace::lock_space, which makes the page table's own frames          *)
(* read-only.  To be able to write to them while they are being locked,    *)
(* lock_space builds a second kernel space, runs on it, comes back and     *)
(* drops it.  Then the hart turns interrupts on, reads the kernel space    *)
(* once more (usertrapret) and leaves for user mode, or panics for want of *)
(* a process; a tick, in between, it does not get past (module TrapPath).  *)
(***************************************************************************)
EXTENDS Integers, Sequences, FiniteSets, Functions

CONSTANTS
  Harts,
  BootHart,     \* hart 0, the one that runs the init process
  NoHart,
  KernelNodes,  \* node_frames of KERNEL_ADDRESS_SPACE, a sequence of frames
  PteNode,      \* the node that holds the PTEs of the frames in KernelNodes
  SpaceNodes,   \* the number of node frames of a kernel address space
  FreeAtStart   \* the sets of frames that may be free at the start

ASSUME LockSpaceAssumption ==
  /\ BootHart \in Harts /\ NoHart \notin Harts
  /\ KernelNodes \in Seq(Range(KernelNodes)) /\ PteNode \in Range(KernelNodes)
  /\ SpaceNodes \in Nat \ {0}
  /\ \A F \in FreeAtStart : F \cap Range(KernelNodes) = {}

VARIABLES
  pc,
  satp,      \* the page table a hart runs on: "bare", "kernel", "another" or "user"
  tlb,       \* kernel nodes a hart's TLB may hold as writable
  writer,    \* KERNEL_ADDRESS_SPACE: the hart with the write lock
  readers,   \* and the harts with a read lock
  readonly,  \* node frames the kernel's page table maps read-only
  another,   \* the node frames of a hart's another_space
  todo,      \* node frames lock_table has still to visit
  free       \* the frame allocator's free frames

vars == << pc, satp, tlb, writer, readers, readonly, another, todo, free >>

Nodes == Range(KernelNodes)
Heap == Nodes \cup UNION FreeAtStart

Done == { "user", "no_process", "tick" }

\* Hart 0 turned paging on before it let the others go on (module Boot).
Init ==
  /\ pc = [h \in Harts |-> IF h = BootHart THEN "write_lock" ELSE "hart_init"]
  /\ satp = [h \in Harts |-> IF h = BootHart THEN "kernel" ELSE "bare"]
  /\ tlb = [h \in Harts |-> {}]
  /\ writer = NoHart
  /\ readers = {}
  /\ readonly = {}
  /\ another = [h \in Harts |-> {}]
  /\ todo = [h \in Harts |-> << >>]
  /\ free \in FreeAtStart

Goto(h, from, to) == pc[h] = from /\ pc' = [pc EXCEPT ![h] = to]

-----------------------------------------------------------------------------
(* Address translation: external, as the privileged architecture has it    *)

\* The table hart h runs on lets it write to heap frame f
MapsWritable(h, f) == satp[h] # "user" /\ (satp[h] = "kernel" => f \notin readonly)

\* A use of node frame f leaves its translation in the TLB.
FillTlb(h, f) ==
  /\ satp[h] # "bare"
  /\ f \notin tlb[h]
  /\ MapsWritable(h, f)
  /\ tlb' = [tlb EXCEPT ![h] = @ \cup {f}]
  /\ UNCHANGED << pc, satp, writer, readers, readonly, another, todo, free >>

load_NoFence(h, space) ==
  /\ satp' = [satp EXCEPT ![h] = space]
  /\ UNCHANGED tlb

\* AddrSpace::load: satp, then sfence.vma
load(h, space) ==
  /\ satp' = [satp EXCEPT ![h] = space]
  /\ tlb' = [tlb EXCEPT ![h] = {}]

-----------------------------------------------------------------------------
(* mm::hart_init: KERNEL_ADDRESS_SPACE.read().load() *)

ReadLock(h, from, to) ==
  /\ Goto(h, from, to)
  /\ writer = NoHart
  /\ readers' = readers \cup {h}
  /\ UNCHANGED << satp, tlb, writer, readonly, another, todo, free >>

hart_init(h) == ReadLock(h, "hart_init", "load")

HartInitLoad(h) ==
  /\ Goto(h, "load", "write_lock")
  /\ load(h, "kernel")
  /\ readers' = readers \ {h}
  /\ UNCHANGED << writer, readonly, another, todo, free >>

-----------------------------------------------------------------------------
(* KERNEL_ADDRESS_SPACE.write().lock_space() *)

WriteLock(h) ==
  /\ Goto(h, "write_lock", "make_kernel")
  /\ writer = NoHart /\ readers = {}
  /\ writer' = h
  /\ UNCHANGED << satp, tlb, readers, readonly, another, todo, free >>

\* The nodes of the new space come from the frame allocator.
make_kernel(h) ==
  /\ Goto(h, "make_kernel", "load_another")
  /\ \E S \in SUBSET free :
       /\ Cardinality(S) = SpaceNodes
       /\ another' = [another EXCEPT ![h] = S]
       /\ free' = free \ S
  /\ UNCHANGED << satp, tlb, writer, readers, readonly, todo >>

\* "no available page!": the hart stops with the write lock, the frames it
\* already has are lost.
MakeKernelPanic(h) ==
  /\ Goto(h, "make_kernel", "out_of_frames")
  /\ Cardinality(free) < SpaceNodes
  /\ another' = [another EXCEPT ![h] = free]
  /\ free' = {}
  /\ UNCHANGED << satp, tlb, writer, readers, readonly, todo >>

LoadAnother_Skipped(h) ==
  /\ Goto(h, "load_another", "lock_table")
  /\ todo' = [todo EXCEPT ![h] = KernelNodes]
  /\ UNCHANGED << satp, tlb, writer, readers, readonly, another, free >>

LoadAnother(h) ==
  /\ Goto(h, "load_another", "lock_table")
  /\ load(h, "another")
  /\ todo' = [todo EXCEPT ![h] = KernelNodes]
  /\ UNCHANGED << writer, readers, readonly, another, free >>

lock_table_OfAnother(h) ==
  /\ pc[h] = "lock_table"
  /\ todo[h] # << >>
  /\ readonly' = readonly \cup another[h]
  /\ todo' = [todo EXCEPT ![h] = Tail(@)]
  /\ UNCHANGED << pc, satp, tlb, writer, readers, another, free >>

\* One iteration of lock_table: a store to the PTE of the next node frame
lock_table(h) ==
  /\ pc[h] = "lock_table"
  /\ todo[h] # << >>
  /\ MapsWritable(h, PteNode)
  /\ readonly' = readonly \cup {Head(todo[h])}
  /\ todo' = [todo EXCEPT ![h] = Tail(@)]
  /\ UNCHANGED << pc, satp, tlb, writer, readers, another, free >>

LoadSelf_Missing(h) ==
  /\ Goto(h, "lock_table", "drop")
  /\ todo[h] = << >>
  /\ UNCHANGED << satp, tlb, writer, readers, readonly, another, todo, free >>

LoadSelf(h) ==
  /\ Goto(h, "lock_table", "drop")
  /\ todo[h] = << >>
  /\ load(h, "kernel")
  /\ UNCHANGED << writer, readers, readonly, another, todo, free >>

DropFrame_Forgotten(h) ==
  /\ pc[h] = "drop"
  /\ \E f \in another[h] : another' = [another EXCEPT ![h] = @ \ {f}]
  /\ UNCHANGED << pc, satp, tlb, writer, readers, readonly, todo, free >>

\* drop(another_space): its FrameGuards go one by one, each with an sfence.vma
DropFrame(h) ==
  /\ pc[h] = "drop"
  /\ \E f \in another[h] :
       /\ another' = [another EXCEPT ![h] = @ \ {f}]
       /\ free' = free \cup {f}
  /\ tlb' = [tlb EXCEPT ![h] = {}]
  /\ UNCHANGED << pc, satp, writer, readers, readonly, todo >>

WriteUnlock_Missing(h) ==
  /\ Goto(h, "drop", "intr_on")
  /\ another[h] = {}
  /\ UNCHANGED << satp, tlb, writer, readers, readonly, another, todo, free >>

\* the end of the statement releases the write lock
WriteUnlock(h) ==
  /\ Goto(h, "drop", "intr_on")
  /\ another[h] = {}
  /\ writer' = NoHart
  /\ UNCHANGED << satp, tlb, readers, readonly, another, todo, free >>

\* kmain, after lock_space
intr_on(h) ==
  /\ Goto(h, "intr_on", "usertrapret")
  /\ UNCHANGED << satp, tlb, writer, readers, readonly, another, todo, free >>

\* with interrupts on, which userret_on_trampoline turns off before it reads
tick(h) ==
  /\ pc[h] \in { "usertrapret", "no_process" }
  /\ pc' = [pc EXCEPT ![h] = "tick"]
  /\ UNCHANGED << satp, tlb, writer, readers, readonly, another, todo, free >>

-----------------------------------------------------------------------------
(* usertrapret and the translation check of userret_on_trampoline.  Only   *)
(* hart 0 was given a process (process::init).                             *)

NoProcessPanic(h) ==
  /\ h # BootHart
  /\ Goto(h, "usertrapret", "no_process")
  /\ UNCHANGED << satp, tlb, writer, readers, readonly, another, todo, free >>

userret_on_trampoline(h) == h = BootHart /\ ReadLock(h, "usertrapret", "translate")

\* the end of the check releases the lock, then __userret loads the user space
Userret(h) ==
  /\ Goto(h, "translate", "user")
  /\ readers' = readers \ {h}
  /\ load(h, "user")
  /\ UNCHANGED << writer, readonly, another, todo, free >>

-----------------------------------------------------------------------------

HartStep(h) ==
  \/ hart_init(h) \/ HartInitLoad(h)
  \/ WriteLock(h) \/ make_kernel(h) \/ MakeKernelPanic(h) \/ LoadAnother(h)
  \/ lock_table(h) \/ LoadSelf(h) \/ DropFrame(h) \/ WriteUnlock(h)
  \/ intr_on(h) \/ NoProcessPanic(h) \/ userret_on_trampoline(h) \/ Userret(h)

Next == \E h \in Harts : HartStep(h) \/ tick(h) \/ \E f \in Nodes : FillTlb(h, f)

(* Every hart keeps executing.  spin::RwLock makes no promise of fairness; *)
(* each hart takes the lock a fixed number of times, so none is needed.    *)
Spec == Init /\ [][Next]_vars /\ \A h \in Harts : WF_vars(HartStep(h))

-----------------------------------------------------------------------------
(* Properties *)

TypeOK ==
  /\ pc \in [Harts -> { "hart_init", "load", "write_lock", "make_kernel", "out_of_frames",
                        "load_another", "lock_table", "drop", "intr_on", "usertrapret",
                        "translate" } \cup Done]
  /\ satp \in [Harts -> {"bare", "kernel", "another", "user"}]
  /\ tlb \in [Harts -> SUBSET Nodes]
  /\ writer \in Harts \cup {NoHart}
  /\ readers \subseteq Harts
  /\ readonly \subseteq Nodes
  /\ another \in [Harts -> SUBSET Heap]
  /\ todo \in [Harts -> Seq(Nodes)]
  /\ free \subseteq Heap

(* No hart runs on a page table whose frames have been given back: self is *)
(* loaded before another_space is dropped.                                 *)
ActiveSpaceAllocated ==
  \A h \in Harts : satp[h] = "another" =>
    Cardinality(another[h]) = SpaceNodes /\ another[h] \cap free = {}

(* lock_table never faults on the node it writes to, although that node is *)
(* one of those it makes read-only, or was already by an earlier hart      *)
(* ("It should be called when using another address space!!!").            *)
LockTableStoreAllowed ==
  \A h \in Harts : pc[h] = "lock_table" /\ todo[h] # << >> => MapsWritable(h, PteNode)

(* A hart that is through lock_space cannot write to the kernel's page     *)
(* table, not even through a translation its TLB still holds.              *)
LockEnforced ==
  \A h \in Harts, f \in Nodes :
    pc[h] \in { "drop", "intr_on", "usertrapret", "translate" } \cup Done =>
      ~MapsWritable(h, f) /\ f \notin tlb[h]

(* The frames of the second space are all returned: n harts that lock the  *)
(* space one after another need the frames of one extra space, not of n.   *)
NoFrameLost ==
  \E F \in FreeAtStart : F = free \cup UNION { another[h] : h \in Harts }

(* If there are frames for one extra space, every hart gets through        *)
(* lock_space to usertrapret, whatever the order in which the unfair lock  *)
(* serves them, and wherever a tick stops the harts that have the lock     *)
(* behind them.                                                            *)
EveryHartGetsThrough ==
  Cardinality(free) >= SpaceNodes => \A h \in Harts : <>(pc[h] = "usertrapret")
=============================================================================

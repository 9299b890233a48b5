------------------------- MODULE AddressSpaceProofs -------------------------
(***************************************************************************)
(* What the steps of AddressSpace keep, for every image, however little    *)
(* memory there is: who owns each frame, and what each space consists of.  *)
(* Then what MapProofs builds on: the pages of an area, and what a table   *)
(* that holds them says.  ProcessManagerProofs puts it into theorems.      *)
(***************************************************************************)
EXTENDS AddressSpace, TLAPS

NF(s) == spaces[s].node_frames
InitAreas == spaces["init"].areas

-----------------------------------------------------------------------------
(* The owners of a frame *)

Stacks(f) == { p \in DOMAIN kernel_stacks : kernel_stacks[p] = f }
Tracking(f) == { k \in DOMAIN InitAreas : f \in InitAreas[k].owned }

OneOwner(f) ==
  \/ /\ f \in free
     /\ Stacks(f) = {} /\ Positions(f) = {} /\ Tracking(f) = {}
  \/ /\ f \notin free
     /\ \/ (\E x : Stacks(f) = {x}) /\ Positions(f) = {} /\ Tracking(f) = {}
        \/ Stacks(f) = {} /\ (\E x : Positions(f) = {x}) /\ Tracking(f) = {}
        \/ Stacks(f) = {} /\ Positions(f) = {} /\ (\E x : Tracking(f) = {x})

Owned == \A f \in Heap(image) : OneOwner(f)

(* Membership in Positions. *)
LEMMA PositionsOf ==
  ASSUME NEW g, NEW x
  PROVE  x \in Positions(g) <=>
           \E t \in SpaceNames : \E k \in DOMAIN NF(t) : x = << t, k >> /\ NF(t)[k] = g
BY DEF Positions, NF

-----------------------------------------------------------------------------
(* The stages of the path *)

BeforeStacks == {"make_kernel", "map_kernel", "verify", "PCB_allocate"}
BeforeAreas == BeforeStacks \cup {"user_stack"}
BeforeInit == BeforeAreas \cup {"text", "make_init"}

\* while another_space exists
Second == {"map_another", "load_another", "lock_table", "load_self"}

\* from lock_space on
Late == Second \cup {"lock_space", "usertrapret", "userret", "user"}

\* with a trap context, and with the page table of the init process
WithContext == Late \cup {"map_trapframe", "first_execution_init"}
WithInit == WithContext \cup {"map_init", "init_trapframe"}

Steps == BeforeInit \cup WithInit \cup Stopped

(* What there is at which step: a table or an area that is set up is not   *)
(* there before, so that no frame is lost, and the space that is loaded    *)
(* has its table.                                                          *)
Stage ==
  /\ step \in Steps
  /\ step \in BeforeStacks => kernel_stacks = << >>
  /\ step \in BeforeAreas => InitAreas = << >>
  /\ step = "make_kernel" <=> (NF("kernel") = << >> /\ step \notin Stopped)
  /\ step \in BeforeInit => NF("init") = << >>
  /\ step \in WithInit => NF("init") # << >>
  /\ step \in Second => NF("another") # << >>
  /\ step \notin Second \cup Stopped => NF("another") = << >>
  /\ loaded = "another" => step \in {"lock_table", "load_self"} \cup Stopped
  /\ loaded # "bare" => NF(loaded) # << >>
  /\ step \in WithContext => pcb.trap_context # 0

Shape ==
  /\ image \in Images
  /\ free \subseteq Heap(image)
  /\ DOMAIN spaces = SpaceNames
  /\ \A s \in SpaceNames : /\ DOMAIN spaces[s] = {"areas", "nodes", "node_frames", "entries"}
                           /\ NF(s) \in Seq(Heap(image))
                           /\ Range(spaces[s].nodes) = Range(NF(s))
  /\ \E S : InitAreas \in Seq(S)
  /\ loaded \in SpaceNames \cup {"bare"}
  /\ locked \in BOOLEAN /\ op \in {"lock", "unlock"}
  /\ DOMAIN pcb = DOMAIN NoPcb

SpaceInv == Shape /\ Stage /\ Owned

\* A step that takes and returns no frame and changes no node and no area.
SameTables ==
  /\ UNCHANGED << image, free, kernel_stacks >>
  /\ DOMAIN spaces' = SpaceNames
  /\ \A s \in SpaceNames : /\ DOMAIN spaces'[s] = DOMAIN spaces[s]
                           /\ NF(s)' = NF(s)
                           /\ spaces'[s].nodes = spaces[s].nodes
                           /\ spaces'[s].areas = spaces[s].areas

-----------------------------------------------------------------------------

QuietAction ==
  verify \/ first_execution_init \/ Again \/ load_another \/ usertrapret
  \/ userret_on_trampoline \/ ecall \/ page_fault \/ OutOfFrames

-----------------------------------------------------------------------------

\* A step that changes, of the spaces, the areas of the init process alone.
OnlyAreas ==
  /\ DOMAIN spaces' = SpaceNames
  /\ \A s \in SpaceNames : /\ DOMAIN spaces'[s] = DOMAIN spaces[s]
                           /\ NF(s)' = NF(s)
                           /\ spaces'[s].nodes = spaces[s].nodes

(* The frames of the heap lie above address 0. *)
LEMMA HeapAboveZero ==
  ASSUME NEW i \in Images, NEW f \in Heap(i)
  PROVE  f \in Nat /\ get_base_addr(f) > 0
<1>1. \A x \in Nat : PG_ROUND_UP(x) \in Nat /\ PG_ROUND_UP(x) >= x
  <2>1. 2^12 = 4096
    OBVIOUS
  <2>2. \A x \in Nat : PG_ROUND_UP(x) = ((x + 4095) \div 4096) * 4096
    BY <2>1, SMTT(20) DEF PG_ROUND_UP, ALIGN_UP, PAGE_ORDER
  <2> QED  BY <2>2
<1>2. /\ KERNEL_BASE \in Nat /\ BOOT_STACKS \in Nat /\ KERNEL_BASE >= PAGE_SIZE
      /\ i.init \in Nat /\ i.trampoline \in Nat /\ i.text \in Nat /\ i.rodata \in Nat
      /\ i.data \in Nat /\ i.bss \in Nat /\ i.ram \in Nat
  <2>1. /\ KERNEL_BASE \in Nat /\ BOOT_STACKS \in Nat /\ UART_BASE \in Nat /\ VIRTIO_BASE \in Nat
        /\ VIRTIO_BASE + PAGE_SIZE <= KERNEL_BASE
    BY LayoutAssumption, Zenon
  <2>2. /\ i.init \in Nat /\ i.trampoline \in Nat /\ i.text \in Nat /\ i.rodata \in Nat
        /\ i.data \in Nat /\ i.bss \in Nat /\ i.ram \in Nat
    BY LayoutAssumption, Zenon
  <2>3. KERNEL_BASE >= PAGE_SIZE
    BY <2>1 DEF PAGE_SIZE
  <2> QED  BY <2>1, <2>2, <2>3, Zenon
<1>3. trampoline_start(i) \in Nat /\ trampoline_start(i) >= PAGE_SIZE
  BY <1>1, <1>2, SMTT(20) DEF trampoline_start, PAGE_SIZE
<1>4. trampoline_end(i) \in Nat /\ trampoline_end(i) >= PAGE_SIZE
  BY <1>1, <1>2, <1>3, SMTT(20) DEF trampoline_end, PAGE_SIZE
<1>5. text_end(i) \in Nat /\ text_end(i) >= PAGE_SIZE
  BY <1>1, <1>2, <1>4, SMTT(20) DEF text_end, PAGE_SIZE
<1>6. rodata_end(i) \in Nat /\ rodata_end(i) >= PAGE_SIZE
  BY <1>1, <1>2, <1>5, SMTT(20) DEF rodata_end, PAGE_SIZE
<1>7. data_end(i) \in Nat /\ data_end(i) >= PAGE_SIZE
  BY <1>1, <1>2, <1>6, SMTT(20) DEF data_end, PAGE_SIZE
<1>8. bss_end(i) \in Nat /\ bss_end(i) >= PAGE_SIZE
  BY <1>1, <1>2, <1>7, SMTT(20) DEF bss_end, PAGE_SIZE
<1>9. kernel_stack_end(i) \in Nat /\ kernel_stack_end(i) >= PAGE_SIZE /\ heap_end(i) \in Nat
  BY <1>2, <1>8, SMTT(20) DEF kernel_stack_end, heap_end, PAGE_SIZE
<1> QED
  BY <1>9 DEF Heap, get_number, get_base_addr, PAGE_SIZE

(* It holds initially: all frames are free. *)
LEMMA SpaceInvInit == InitSpaces => SpaceInv
<1> SUFFICES ASSUME InitSpaces PROVE SpaceInv
  OBVIOUS
<1>1. \A s \in SpaceNames : spaces[s] = NoSpace
  BY SMTT(20) DEF InitSpaces
<1>2. \A s \in SpaceNames : NF(s) = << >> /\ spaces[s].nodes = << >>
        /\ DOMAIN spaces[s] = {"areas", "nodes", "node_frames", "entries"}
  BY <1>1, SMTT(20) DEF NF, NoSpace
<1>3. InitAreas = << >> /\ SpaceNames = {"kernel", "init", "another"}
  BY <1>1, SMTT(20) DEF InitAreas, NoSpace, SpaceNames
<1>4. Shape
  <2>1. << >> \in Seq({}) /\ << >> \in Seq(Heap(image))
    OBVIOUS
  <2>2. \E S : InitAreas \in Seq(S)
    BY <1>3, <2>1, SMTT(20)
  <2> QED  BY <1>2, <2>1, <2>2, Zenon DEF Shape, InitSpaces
<1>5. Stage
  BY <1>2, <1>3, SMTT(20) DEF Stage, InitSpaces, Steps, Stopped, WithInit, WithContext, Late, Second,
                    BeforeInit, BeforeAreas, BeforeStacks
<1>6. Owned
  <2>1. \A g : Stacks(g) = {} /\ Tracking(g) = {}
    BY <1>3 DEF InitSpaces, Stacks, Tracking
  <2>2. \A g : Positions(g) = {}
    BY <1>2, PositionsOf, SMTT(20)
  <2> QED  BY <2>1, <2>2 DEF Owned, OneOwner, InitSpaces
<1> QED
  BY <1>4, <1>5, <1>6 DEF SpaceInv

-----------------------------------------------------------------------------
(* What the manager needs to know of the steps *)

(* From lock_space on the path stays there or stops.  A trap context is    *)
(* never taken away, its tp changes in usertrapret alone, to hart 0, and   *)
(* the one kernel stack that is allocated is that of the init process.     *)
LEMMA PathGoes ==
  ASSUME SpaceInv, SpaceStep
  PROVE  /\ step \in Late => step' \in Late \cup Stopped
         /\ pcb.trap_context # 0 => pcb'.trap_context # 0
         /\ pcb'.tp = pcb.tp \/ (step = "usertrapret" /\ pcb'.tp = Hart0)
         /\ step' = "userret" => pcb'.tp = Hart0
         /\ step' = "user" => step = "userret" /\ pcb'.tp = pcb.tp
         /\ \/ kernel_stacks' = kernel_stacks
            \/ step = "PCB_allocate" /\ DOMAIN kernel_stacks' = DOMAIN kernel_stacks \cup {InitPid}
<1> USE DEF Late, Second, Stopped
<1>0. DOMAIN pcb = DOMAIN NoPcb
  BY DEF SpaceInv, Shape
<1>1. CASE make_kernel \/ make_init \/ make_another
  <2>1. /\ UNCHANGED << pcb, kernel_stacks >>
        /\ \/ step = "make_kernel" /\ step' \in {"map_kernel", "assertion"}
           \/ step = "make_init" /\ step' \in {"map_init", "assertion"}
           \/ step = "lock_space" /\ step' \in {"map_another", "assertion"}
    BY <1>1, ZenonT(40) DEF make_kernel, make_init, make_another, AllocateRoot, Proceed
  <2> QED  BY <2>1, SMTT(20)
<1>2. CASE allocate_node \/ map_one_allocate
  <2>1. /\ UNCHANGED << pcb, kernel_stacks >>
        /\ step \in DOMAIN Mapping /\ step' \in {step, "assertion", Mapping[step].then}
    BY <1>2, Zenon DEF allocate_node, map_one_allocate, Proceed
  <2> QED  BY <2>1, SMTT(20) DEF Mapping
<1>3. CASE PCB_allocate
  <2>1. PICK f \in free : kernel_stacks' = Put(kernel_stacks, InitPid, f)
    BY <1>3 DEF PCB_allocate, AllocateStack
  <2>2. DOMAIN kernel_stacks' = DOMAIN kernel_stacks \cup {InitPid}
    BY <2>1 DEF Put
  <2> QED  BY <1>3, <2>2 DEF PCB_allocate, Proceed
<1>4. CASE make_init_stack \/ make_init_text
  <2>1. /\ UNCHANGED << pcb, kernel_stacks >>
        /\ step \in {"user_stack", "text"} /\ step' \in {"text", "make_init", "assertion"}
    BY <1>4 DEF make_init_stack, make_init_text, Proceed
  <2> QED  BY <2>1
<1>5. CASE init_trapframe
  <2>1. PICK f \in free : pcb' = [pcb EXCEPT !.trap_context = get_base_addr(f)]
    BY <1>5, SMTT(20) DEF init_trapframe
  <2>2. f \in Heap(image) /\ image \in Images
    BY DEF SpaceInv, Shape
  <2>3. pcb'.trap_context # 0 /\ pcb'.tp = pcb.tp
    BY <1>0, <2>1, <2>2, HeapAboveZero, SMTT(20) DEF NoPcb
  <2> QED  BY <1>5, <2>3 DEF init_trapframe, Proceed
<1>6. CASE lock_table \/ load_self
  BY <1>6 DEF lock_table, load_self, Proceed
<1>7. CASE first_execution_init
  BY <1>0, <1>7, SMTT(20) DEF first_execution_init, Proceed, NoPcb
<1>8. CASE usertrapret
  BY <1>0, <1>8, SMTT(20) DEF usertrapret, set_tp, Proceed, NoPcb
<1>9. CASE verify \/ Again \/ load_another \/ userret_on_trampoline \/ ecall \/ page_fault
           \/ OutOfFrames
  BY <1>9, ZenonT(40) DEF verify, Again, load_another, userret_on_trampoline, ecall, page_fault,
     OutOfFrames,
              Proceed
<1> QED
  BY <1>1, <1>2, <1>3, <1>4, <1>5, <1>6, <1>7, <1>8, <1>9, ZenonT(40) DEF SpaceStep

(* What SpaceInv says of the types. *)
LEMMA SpaceTypes == SpaceInv => SpacesTypeOK
<1> SUFFICES ASSUME SpaceInv PROVE SpacesTypeOK
  BY SMTT(20)
<1>1. loaded # "bare" => spaces[loaded].nodes # << >>
  <2> SUFFICES ASSUME loaded # "bare", spaces[loaded].nodes = << >> PROVE FALSE
    BY SMTT(20)
  <2>1. loaded \in SpaceNames /\ NF(loaded) # << >>
    BY Zenon DEF SpaceInv, Shape, Stage
  <2>2. NF(loaded) \in Seq(Heap(image)) /\ Range(NF(loaded)) = Range(<< >>)
    BY <2>1 DEF SpaceInv, Shape
  <2>3. DOMAIN NF(loaded) = {}
    <3>1. Range(<< >>) = {}
      BY DEF Range
    <3>2. \A k \in DOMAIN NF(loaded) : NF(loaded)[k] \in Range(NF(loaded))
      BY ZenonT(40) DEF Range
    <3> QED  BY <2>2, <3>1, <3>2, Zenon
  <2> QED  BY <2>1, <2>2, <2>3, SMTT(20)
<1>2. \A s \in SpaceNames : Range(spaces[s].nodes) = Range(spaces[s].node_frames)
  BY SMTT(20) DEF SpaceInv, Shape, NF
<1>3. step \in Stopped \cup DOMAIN Mapping \cup
            {"make_kernel", "verify", "PCB_allocate", "user_stack", "text", "make_init",
             "init_trapframe", "first_execution_init", "lock_space", "load_another",
             "lock_table", "load_self", "usertrapret", "userret", "user"}
  BY SMTT(20) DEF SpaceInv, Stage, Steps, Stopped, Mapping, WithInit, WithContext, Late, Second,
     BeforeInit,
         BeforeAreas, BeforeStacks
<1> QED
  BY <1>1, <1>2, <1>3, SMTT(20) DEF SpaceInv, Shape, SpacesTypeOK

(* Every step keeps the invariant.  The frames a step takes first, then   *)
(* the steps that take and return none, then one fact per kind of step.   *)
LEMMA SpaceInvKept ==
  SpaceInv /\ [SpaceNext]_spaceVars => SpaceInv'
(* Frame f is taken from the allocator by one owner, nothing else moves. *)
<1>Taken.
    ASSUME Owned, UNCHANGED image, NEW f \in free, free' = free \ {f},
           \A g \in Heap(image) \ {f} : /\ Stacks(g)' = Stacks(g)
                                        /\ Positions(g)' = Positions(g)
                                        /\ Tracking(g)' = Tracking(g),
           f \in Heap(image) =>
             \/ (\E x : Stacks(f)' = {x}) /\ Positions(f)' = {} /\ Tracking(f)' = {}
             \/ Stacks(f)' = {} /\ (\E x : Positions(f)' = {x}) /\ Tracking(f)' = {}
             \/ Stacks(f)' = {} /\ Positions(f)' = {} /\ (\E x : Tracking(f)' = {x})
    PROVE  Owned'
  <2> USE <1>Taken
  <2> SUFFICES ASSUME NEW g \in Heap(image) PROVE OneOwner(g)'
    BY DEF Owned
  <2>1. CASE g = f
    BY <2>1, Zenon DEF OneOwner
  <2>2. CASE g # f
    BY <2>2, Zenon DEF Owned, OneOwner
  <2> QED
    BY <2>1, <2>2
(* Nothing moves. *)
<1>NotMoved.
    ASSUME Owned, UNCHANGED << image, free, kernel_stacks >>,
           \A s \in SpaceNames : NF(s)' = NF(s), InitAreas' = InitAreas
    PROVE  Owned'
  <2> USE <1>NotMoved
  <2> SUFFICES ASSUME NEW g \in Heap(image) PROVE OneOwner(g)'
    BY DEF Owned
  <2>1. Stacks(g)' = Stacks(g) /\ Tracking(g)' = Tracking(g)
    BY DEF Stacks, Tracking
  <2>2. Positions(g)' = Positions(g)
    BY DEF Positions, NF
  <2> QED
    BY <2>1, <2>2, Zenon DEF Owned, OneOwner
(* A frame becomes the last node of table s. *)
<1>NodeTaken.
    ASSUME Owned, UNCHANGED << image, kernel_stacks >>, InitAreas' = InitAreas,
           NEW f \in free \cap Heap(image), free' = free \ {f},
           NEW s \in SpaceNames, NEW S, NF(s) \in Seq(S), NF(s)' = Append(NF(s), f),
           \A t \in SpaceNames \ {s} : NF(t)' = NF(t)
    PROVE  Owned'
  <2> USE <1>NodeTaken
  <2>1. \A g : Stacks(g)' = Stacks(g) /\ Tracking(g)' = Tracking(g)
    BY DEF Stacks, Tracking
  <2>2. Stacks(f) = {} /\ Positions(f) = {} /\ Tracking(f) = {}
    BY DEF Owned, OneOwner
  <2> DEFINE n == Len(NF(s)) + 1
  <2>3. /\ DOMAIN NF(s)' = DOMAIN NF(s) \cup {n} /\ n \notin DOMAIN NF(s)
        /\ \A k \in DOMAIN NF(s) : NF(s)'[k] = NF(s)[k]
        /\ NF(s)'[n] = f
    <3>1. DOMAIN Append(NF(s), f) = DOMAIN NF(s) \cup {n} /\ n \notin DOMAIN NF(s)
      OBVIOUS
    <3>2. \A k \in DOMAIN NF(s) : Append(NF(s), f)[k] = NF(s)[k]
      OBVIOUS
    <3>3. Append(NF(s), f)[n] = f
      OBVIOUS
    <3> QED  BY <3>1, <3>2, <3>3, Zenon
  <2> HIDE DEF n
  <2>4. \A g : \A x : x \in Positions(g)' <=>
                       \E t \in SpaceNames : \E k \in DOMAIN NF(t)' : x = << t, k >> /\ NF(t)'[k] = g
    BY DEF Positions, NF
  <2>5. ASSUME NEW g, NEW x
        PROVE  x \in Positions(g)' <=> x \in Positions(g) \/ (g = f /\ x = << s, n >>)
    <3>1. ASSUME x \in Positions(g)' PROVE x \in Positions(g) \/ (g = f /\ x = << s, n >>)
      <4>1. PICK t \in SpaceNames : \E k \in DOMAIN NF(t)' : x = << t, k >> /\ NF(t)'[k] = g
        BY <2>4, <3>1, Zenon
      <4>2. PICK k \in DOMAIN NF(t)' : x = << t, k >> /\ NF(t)'[k] = g
        BY <4>1, Zenon
      <4>3. (t = s /\ k = n /\ g = f) \/ (k \in DOMAIN NF(t) /\ NF(t)[k] = g)
        BY <2>3, <4>2, Zenon
      <4> QED  BY <4>2, <4>3, PositionsOf, Zenon
    <3>2. ASSUME x \in Positions(g) PROVE x \in Positions(g)'
      <4>1. PICK t \in SpaceNames : \E k \in DOMAIN NF(t) : x = << t, k >> /\ NF(t)[k] = g
        BY <3>2, PositionsOf, Zenon
      <4>2. PICK k \in DOMAIN NF(t) : x = << t, k >> /\ NF(t)[k] = g
        BY <4>1, Zenon
      <4>3. k \in DOMAIN NF(t)' /\ NF(t)'[k] = g
        BY <2>3, <4>2, Zenon
      <4> QED  BY <2>4, <4>2, <4>3, Zenon
    <3>3. << s, n >> \in Positions(f)'
      BY <2>3, <2>4, Zenon
    <3> QED  BY <3>1, <3>2, <3>3, Zenon
  <2>8. ASSUME NEW g \in Heap(image) \ {f} PROVE Positions(g)' = Positions(g)
    <3>1. \A x : x \in Positions(g)' <=> x \in Positions(g)
      BY <2>5, <2>8, Zenon
    <3> QED  BY <3>1, Zenon
  <2>9. Positions(f)' = { << s, n >> }
    BY <2>2, <2>5
  <2> QED
    BY <2>1, <2>2, <2>8, <2>9, <1>Taken, Zenon
(* A frame becomes a kernel stack, of a process that had none. *)
<1>StackTaken.
    ASSUME Owned, UNCHANGED << image, spaces >>,
           NEW f \in free \cap Heap(image), NEW p, p \notin DOMAIN kernel_stacks,
           AllocateStack(p, f)
    PROVE  Owned'
  <2> USE <1>StackTaken
  <2>1. free' = free \ {f}
    BY DEF AllocateStack, allocate
  <2>2. kernel_stacks' = Put(kernel_stacks, p, f)
    BY DEF AllocateStack
  <2>3. /\ DOMAIN kernel_stacks' = {p} \cup DOMAIN kernel_stacks
        /\ kernel_stacks'[p] = f
        /\ \A q \in DOMAIN kernel_stacks : kernel_stacks'[q] = kernel_stacks[q]
    BY <2>2 DEF Put
  <2>4. \A g : Positions(g)' = Positions(g) /\ Tracking(g)' = Tracking(g)
    BY DEF Positions, Tracking, InitAreas
  <2>5. Stacks(f) = {} /\ Positions(f) = {} /\ Tracking(f) = {}
    BY DEF Owned, OneOwner
  <2>6. Stacks(f)' = {p} /\ \A g : g # f => Stacks(g)' = Stacks(g)
    BY <2>3, <2>5 DEF Stacks
  <2> QED
    BY <2>1, <2>4, <2>5, <2>6, <1>Taken, Zenon
(* A frame becomes the page of a new area of the init process; another new *)
(* area may come with it that owns none.                                   *)
<1>AreaTaken.
    ASSUME Owned, UNCHANGED << image, kernel_stacks >>, \A s \in SpaceNames : NF(s)' = NF(s),
           NEW f \in free \cap Heap(image), free' = free \ {f},
           NEW n \in DOMAIN InitAreas', n \notin DOMAIN InitAreas, InitAreas'[n].owned = {f},
           DOMAIN InitAreas \subseteq DOMAIN InitAreas',
           \A k \in DOMAIN InitAreas : InitAreas'[k].owned = InitAreas[k].owned,
           \A k \in DOMAIN InitAreas' \ {n} : k \notin DOMAIN InitAreas => InitAreas'[k].owned = {}
    PROVE  Owned'
  <2> USE <1>AreaTaken
  <2>1. \A g : Stacks(g)' = Stacks(g) /\ Positions(g)' = Positions(g)
    BY DEF Stacks, Positions, NF
  <2>2. Stacks(f) = {} /\ Positions(f) = {} /\ Tracking(f) = {}
    BY DEF Owned, OneOwner
  <2>3. Tracking(f)' = {n} /\ \A g : g # f => Tracking(g)' = Tracking(g)
    BY <2>2 DEF Tracking
  <2> QED
    BY <2>1, <2>2, <2>3, <1>Taken, Zenon
(* The frames of the second space are given back. *)
<1>NodesReturned.
    ASSUME Owned, UNCHANGED << image, kernel_stacks >>, InitAreas' = InitAreas,
           free' = free \cup Range(NF("another")),
           NF("another")' = << >>,
           \A s \in SpaceNames \ {"another"} : NF(s)' = NF(s)
    PROVE  Owned'
  <2> USE <1>NodesReturned
  <2> SUFFICES ASSUME NEW g \in Heap(image) PROVE OneOwner(g)'
    BY DEF Owned
  <2>1. Stacks(g)' = Stacks(g) /\ Tracking(g)' = Tracking(g)
    BY DEF Stacks, Tracking
  <2>2. \A x : x \in Positions(g)' <=>
                 \E t \in SpaceNames : \E k \in DOMAIN NF(t)' : x = << t, k >> /\ NF(t)'[k] = g
    BY DEF Positions, NF
  <2>3. DOMAIN NF("another")' = {}
    OBVIOUS
  <2>4. Positions(g)' \subseteq Positions(g)
    <3> SUFFICES ASSUME NEW x \in Positions(g)' PROVE x \in Positions(g)
      OBVIOUS
    <3>1. PICK t \in SpaceNames : \E k \in DOMAIN NF(t)' : x = << t, k >> /\ NF(t)'[k] = g
      BY <2>2, Zenon
    <3>2. t # "another"
      BY <2>3, <3>1
    <3> QED  BY <3>1, <3>2, PositionsOf, Zenon
  <2>5. CASE g \notin Range(NF("another"))
    <3>1. ASSUME NEW x \in Positions(g) PROVE x \in Positions(g)'
      <4>1. PICK t \in SpaceNames : \E k \in DOMAIN NF(t) : x = << t, k >> /\ NF(t)[k] = g
        BY PositionsOf, Zenon
      <4>2. t # "another"
        BY <2>5, <4>1, Zenon DEF Range
      <4> QED  BY <2>2, <4>1, <4>2, Zenon
    <3> QED  BY <2>1, <2>4, <2>5, <3>1, Zenon DEF Owned, OneOwner
  <2>6. CASE g \in Range(NF("another"))
    <3>1. PICK k \in DOMAIN NF("another") : NF("another")[k] = g
      BY <2>6, Zenon DEF Range
    <3>2. "another" \in SpaceNames
      BY DEF SpaceNames
    <3>3. << "another", k >> \in Positions(g)
      BY <3>1, <3>2, PositionsOf, Zenon
    <3>4. Positions(g) = { << "another", k >> } /\ Stacks(g) = {} /\ Tracking(g) = {}
      BY <3>3, Zenon DEF Owned, OneOwner
    <3>5. << "another", k >> \notin Positions(g)'
      <4> SUFFICES ASSUME << "another", k >> \in Positions(g)' PROVE FALSE
        OBVIOUS
      <4>1. PICK t \in SpaceNames : \E j \in DOMAIN NF(t)' : << "another", k >> = << t, j >>
        BY <2>2, Zenon
      <4> QED  BY <2>3, <4>1
    <3>6. Positions(g)' = {}
      BY <2>4, <3>4, <3>5
    <3> QED  BY <2>1, <2>6, <3>4, <3>6, Zenon DEF OneOwner
  <2> QED
    BY <2>5, <2>6
(* Such a step keeps the invariant, if it goes on to a step that comes     *)
(* after it.                                                               *)
<1>SameTablesStep.
    ASSUME SpaceInv, SameTables,
           loaded' \in SpaceNames \cup {"bare"}, locked' \in BOOLEAN, op' \in {"lock", "unlock"},
           DOMAIN pcb' = DOMAIN NoPcb, Stage'
    PROVE  SpaceInv'
  <2> USE <1>SameTablesStep
  <2>1. \A s \in SpaceNames : NF(s)' = NF(s)
    BY DEF SameTables
  <2>2. InitAreas' = InitAreas
    BY DEF SameTables, InitAreas, SpaceNames
  <2>3. Owned'
    BY <2>1, <2>2, <1>NotMoved, SMTT(30) DEF SameTables, SpaceInv
  <2>4. Shape'
    <3>1. \A s \in SpaceNames : /\ DOMAIN spaces'[s] = {"areas", "nodes", "node_frames", "entries"}
                                /\ NF(s)' \in Seq(Heap(image'))
                                /\ Range(spaces'[s].nodes) = Range(NF(s)')
      BY <2>1, SMTT(30) DEF SameTables, SpaceInv, Shape
    <3>2. image' \in Images /\ free' \subseteq Heap(image') /\ \E S : InitAreas' \in Seq(S)
      BY <2>2 DEF SameTables, SpaceInv, Shape
    <3> QED  BY <3>1, <3>2, SMTT(30) DEF SameTables, Shape
  <2> QED
    BY <2>3, <2>4 DEF SpaceInv
(* Where nothing is taken, the stage changes with the step alone.          *)
<1>SameStage.
    ASSUME SpaceInv, SameTables, step' \in Steps,
           step' \in Stopped \/
             /\ step \notin Stopped
             /\ step' \in BeforeStacks => step \in BeforeStacks
             /\ step' \in BeforeAreas => step \in BeforeAreas
             /\ step' = "make_kernel" <=> step = "make_kernel"
             /\ step' \in BeforeInit => step \in BeforeInit
             /\ step' \in WithInit => step \in WithInit
             /\ step' \in Second <=> step \in Second,
           \/ loaded' = loaded
           \/ loaded' = "kernel" /\ step # "make_kernel" /\ step \notin Stopped
           \/ loaded' = "init" /\ step \in WithInit
           \/ loaded' = "another" /\ step \in Second,
           loaded' = "another" => step' \in {"lock_table", "load_self"} \cup Stopped,
           step' \in WithContext => pcb'.trap_context # 0
    PROVE  Stage'
  <2> USE <1>SameStage
  <2>1. \A s \in SpaceNames : NF(s)' = NF(s)
    BY DEF SameTables
  <2>2. InitAreas' = InitAreas /\ kernel_stacks' = kernel_stacks
    BY DEF SameTables, InitAreas, SpaceNames
  <2>3. {"kernel", "init", "another"} = SpaceNames
    BY DEF SpaceNames
  <2>4. NF("kernel")' = NF("kernel") /\ NF("init")' = NF("init") /\ NF("another")' = NF("another")
    BY <2>1, <2>3
  <2>5. loaded' # "bare" => NF(loaded)' # << >>
    <3>1. loaded \in SpaceNames \cup {"bare"} /\ (loaded # "bare" => NF(loaded) # << >>)
      BY DEF SpaceInv, Stage, Shape
    <3>2. loaded' # "bare" => NF(loaded') # << >>
      BY <3>1 DEF SpaceInv, Stage
    <3>3. loaded' \in SpaceNames \cup {"bare"}
      BY <2>3, <3>1
    <3>4. NF(loaded)' = spaces'[loaded'].node_frames
      BY DEF NF
    <3> QED  BY <2>1, <3>2, <3>3, <3>4, SMTT(30) DEF NF
  <2>6. Stopped \cap (WithInit \cup BeforeInit) = {}
    BY DEF Stopped, WithInit, WithContext, Late, Second, BeforeInit, BeforeAreas, BeforeStacks
  <2>7. /\ BeforeStacks \subseteq BeforeInit /\ BeforeAreas \subseteq BeforeInit
        /\ Second \subseteq WithInit
    BY DEF WithInit, WithContext, Late, Second, BeforeInit, BeforeAreas, BeforeStacks
  <2>8. "make_kernel" \in BeforeInit
    BY DEF BeforeInit, BeforeAreas, BeforeStacks
  <2>9. step' \in Stopped => Stage'
    BY <2>5, <2>6, <2>7, <2>8, SMTT(20) DEF Stage
  <2>10. step' \notin Stopped => Stage'
    <3> HAVE step' \notin Stopped
    <3>1. Stage
      BY DEF SpaceInv
    <3>2. /\ step' \in BeforeStacks => kernel_stacks' = << >>
          /\ step' \in BeforeAreas => InitAreas' = << >>
      BY <2>2, <3>1 DEF Stage
    <3>3. step' = "make_kernel" <=> NF("kernel")' = << >>
      BY <2>4, <3>1 DEF Stage
    <3>4. (step' \in BeforeInit => NF("init")' = << >>) /\ (step' \in WithInit => NF("init")' # << >>)
      BY <2>4, <3>1 DEF Stage
    <3>5. /\ step' \in Second => NF("another")' # << >>
          /\ step' \notin Second => NF("another")' = << >>
      BY <2>4, <3>1, SMTT(20) DEF Stage
    <3> QED  BY <2>5, <3>2, <3>3, <3>4, <3>5 DEF Stage
  <2> QED
    BY <2>9, <2>10, SMTT(30)
(* The steps that take and return no frame *)

(* map_one_allocate writes one entry and goes on to the next page, or to   *)
(* what follows the loop.                                                  *)
<1>MapStep. SpaceInv /\ map_one_allocate => SpaceInv'
  <2> SUFFICES ASSUME SpaceInv, map_one_allocate PROVE SpaceInv'
    BY SMTT(30)
  <2>1. /\ step \in DOMAIN Mapping
        /\ UNCHANGED << image, free, loaded, locked, op, kernel_stacks, pcb >>
    BY SMTT(20) DEF map_one_allocate
  <2>2. PICK e : spaces' = [spaces EXCEPT ![Mapping[step].space].entries = e]
    BY Zenon DEF map_one_allocate
  <2>3. step' \in {"assertion", step, Mapping[step].then}
    BY SMTT(30) DEF map_one_allocate, Proceed
  <2>4. << step, Mapping[step].space, Mapping[step].then >> \in
          { << "map_kernel", "kernel", "verify" >>, << "map_init", "init", "init_trapframe" >>,
            << "map_trapframe", "init", "first_execution_init" >>,
            << "map_another", "another", "load_another" >> }
    BY <2>1 DEF Mapping
  <2>5. Mapping[step].space \in SpaceNames
    BY <2>4 DEF SpaceNames
  <2>6. SameTables
    BY <2>1, <2>2, <2>5, SMTT(20) DEF SameTables, SpaceInv, Shape, NF
  <2>7. Stage'
    <3>1. step' \in Stopped \/
            /\ step \notin Stopped
            /\ step' \in BeforeStacks => step \in BeforeStacks
            /\ step' \in BeforeAreas => step \in BeforeAreas
            /\ step' = "make_kernel" <=> step = "make_kernel"
            /\ step' \in BeforeInit => step \in BeforeInit
            /\ step' \in WithInit => step \in WithInit
            /\ step' \in Second <=> step \in Second
      BY <2>3, <2>4 DEF Stopped, WithInit, WithContext, Late, Second, BeforeInit, BeforeAreas,
                        BeforeStacks
    <3>2. step' \in Steps /\ (step' \in WithContext => step \in WithContext)
      BY <2>3, <2>4 DEF Stopped, Steps, WithInit, WithContext, Late, Second, BeforeInit, BeforeAreas,
                        BeforeStacks
    <3>3. loaded # "another"
      BY <2>4 DEF SpaceInv, Stage, Stopped
    <3>4. step' \in WithContext => pcb'.trap_context # 0
      BY <2>1, <3>2, SMTT(20) DEF SpaceInv, Stage
    <3> QED  BY <2>1, <2>6, <3>1, <3>2, <3>3, <3>4, <1>SameStage, SMTT(20)
  <2> QED
    BY <2>1, <2>6, <2>7, <1>SameTablesStep DEF SpaceInv, Shape
(* lock_table writes one entry of the kernel's table. *)
<1>LockTableStep. SpaceInv /\ lock_table => SpaceInv'
  <2> SUFFICES ASSUME SpaceInv, lock_table PROVE SpaceInv'
    OBVIOUS
  <2>1. step = "lock_table" /\ UNCHANGED << image, free, loaded, locked, op, kernel_stacks, pcb >>
    BY DEF lock_table
  <2>2. PICK e : spaces' = [spaces EXCEPT !["kernel"].entries = e]
    BY Zenon DEF lock_table
  <2>3. step' \in {"assertion", "lock_table", "load_self"}
    BY DEF lock_table, Proceed
  <2>4. SameTables
    BY <2>1, <2>2 DEF SameTables, SpaceInv, Shape, NF, SpaceNames
  <2>5. Stage'
    <3>1. step' \in Stopped \/
            /\ step \notin Stopped
            /\ step' \in BeforeStacks => step \in BeforeStacks
            /\ step' \in BeforeAreas => step \in BeforeAreas
            /\ step' = "make_kernel" <=> step = "make_kernel"
            /\ step' \in BeforeInit => step \in BeforeInit
            /\ step' \in WithInit => step \in WithInit
            /\ step' \in Second <=> step \in Second
      BY <2>1, <2>3 DEF Stopped, WithInit, WithContext, Late, Second, BeforeInit, BeforeAreas,
                        BeforeStacks
    <3>2. step' \in Steps /\ step \in WithContext
          /\ step' \in {"lock_table", "load_self"} \cup Stopped
      BY <2>1, <2>3 DEF Stopped, Steps, WithInit, WithContext, Late, Second, BeforeInit, BeforeAreas,
                        BeforeStacks
    <3>3. pcb'.trap_context # 0
      BY <2>1, <3>2, SMTT(20) DEF SpaceInv, Stage
    <3> QED  BY <2>1, <2>4, <3>1, <3>2, <3>3, <1>SameStage, SMTT(20)
  <2> QED
    BY <2>1, <2>4, <2>5, <1>SameTablesStep DEF SpaceInv, Shape
(* The steps that write no table: from where they go where, and with which *)
(* space loaded.                                                           *)
<1>QuietGoes.
    ASSUME SpaceInv, QuietAction
    PROVE  /\ UNCHANGED << image, free, spaces, kernel_stacks >>
           /\ locked' \in BOOLEAN /\ op' \in {"lock", "unlock"} /\ DOMAIN pcb' = DOMAIN NoPcb
           /\ pcb'.trap_context = pcb.trap_context
           /\ \/ step' \in Stopped /\ loaded' = loaded
              \/ step = "verify" /\ step' \in {"PCB_allocate"} \cup Stopped /\ loaded' = "kernel"
              \/ step = "first_execution_init" /\ step' = "lock_space" /\ loaded' = loaded
              \/ step = "usertrapret" /\ step' \in {"lock_space", "userret"} /\ loaded' = loaded
              \/ step = "load_another" /\ step' = "lock_table" /\ loaded' = "another"
              \/ step = "userret" /\ step' \in {"user"} \cup Stopped /\ loaded' = "init"
              \/ step = "user" /\ step' \in {"usertrapret"} \cup Stopped /\ loaded' = "kernel"
  <2> USE <1>QuietGoes
  <2> USE DEF SpaceInv, Shape
  <2>1. CASE verify
    BY <2>1 DEF verify, Proceed, Stopped
  <2>2. CASE first_execution_init
    BY <2>2, SMTT(20) DEF first_execution_init, Proceed, Stopped, NoPcb
  <2>3. CASE Again
    BY <2>3 DEF Again
  <2>4. CASE load_another
    BY <2>4 DEF load_another
  <2>5. CASE usertrapret
    BY <2>5, SMTT(20) DEF usertrapret, set_tp, Proceed, Stopped, NoPcb
  <2>6. CASE userret_on_trampoline
    BY <2>6, SMTT(20) DEF userret_on_trampoline, Proceed, Stopped
  <2>7. CASE ecall
    BY <2>7, SMTT(20) DEF ecall, Proceed, Stopped
  <2>8. CASE page_fault
    BY <2>8, SMTT(20) DEF page_fault, Stopped
  <2>9. CASE OutOfFrames
    BY <2>9 DEF OutOfFrames, Stopped
  <2> QED
    BY <2>1, <2>2, <2>3, <2>4, <2>5, <2>6, <2>7, <2>8, <2>9, ZenonT(40) DEF QuietAction
(* They keep the invariant. *)
<1>QuietSpaceStep. SpaceInv /\ QuietAction => SpaceInv'
  <2> SUFFICES ASSUME SpaceInv, QuietAction PROVE SpaceInv'
    BY SMTT(30)
  <2>1. SameTables
    BY <1>QuietGoes, SMTT(30) DEF SameTables, SpaceInv, Shape, NF
  <2>2. step \in Steps /\ loaded \in SpaceNames \cup {"bare"}
    BY DEF SpaceInv, Stage, Shape
  <2>3. step' \in Stopped \/
          /\ step \notin Stopped
          /\ step' \in BeforeStacks => step \in BeforeStacks
          /\ step' \in BeforeAreas => step \in BeforeAreas
          /\ step' = "make_kernel" <=> step = "make_kernel"
          /\ step' \in BeforeInit => step \in BeforeInit
          /\ step' \in WithInit => step \in WithInit
          /\ step' \in Second <=> step \in Second
    BY <1>QuietGoes DEF Stopped, WithInit, WithContext, Late, Second, BeforeInit, BeforeAreas,
                     BeforeStacks
  <2>4. /\ step' \in Steps
        /\ step' \in WithContext => step \in WithContext
        /\ \/ loaded' = loaded
           \/ loaded' = "kernel" /\ step # "make_kernel" /\ step \notin Stopped
           \/ loaded' = "init" /\ step \in WithInit
           \/ loaded' = "another" /\ step \in Second
    BY <1>QuietGoes DEF Stopped, Steps, WithInit, WithContext, Late, Second, BeforeInit, BeforeAreas,
                     BeforeStacks
  <2>5. loaded' = "another" => step' \in {"lock_table", "load_self"} \cup Stopped
    <3>1. loaded = "another" => step \in {"lock_table", "load_self"} \cup Stopped
      BY SMTT(30) DEF SpaceInv, Stage
    <3> QED  BY <3>1, <1>QuietGoes DEF Stopped
  <2>6. step' \in WithContext => pcb'.trap_context # 0
    BY <2>4, <1>QuietGoes DEF SpaceInv, Stage
  <2>7. Stage'
    BY <2>1, <2>3, <2>4, <2>5, <2>6, <1>SameStage, SMTT(20)
  <2>8. loaded' \in SpaceNames \cup {"bare"}
    BY <2>2, <2>4, SMTT(20) DEF SpaceNames
  <2> QED
    BY <2>1, <2>7, <2>8, <1>QuietGoes, <1>SameTablesStep
(* The steps that take a frame, and the one that returns some *)

(* A step that makes a frame the last node of a table. *)
<1>NodeStep.
    ASSUME SpaceInv, NEW f \in free, free' = free \ {f}, NEW s \in SpaceNames,
           UNCHANGED << image, kernel_stacks, loaded, locked, op, pcb >>,
           DOMAIN spaces' = SpaceNames,
           \A t \in SpaceNames \ {s} : spaces'[t] = spaces[t],
           NF(s)' = Append(NF(s), f),
           Range(spaces'[s].nodes) = Range(spaces[s].nodes) \cup {f},
           DOMAIN spaces'[s] = {"areas", "nodes", "node_frames", "entries"},
           InitAreas' = InitAreas, Stage'
    PROVE  SpaceInv'
  <2> USE <1>NodeStep
  <2>1. f \in free \cap Heap(image) /\ NF(s) \in Seq(Heap(image))
    BY SMTT(20) DEF SpaceInv, Shape
  <2>2. \A t \in SpaceNames \ {s} : NF(t)' = NF(t)
    BY SMTT(20) DEF NF
  <2>3. Owned'
    BY <2>1, <2>2, <1>NodeTaken, SMTT(20) DEF SpaceInv
  <2>4. NF(s)' \in Seq(Heap(image)) /\ Range(NF(s)') = Range(NF(s)) \cup {f}
    <3>1. NF(s)' \in Seq(Heap(image))
      BY <2>1, SMTT(30)
    <3>2. DOMAIN Append(NF(s), f) = DOMAIN NF(s) \cup {Len(NF(s)) + 1}
      BY <2>1, SMTT(30)
    <3>3. \A k \in DOMAIN NF(s) : Append(NF(s), f)[k] = NF(s)[k]
      BY <2>1, SMTT(20)
    <3>4. Append(NF(s), f)[Len(NF(s)) + 1] = f
      BY <2>1, SMTT(20)
    <3> QED  BY <3>1, <3>2, <3>3, <3>4, SMTT(20) DEF Range
  <2>5. Shape'
    <3>1. ASSUME NEW t \in SpaceNames
          PROVE  /\ DOMAIN spaces'[t] = {"areas", "nodes", "node_frames", "entries"}
                 /\ NF(t)' \in Seq(Heap(image'))
                 /\ Range(spaces'[t].nodes) = Range(NF(t)')
      <4>1. CASE t = s
        BY <2>4, <4>1, ZenonT(40) DEF SpaceInv, Shape
      <4>2. CASE t # s
        <5>1. spaces'[t] = spaces[t] /\ NF(t)' = NF(t) /\ image' = image
          BY <2>2, <4>2, Zenon
        <5>2. /\ DOMAIN spaces[t] = {"areas", "nodes", "node_frames", "entries"}
              /\ NF(t) \in Seq(Heap(image)) /\ Range(spaces[t].nodes) = Range(NF(t))
          BY Zenon DEF SpaceInv, Shape
        <5> QED  BY <5>1, <5>2, Zenon
      <4> QED  BY <4>1, <4>2, Zenon
    <3>2. image' \in Images /\ free' \subseteq Heap(image') /\ \E S : InitAreas' \in Seq(S)
      BY DEF SpaceInv, Shape
    <3> QED  BY <3>1, <3>2, SMTT(20) DEF SpaceInv, Shape
  <2> QED
    BY <2>3, <2>5, SMTT(20) DEF SpaceInv
(* PageTableGuard::allocate, for a space that has no table yet. *)
<1>RootStep.
    ASSUME SpaceInv, NEW name \in SpaceNames, NF(name) = << >>,
           NEW areas, name = "init" => areas = InitAreas,
           NEW from, NEW to, AllocateRoot(name, areas, from, to),
           UNCHANGED << image, loaded, locked, op, kernel_stacks, pcb >>,
           Len(NF(name)') = 1 => Stage'
    PROVE  SpaceInv'
  <2> USE <1>RootStep
  <2>1. PICK f \in free :
          /\ free' = free \ {f}
          /\ spaces' = [spaces EXCEPT ![name] = [NoSpace EXCEPT !.areas = areas,
                                                   !.nodes = Put(@, << >>, f), !.node_frames = << f >>]]
    BY Zenon DEF AllocateRoot, allocate
  <2> DEFINE new == [NoSpace EXCEPT !.areas = areas, !.nodes = Put(@, << >>, f),
                                    !.node_frames = << f >>]
  <2>2. /\ new.areas = areas /\ new.nodes = Put(<< >>, << >>, f) /\ new.node_frames = << f >>
        /\ DOMAIN new = {"areas", "nodes", "node_frames", "entries"}
    BY DEF NoSpace
  <2>3. spaces'[name] = new /\ DOMAIN spaces' = SpaceNames
        /\ \A t \in SpaceNames \ {name} : spaces'[t] = spaces[t]
    BY <2>1 DEF SpaceInv, Shape
  <2> HIDE DEF new
  <2>4. NF(name)' = Append(NF(name), f) /\ Len(NF(name)') = 1
    <3>1. NF(name)' = << f >>
      BY <2>2, <2>3 DEF NF
    <3>2. Append(<< >>, f) = << f >> /\ Len(<< f >>) = 1
      BY SMTT(20)
    <3> QED  BY <3>1, <3>2, ZenonT(40)
  <2>5. Range(spaces'[name].nodes) = Range(spaces[name].nodes) \cup {f}
    <3>1. Range(spaces[name].nodes) = {}
      <4>1. Range(spaces[name].nodes) = Range(<< >>)
        BY Zenon DEF SpaceInv, Shape
      <4>2. Range(<< >>) = {}
        BY DEF Range
      <4> QED  BY <4>1, <4>2
    <3>2. Range(Put(<< >>, << >>, f)) = {f}
      BY SMTT(30) DEF Range, Put
    <3> QED  BY <2>2, <2>3, <3>1, <3>2, SMTT(20)
  <2>6. InitAreas' = InitAreas
    BY <2>2, <2>3 DEF InitAreas, SpaceNames
  <2> QED
    BY <2>1, <2>2, <2>3, <2>4, <2>5, <2>6, <1>NodeStep, Zenon
(* The roots of the three tables. *)
<1>RootSteps.
    SpaceInv /\ (make_kernel \/ make_init \/ make_another) => SpaceInv'
  <2> SUFFICES ASSUME SpaceInv, make_kernel \/ make_init \/ make_another PROVE SpaceInv'
    OBVIOUS
  <2>1. Stage /\ SpaceNames = {"kernel", "init", "another"}
    BY DEF SpaceInv, SpaceNames
  <2>2. ASSUME NEW name \in SpaceNames, NEW areas, NEW from, NEW to,
               AllocateRoot(name, areas, from, to),
               << name, from, to >> \in { << "kernel", "make_kernel", "map_kernel" >>,
                                          << "init", "make_init", "map_init" >>,
                                          << "another", "lock_space", "map_another" >> },
               UNCHANGED << image, loaded, locked, op, kernel_stacks, pcb >>,
               name = "init" => areas = InitAreas
        PROVE  SpaceInv'
    <3>1. step = from /\ step' \in {to, "assertion"}
      BY <2>2, SMTT(20) DEF AllocateRoot, Proceed
    <3>2. NF(name) = << >>
      BY <2>1, <2>2, <3>1 DEF Stage, BeforeInit, Second, Stopped
    <3>3. \A t \in SpaceNames \ {name} : spaces'[t] = spaces[t]
      BY <2>2 DEF AllocateRoot, SpaceInv, Shape
    <3>4. name # "init" => InitAreas' = InitAreas
      BY <2>1, <3>3, SMTT(20) DEF InitAreas
    <3>5. \A t \in SpaceNames \ {name} : NF(t)' = NF(t)
      BY <3>3 DEF NF
    <3>6. Len(NF(name)') = 1 => NF(name)' # << >>
      BY SMTT(20)
    <3>7. Len(NF(name)') = 1 /\ loaded' # "bare" => NF(loaded)' # << >>
      <4>1. loaded # "bare" => NF(loaded) # << >> /\ loaded \in SpaceNames
        BY SMTT(20) DEF SpaceInv, Shape, Stage
      <4> QED  BY <2>2, <3>5, <3>6, <4>1, SMTT(20) DEF NF
    <3>8. CASE name = "kernel"
      BY <2>1, <2>2, <3>1, <3>4, <3>5, <3>6, <3>7, <3>8, <1>RootStep, <3>2, SMTT(20)
         DEF Stage, Steps, Stopped, WithInit, WithContext, Late, Second, BeforeInit, BeforeAreas,
             BeforeStacks
    <3>9. CASE name = "init"
      BY <2>1, <2>2, <3>1, <3>4, <3>5, <3>6, <3>7, <3>9, <1>RootStep, <3>2, SMTT(20)
         DEF Stage, Steps, Stopped, WithInit, WithContext, Late, Second, BeforeInit, BeforeAreas,
             BeforeStacks
    <3>10. CASE name = "another"
      BY <2>1, <2>2, <3>1, <3>4, <3>5, <3>6, <3>7, <3>10, <1>RootStep, <3>2, SMTT(20)
         DEF Stage, Steps, Stopped, WithInit, WithContext, Late, Second, BeforeInit, BeforeAreas,
             BeforeStacks
    <3> QED  BY <2>1, <3>8, <3>9, <3>10
  <2>3. CASE make_kernel
    BY <2>1, <2>2, <2>3, SMTT(20) DEF make_kernel
  <2>4. CASE make_init
    BY <2>1, <2>2, <2>4, SMTT(20) DEF make_init, InitAreas
  <2>5. CASE make_another
    BY <2>1, <2>2, <2>5, SMTT(20) DEF make_another
  <2> QED
    BY <2>3, <2>4, <2>5
(* find_allocate adds a node that was missing, below one that is there. *)
<1>NodeAdded. SpaceInv /\ allocate_node => SpaceInv'
  <2> SUFFICES ASSUME SpaceInv, allocate_node PROVE SpaceInv'
    OBVIOUS
  <2>0. PICK name : name = Mapping[step].space
    BY SMTT(20)
  <2> DEFINE va == Head(todo).va
             missing == Missing(spaces[name], va)
  <2>1. step \in DOMAIN Mapping /\ UNCHANGED << image, loaded, locked, op, kernel_stacks, pcb >>
    BY SMTT(20) DEF allocate_node
  <2>2. step' \in {step, "assertion"} /\ missing # {}
    BY <2>0, SMTT(20) DEF allocate_node, Proceed
  <2>3. PICK f \in free :
          /\ free' = free \ {f}
          /\ spaces' = [spaces EXCEPT ![name].nodes = Put(@, Node(va, Min(missing)), f),
                                      ![name].node_frames = Append(@, f)]
    BY <2>0, ZenonT(40) DEF allocate_node, allocate
  <2>4. << step, name >> \in { << "map_kernel", "kernel" >>, << "map_init", "init" >>,
                               << "map_trapframe", "init" >>, << "map_another", "another" >> }
    BY <2>0, <2>1 DEF Mapping
  <2>5. name \in SpaceNames
    BY <2>4, SMTT(30) DEF SpaceNames
  <2>6. Node(va, Min(missing)) \notin DOMAIN spaces[name].nodes
    <3>1. missing \subseteq {1, 2}
      BY SMTT(30) DEF Missing
    <3>2. \E x \in missing : \A y \in missing : x <= y
      BY <2>2, <3>1, SMTT(30)
    <3>3. Min(missing) \in missing
      BY <3>2, SMTT(30) DEF Min
    <3> QED  BY <3>3 DEF Missing
  <2> DEFINE path == Node(va, Min(missing))
  <2> HIDE DEF path
  <2>7. /\ DOMAIN spaces' = SpaceNames
        /\ \A t \in SpaceNames \ {name} : spaces'[t] = spaces[t]
        /\ spaces'[name].nodes = Put(spaces[name].nodes, path, f)
        /\ NF(name)' = Append(NF(name), f)
        /\ DOMAIN spaces'[name] = {"areas", "nodes", "node_frames", "entries"}
        /\ spaces'[name].areas = spaces[name].areas
    BY <2>3, <2>5, SMTT(20) DEF SpaceInv, Shape, NF, path
  <2>8. Range(Put(spaces[name].nodes, path, f)) = Range(spaces[name].nodes) \cup {f}
    BY <2>6, ZenonT(40) DEF Put, Range, path
  <2>9. InitAreas' = InitAreas
    BY <2>7 DEF InitAreas, SpaceNames
  <2>10. Stage'
    <3>1. \A t \in SpaceNames \ {name} : NF(t)' = NF(t)
      BY <2>7, SMTT(30) DEF NF
    <3>2. NF(name)' # << >>
      <4>1. NF(name) \in Seq(Heap(image))
        BY <2>5, SMTT(30) DEF SpaceInv, Shape
      <4> QED  BY <2>7, <4>1, SMTT(30)
    <3>3. NF(name) # << >>
      BY <2>4 DEF SpaceInv, Stage, WithInit, WithContext, Late, Second, Stopped
    <3>4. loaded' # "bare" => NF(loaded)' # << >>
      <4>1. loaded # "bare" => NF(loaded) # << >> /\ loaded \in SpaceNames
        BY DEF SpaceInv, Shape, Stage
      <4> QED  BY <2>1, <3>1, <3>2, <4>1, SMTT(20) DEF NF
    <3>5. loaded # "another"
      BY <2>4, SMTT(20) DEF SpaceInv, Stage, Stopped
    <3>6. CASE name = "kernel"
      BY <2>1, <2>2, <2>4, <2>9, <3>1, <3>2, <3>3, <3>4, <3>5, <3>6, SMTT(20)
         DEF SpaceInv, SpaceNames, Stage, Steps, Stopped, WithInit, WithContext, Late, Second,
             BeforeInit, BeforeAreas, BeforeStacks
    <3>7. CASE name = "init"
      BY <2>1, <2>2, <2>4, <2>9, <3>1, <3>2, <3>3, <3>4, <3>5, <3>7, SMTT(20)
         DEF SpaceInv, SpaceNames, Stage, Steps, Stopped, WithInit, WithContext, Late, Second,
             BeforeInit, BeforeAreas, BeforeStacks
    <3>8. CASE name = "another"
      BY <2>1, <2>2, <2>4, <2>9, <3>1, <3>2, <3>3, <3>4, <3>5, <3>8, SMTT(20)
         DEF SpaceInv, SpaceNames, Stage, Steps, Stopped, WithInit, WithContext, Late, Second,
             BeforeInit, BeforeAreas, BeforeStacks
    <3> QED  BY <2>5, <3>6, <3>7, <3>8, SMTT(20) DEF SpaceNames
  <2> QED
    BY <2>1, <2>3, <2>5, <2>7, <2>8, <2>9, <2>10, <1>NodeStep, SMTT(20)
(* KernelStackGuard::allocate, for the init process or, later, for another *)
(* that has none.                                                          *)
<1>StackStep.
    ASSUME SpaceInv, NEW f \in free, NEW p, p \notin DOMAIN kernel_stacks, AllocateStack(p, f),
           UNCHANGED << image, spaces, loaded, locked, op, pcb >>,
           step' \in Steps,
           \/ step' \in Stopped
           \/ step = "PCB_allocate" /\ step' = "user_stack"
           \/ step \in Late /\ step' = step
    PROVE  SpaceInv'
  <2> USE <1>StackStep
  <2>1. f \in free \cap Heap(image)
    BY DEF SpaceInv, Shape
  <2>2. Owned'
    BY <2>1, <1>StackTaken DEF SpaceInv
  <2>3. free' = free \ {f}
    BY SMTT(20) DEF AllocateStack, allocate
  <2>4. Shape'
    BY <2>3 DEF SpaceInv, Shape, NF, InitAreas
  <2>5. /\ \A s : NF(s)' = spaces[s].node_frames
        /\ InitAreas' = InitAreas
    BY SMTT(20) DEF NF, InitAreas
  <2>6. Stage'
    BY <2>5, SMTT(20)
       DEF SpaceInv, Stage, NF, Steps, Stopped, WithInit, WithContext, Late, Second, BeforeInit,
           BeforeAreas, BeforeStacks
  <2> QED
    BY <2>2, <2>4, <2>6, SMTT(20) DEF SpaceInv
(* A step that adds to the areas of the init process one that owns a frame. *)
<1>AreaStep.
    ASSUME SpaceInv, NEW f \in free, free' = free \ {f},
           UNCHANGED << image, loaded, locked, op, kernel_stacks >>,
           OnlyAreas, \E S : InitAreas' \in Seq(S),
           NEW n \in DOMAIN InitAreas', n \notin DOMAIN InitAreas, InitAreas'[n].owned = {f},
           DOMAIN InitAreas \subseteq DOMAIN InitAreas',
           \A k \in DOMAIN InitAreas : InitAreas'[k].owned = InitAreas[k].owned,
           \A k \in DOMAIN InitAreas' \ {n} : k \notin DOMAIN InitAreas => InitAreas'[k].owned = {},
           DOMAIN pcb' = DOMAIN NoPcb,
           \/ step = "user_stack" /\ step' = "text"
           \/ step = "text" /\ step' = "make_init"
           \/ step = "init_trapframe" /\ step' = "map_trapframe"
           \/ step \notin Stopped /\ step' = "assertion",
           step' = "map_trapframe" => pcb'.trap_context # 0
    PROVE  SpaceInv'
  <2> USE <1>AreaStep
  <2>1. f \in free \cap Heap(image)
    BY SMTT(20) DEF SpaceInv, Shape
  <2>3. /\ DOMAIN spaces' = SpaceNames
        /\ \A s \in SpaceNames : /\ DOMAIN spaces'[s] = DOMAIN spaces[s]
                                 /\ NF(s)' = NF(s)
                                 /\ spaces'[s].nodes = spaces[s].nodes
    BY DEF OnlyAreas
  <2>4. Owned'
    BY <2>1, <2>3, <1>AreaTaken, ZenonT(40) DEF SpaceInv
  <2>5. Shape'
    <3>2. \A s \in SpaceNames : /\ DOMAIN spaces'[s] = {"areas", "nodes", "node_frames", "entries"}
                                /\ NF(s)' \in Seq(Heap(image'))
                                /\ Range(spaces'[s].nodes) = Range(NF(s)')
      BY <2>3, SMTT(20) DEF SpaceInv, Shape
    <3> QED  BY <2>3, <3>2, SMTT(20) DEF SpaceInv, Shape
  <2>6. Stage'
    <3>1. {"kernel", "init", "another"} = SpaceNames
      BY SMTT(20) DEF SpaceNames
    <3>2. NF("kernel")' = NF("kernel") /\ NF("init")' = NF("init") /\ NF("another")' = NF("another")
      BY <2>3, <3>1, SMTT(20)
    <3>3. loaded' # "bare" => NF(loaded)' # << >>
      <4>1. loaded # "bare" => NF(loaded) # << >> /\ loaded \in SpaceNames
        BY SMTT(30) DEF SpaceInv, Shape, Stage
      <4> QED  BY <2>3, <4>1, SMTT(20) DEF NF
    <3> QED
      BY <3>2, <3>3, SMTT(20) DEF SpaceInv, Stage, Steps, Stopped, WithInit, WithContext, Late,
         Second,
                        BeforeInit, BeforeAreas, BeforeStacks
  <2> QED
    BY <2>4, <2>5, <2>6, SMTT(20) DEF SpaceInv
(* A sequence with one more element. *)
<1>AppendKeeps.
    ASSUME NEW A, NEW e, \E S : A \in Seq(S)
    PROVE  /\ \E S : Append(A, e) \in Seq(S)
           /\ Len(A) + 1 \in DOMAIN Append(A, e) /\ Len(A) + 1 \notin DOMAIN A
           /\ Append(A, e)[Len(A) + 1] = e
           /\ DOMAIN Append(A, e) = DOMAIN A \cup {Len(A) + 1}
           /\ \A k \in DOMAIN A : Append(A, e)[k] = A[k]
  <2> USE <1>AppendKeeps
  <2>1. PICK S : A \in Seq(S)
    OBVIOUS
  <2>2. A \in Seq(S \cup {e})
    BY <2>1
  <2>3. Append(A, e) \in Seq(S \cup {e})
    BY <2>2
  <2>4. DOMAIN Append(A, e) = DOMAIN A \cup {Len(A) + 1} /\ Len(A) + 1 \notin DOMAIN A
    BY <2>1
  <2>5. Append(A, e)[Len(A) + 1] = e
    BY <2>1, SMTT(20)
  <2>6. \A k \in DOMAIN A : Append(A, e)[k] = A[k]
    BY <2>1, SMTT(20)
  <2> QED
    BY <2>3, <2>4, <2>5, <2>6, SMTT(20)
(* What a FrameGuard behind an area owns. *)
<1>ExclusiveOwns.
    ASSUME NEW va_begin, NEW va_end, NEW perms, NEW frame
    PROVE  exclusive(va_begin, va_end, perms, frame).owned = {frame}
  BY <1>ExclusiveOwns, SMTT(20) DEF exclusive, VirtArea
(* The frames of the user stack, the text and the trap context. *)
<1>AreaSteps.
    SpaceInv /\ (make_init_stack \/ make_init_text \/ init_trapframe) => SpaceInv'
  <2> SUFFICES ASSUME SpaceInv, make_init_stack \/ make_init_text \/ init_trapframe PROVE SpaceInv'
    OBVIOUS
  <2>1. DOMAIN pcb = DOMAIN NoPcb /\ \E S : InitAreas \in Seq(S)
    BY DEF SpaceInv, Shape
  <2>5. ASSUME NEW A, spaces' = [spaces EXCEPT !["init"].areas = A]
        PROVE  OnlyAreas /\ InitAreas' = A
    <3>1. DOMAIN spaces = SpaceNames /\ "init" \in SpaceNames
      BY SMTT(30) DEF SpaceInv, Shape, SpaceNames
    <3>2. DOMAIN spaces["init"] = {"areas", "nodes", "node_frames", "entries"}
      BY <3>1, SMTT(20) DEF SpaceInv, Shape
    <3> QED  BY <2>5, <3>1, <3>2, SMTT(20) DEF OnlyAreas, InitAreas, NF
  <2>2. CASE make_init_stack
    <3>1. PICK f \in free :
            /\ free' = free \ {f}
            /\ spaces' = [spaces EXCEPT !["init"].areas =
                            << make_trampoline, make_initial_user_stack(f) >>]
      BY <2>2, Zenon DEF make_init_stack, allocate
    <3>2. /\ UNCHANGED << image, loaded, locked, op, kernel_stacks, pcb >>
          /\ step = "user_stack" /\ step' \in {"text", "assertion"}
      BY <2>2, SMTT(30) DEF make_init_stack, Proceed
    <3>3. InitAreas = << >>
      BY <3>2 DEF SpaceInv, Stage, BeforeAreas
    <3>4. DOMAIN InitAreas = {}
      BY <3>3, SMTT(20)
    <3>5. make_trampoline.owned = {} /\ make_initial_user_stack(f).owned = {f}
      BY <1>ExclusiveOwns DEF make_trampoline, VirtArea, make_initial_user_stack
    <3>a. OnlyAreas /\ InitAreas' = << make_trampoline, make_initial_user_stack(f) >>
      BY <2>5, <3>1, ZenonT(40)
    <3>6. /\ InitAreas' \in Seq({make_trampoline, make_initial_user_stack(f)})
          /\ DOMAIN InitAreas' = {1, 2} /\ InitAreas'[1].owned = {} /\ InitAreas'[2].owned = {f}
      BY <3>5, <3>a
    <3>7. step \notin Stopped
      BY <3>2 DEF Stopped
    <3>b. free' = free \ {f} /\ \E S : InitAreas' \in Seq(S)
      BY <3>1, <3>6, ZenonT(40)
    <3> QED  BY <2>1, <3>2, <3>4, <3>6, <3>7, <3>a, <3>b, <1>AreaStep, SMTT(20)
  <2>3. CASE make_init_text
    <3>1. PICK f \in free :
            /\ free' = free \ {f}
            /\ spaces' = [spaces EXCEPT !["init"].areas = Append(InitAreas, init_text(f))]
      BY <2>3, ZenonT(40) DEF make_init_text, allocate, InitAreas
    <3>2. /\ UNCHANGED << image, loaded, locked, op, kernel_stacks, pcb >>
          /\ step = "text" /\ step' \in {"make_init", "assertion"} /\ step \notin Stopped
      BY <2>3, SMTT(20) DEF make_init_text, Proceed, Stopped
    <3>3. init_text(f).owned = {f}
      BY <1>ExclusiveOwns DEF init_text
    <3>a. OnlyAreas /\ InitAreas' = Append(InitAreas, init_text(f))
      BY <2>5, <3>1, Zenon
    <3>4. /\ \E S : InitAreas' \in Seq(S)
          /\ Len(InitAreas) + 1 \in DOMAIN InitAreas' /\ Len(InitAreas) + 1 \notin DOMAIN InitAreas
          /\ InitAreas'[Len(InitAreas) + 1].owned = {f}
          /\ DOMAIN InitAreas' = DOMAIN InitAreas \cup {Len(InitAreas) + 1}
          /\ \A k \in DOMAIN InitAreas : InitAreas'[k].owned = InitAreas[k].owned
      <4> DEFINE B == Append(InitAreas, init_text(f))
      <4>1. /\ \E S : B \in Seq(S)
            /\ Len(InitAreas) + 1 \in DOMAIN B /\ Len(InitAreas) + 1 \notin DOMAIN InitAreas
            /\ B[Len(InitAreas) + 1] = init_text(f)
            /\ DOMAIN B = DOMAIN InitAreas \cup {Len(InitAreas) + 1}
            /\ \A k \in DOMAIN InitAreas : B[k] = InitAreas[k]
        BY <2>1, <1>AppendKeeps, Zenon
      <4> HIDE DEF B
      <4>2. InitAreas' = B
        BY <3>a DEF B
      <4> QED  BY <3>3, <4>1, <4>2, Zenon
    <3>b. free' = free \ {f}
      BY <3>1, SMTT(20)
    <3> QED  BY <2>1, <3>2, <3>4, <3>a, <3>b, <1>AreaStep, SMTT(20)
  <2>4. CASE init_trapframe
    <3>1. PICK f \in free :
            /\ free' = free \ {f}
            /\ spaces' = [spaces EXCEPT !["init"].areas = Append(InitAreas, make_trapframe(f))]
            /\ pcb' = [pcb EXCEPT !.trap_context = get_base_addr(f)]
      BY <2>4, Zenon DEF init_trapframe, allocate, InitAreas
    <3>2. /\ UNCHANGED << image, loaded, locked, op, kernel_stacks >>
          /\ step = "init_trapframe" /\ step' \in {"map_trapframe", "assertion"}
          /\ step \notin Stopped
      BY <2>4, SMTT(30) DEF init_trapframe, Proceed, Stopped
    <3>3. make_trapframe(f).owned = {f}
      BY <1>ExclusiveOwns DEF make_trapframe
    <3>a. OnlyAreas /\ InitAreas' = Append(InitAreas, make_trapframe(f))
      BY <2>5, <3>1, Zenon
    <3>4. /\ \E S : InitAreas' \in Seq(S)
          /\ Len(InitAreas) + 1 \in DOMAIN InitAreas' /\ Len(InitAreas) + 1 \notin DOMAIN InitAreas
          /\ InitAreas'[Len(InitAreas) + 1].owned = {f}
          /\ DOMAIN InitAreas' = DOMAIN InitAreas \cup {Len(InitAreas) + 1}
          /\ \A k \in DOMAIN InitAreas : InitAreas'[k].owned = InitAreas[k].owned
      <4> DEFINE B == Append(InitAreas, make_trapframe(f))
      <4>1. /\ \E S : B \in Seq(S)
            /\ Len(InitAreas) + 1 \in DOMAIN B /\ Len(InitAreas) + 1 \notin DOMAIN InitAreas
            /\ B[Len(InitAreas) + 1] = make_trapframe(f)
            /\ DOMAIN B = DOMAIN InitAreas \cup {Len(InitAreas) + 1}
            /\ \A k \in DOMAIN InitAreas : B[k] = InitAreas[k]
        BY <2>1, <1>AppendKeeps, Zenon
      <4> HIDE DEF B
      <4>2. InitAreas' = B
        BY <3>a, SMTT(20) DEF B
      <4> QED  BY <3>3, <4>1, <4>2, Zenon
    <3>6. f \in Heap(image) /\ image \in Images
      BY DEF SpaceInv, Shape
    <3>7. get_base_addr(f) # 0
      BY <3>6, HeapAboveZero
    <3>8. DOMAIN pcb' = DOMAIN NoPcb /\ pcb'.trap_context # 0
      BY <2>1, <3>1, <3>7, SMTT(30) DEF NoPcb
    <3>b. free' = free \ {f}
      BY <3>1
    <3> QED  BY <2>1, <3>2, <3>4, <3>8, <3>a, <3>b, <1>AreaStep, SMTT(20)
  <2> QED
    BY <2>2, <2>3, <2>4
(* The second space is dropped, and all its frames go back. *)
<1>LoadSelfStep. SpaceInv /\ load_self => SpaceInv'
  <2> SUFFICES ASSUME SpaceInv, load_self PROVE SpaceInv'
    OBVIOUS
  <2>1. /\ step = "load_self" /\ step' = "usertrapret" /\ loaded' = "kernel"
        /\ locked' \in BOOLEAN
        /\ free' = free \cup Range(NF("another"))
        /\ spaces' = [spaces EXCEPT !["another"] = NoSpace]
        /\ UNCHANGED << image, op, kernel_stacks, pcb >>
    BY DEF load_self, NF
  <2>2. "another" \in SpaceNames /\ "init" \in SpaceNames /\ "kernel" \in SpaceNames
    BY SMTT(20) DEF SpaceNames
  <2>3. /\ spaces'["another"] = NoSpace /\ DOMAIN spaces' = SpaceNames
        /\ \A s \in SpaceNames \ {"another"} : spaces'[s] = spaces[s]
    BY <2>1, <2>2, SMTT(20) DEF SpaceInv, Shape
  <2>4. NF("another")' = << >> /\ InitAreas' = InitAreas
        /\ \A s \in SpaceNames \ {"another"} : NF(s)' = NF(s)
    BY <2>2, <2>3, SMTT(20) DEF NF, InitAreas, NoSpace
  <2>5. Owned'
    BY <2>1, <2>4, <1>NodesReturned, SMTT(20) DEF SpaceInv
  <2>6. Shape'
    <3>1. ASSUME NEW t \in SpaceNames
          PROVE  /\ DOMAIN spaces'[t] = {"areas", "nodes", "node_frames", "entries"}
                 /\ NF(t)' \in Seq(Heap(image'))
                 /\ Range(spaces'[t].nodes) = Range(NF(t)')
      <4>1. CASE t = "another"
        <5>1. spaces'["another"].nodes = << >>
              /\ DOMAIN spaces'["another"] = {"areas", "nodes", "node_frames", "entries"}
          BY <2>3 DEF NoSpace
        <5>2. << >> \in Seq(Heap(image'))
          BY SMTT(20)
        <5> QED  BY <2>4, <4>1, <5>1, <5>2, ZenonT(40)
      <4>2. CASE t # "another"
        BY <2>1, <2>3, <2>4, <4>2, SMTT(20) DEF SpaceInv, Shape
      <4> QED  BY <4>1, <4>2
    <3>2. Range(NF("another")) \subseteq Heap(image)
      <4>1. NF("another") \in Seq(Heap(image))
        BY <2>2, SMTT(20) DEF SpaceInv, Shape
      <4> QED  BY <4>1, SMTT(20) DEF Range
    <3>3. image' \in Images /\ free' \subseteq Heap(image') /\ \E S : InitAreas' \in Seq(S)
      BY <2>1, <2>4, <3>2, SMTT(20) DEF SpaceInv, Shape
    <3> QED  BY <2>1, <2>2, <2>3, <3>1, <3>3, SMTT(20) DEF SpaceInv, Shape
  <2>7. Stage'
    <3>1. NF("kernel")' = NF("kernel") /\ NF("init")' = NF("init")
      BY <2>2, <2>4, SMTT(20)
    <3>2. NF("kernel") # << >>
      BY <2>1, SMTT(20) DEF SpaceInv, Stage, Stopped
    <3>3. NF(loaded)' # << >>
      BY <2>1, <3>1, <3>2, SMTT(20) DEF NF
    <3> QED
      BY <2>1, <2>4, <3>1, <3>2, <3>3, SMTT(20)
         DEF SpaceInv, Stage, Steps, Stopped, WithInit, WithContext, Late, Second, BeforeInit,
             BeforeAreas, BeforeStacks
  <2> QED
    BY <2>5, <2>6, <2>7, SMTT(20) DEF SpaceInv
(* The kernel stack of the init process. *)
<1>PcbStep. SpaceInv /\ PCB_allocate => SpaceInv'
  <2> SUFFICES ASSUME SpaceInv, PCB_allocate PROVE SpaceInv'
    OBVIOUS
  <2>1. PICK f \in free : AllocateStack(InitPid, f)
    BY DEF PCB_allocate
  <2>2. /\ step = "PCB_allocate" /\ step' \in {"user_stack", "assertion"}
        /\ UNCHANGED << image, spaces, loaded, locked, op, pcb >>
    BY SMTT(30) DEF PCB_allocate, Proceed
  <2>3. InitPid \notin DOMAIN kernel_stacks
    BY <2>2 DEF SpaceInv, Stage, BeforeStacks
  <2>4. step' \in Steps /\ (step' \in Stopped \/ step' = "user_stack")
    BY <2>2 DEF Steps, Stopped, BeforeInit, BeforeAreas
  <2> QED
    BY <2>1, <2>2, <2>3, <2>4, <1>StackStep, SMTT(20)
(* Every step of the path keeps the invariant. *)
<1>SpaceStepKeeps. SpaceInv /\ SpaceStep => SpaceInv'
  BY <1>RootSteps, <1>NodeAdded, <1>MapStep, <1>PcbStep, <1>AreaSteps,
     <1>LockTableStep, <1>LoadSelfStep, <1>QuietSpaceStep, SMTT(20)
     DEF SpaceStep, QuietAction
(* The invariant survives what the harts do elsewhere, tp written too. *)
<1>Elsewhere.
    ASSUME SpaceInv, UNCHANGED << image, free, spaces, loaded, locked, op, kernel_stacks, step >>,
           DOMAIN pcb' = DOMAIN NoPcb, pcb'.trap_context = pcb.trap_context
    PROVE  SpaceInv'
  <2> USE <1>Elsewhere
  <2>1. SameTables
    BY SMTT(20) DEF SameTables, SpaceInv, Shape, NF
  <2>2. loaded' = "another" => step' \in {"lock_table", "load_self"} \cup Stopped
    BY SMTT(20) DEF SpaceInv, Stage
  <2>3. step' \in Steps /\ (step' \in WithContext => pcb'.trap_context # 0)
    BY SMTT(20) DEF SpaceInv, Stage
  <2>4. Stage'
    BY <2>1, <2>2, <2>3, <1>SameStage, SMTT(20)
  <2>5. loaded' \in SpaceNames \cup {"bare"} /\ locked' \in BOOLEAN /\ op' \in {"lock", "unlock"}
    BY DEF SpaceInv, Shape
  <2> QED
    BY <2>1, <2>4, <2>5, <1>SameTablesStep, SMTT(20)
(* The stack of another process, and tp. *)
<1>OtherSteps. SpaceInv /\ OtherStep => SpaceInv'
  <2> SUFFICES ASSUME SpaceInv, OtherStep PROVE SpaceInv'
    OBVIOUS
  <2>1. CASE /\ step \in Underway
             /\ \E p \in DOMAIN kernel_stacks' \ DOMAIN kernel_stacks : \E f \in free : AllocateStack(p, f)
             /\ UNCHANGED << image, spaces, todo, loaded, locked, op, pcb, step >>
    <3>1. PICK p \in DOMAIN kernel_stacks' \ DOMAIN kernel_stacks : \E f \in free : AllocateStack(p, f)
      BY <2>1, Zenon
    <3>2. PICK f \in free : AllocateStack(p, f)
      BY <3>1, Zenon
    <3>3. p \notin DOMAIN kernel_stacks /\ UNCHANGED << image, spaces, loaded, locked, op, pcb >>
      BY <2>1, <3>1, Zenon
    <3>4. step' = step /\ step \in Late \cup Stopped
      BY <2>1, SMTT(20) DEF Underway, Late, Second
    <3>5. step' \in Steps /\ (step' \in Stopped \/ (step \in Late /\ step' = step))
      BY <3>4, Zenon DEF SpaceInv, Stage
    <3> QED  BY <3>2, <3>3, <3>5, <1>StackStep, Zenon
  <2>2. CASE /\ set_tp(pcb'.tp)
             /\ UNCHANGED << image, free, spaces, todo, loaded, locked, op, kernel_stacks, step >>
    <3>1. DOMAIN pcb' = DOMAIN NoPcb /\ pcb'.trap_context = pcb.trap_context
      BY <2>2, SMTT(20) DEF set_tp, SpaceInv, Shape, NoPcb
    <3> QED  BY <2>2, <3>1, <1>Elsewhere, SMTT(20)
  <2> QED
    BY <2>1, <2>2, Zenon DEF OtherStep
(* A step that does not touch the spaces. *)
<1>NoStep. SpaceInv /\ UNCHANGED spaceVars => SpaceInv'
  BY <1>Elsewhere, Zenon DEF spaceVars, SpaceInv, Shape
<1> QED
  BY <1>SpaceStepKeeps, <1>OtherSteps, <1>NoStep, Zenon DEF SpaceNext

-----------------------------------------------------------------------------
(* Numbers *)

(* Induction up to the number of areas a space has, with a set in place of *)
(* the predicate.                                                          *)
LEMMA SetInduction ==
  ASSUME NEW S, 0 \in S, \A n \in Nat : n \in S => n + 1 \in S
  PROVE  \A n \in 0 .. 11 : n \in S
<1>1. 1 \in S /\ 2 \in S /\ 3 \in S
  OBVIOUS
<1>2. 4 \in S /\ 5 \in S /\ 6 \in S
  BY <1>1
<1>3. 7 \in S /\ 8 \in S /\ 9 \in S
  BY <1>2
<1>4. 10 \in S /\ 11 \in S
  BY <1>3
<1>5. \A n \in 0 .. 11 : n \in {0, 1, 2, 3, 4, 5, 6, 7, 8, 9, 10, 11}
  OBVIOUS
<1> QED
  BY <1>1, <1>2, <1>3, <1>4, <1>5

(* Rounding to pages, with the numbers in place. *)
LEMMA Rounding ==
  /\ \A a \in Nat : PG_ROUND_DOWN(a) = (a \div 4096) * 4096
  /\ \A a \in Nat : PG_ROUND_UP(a) = ((a + 4095) \div 4096) * 4096
<1>1. 2^12 = 4096
  OBVIOUS
<1> QED
  BY <1>1 DEF PG_ROUND_DOWN, PG_ROUND_UP, ALIGN_DOWN, ALIGN_UP, PAGE_ORDER

(* The page of a page's address. *)
LEMMA PageNumber ==
  ASSUME NEW n \in Nat
  PROVE  /\ get_base_addr(n) \in Nat /\ get_number(get_base_addr(n)) = n
         /\ PG_ROUND_DOWN(get_base_addr(n)) = get_base_addr(n)
         /\ get_base_addr(n) % PAGE_SIZE = 0
<1>1. get_base_addr(n) = n * 4096 /\ n * 4096 \in Nat
  BY DEF get_base_addr, PAGE_SIZE
<1>2. (n * 4096) \div 4096 = n /\ (n * 4096) % 4096 = 0
  BY SMTT(30)
<1> QED
  BY <1>1, <1>2, Rounding DEF get_number, PAGE_SIZE

(* An entry gives back the page and the flags it was made of. *)
LEMMA EntryRoundTrip ==
  ASSUME NEW n \in Nat, NEW fl \in SUBSET PTEFlags
  PROVE  /\ PTE2PA(make_entry(get_base_addr(n), fl)) = get_base_addr(n)
         /\ flags(make_entry(get_base_addr(n), fl)) = fl
<1> DEFINE bit(f) == IF f \in fl THEN 1 ELSE 0
           e == make_entry(get_base_addr(n), fl)
<1>1. bits(fl) = bit("VALID") + 2 * bit("READABLE") + 4 * bit("WRITABLE") + 8 * bit("EXECUTABLE")
                 + 16 * bit("USER") + 32 * bit("GLOBAL") + 64 * bit("ACCESSED") + 128 * bit("DIRTY")
                 + 256 * bit("COW")
  <2> DEFINE value(f) == IF f \in fl THEN FlagBit[f] ELSE 0
  <2>1. bits(fl) = value("VALID") + value("READABLE") + value("WRITABLE") + value("EXECUTABLE")
                   + value("USER") + value("GLOBAL") + value("ACCESSED") + value("DIRTY")
                   + value("COW")
    BY ZenonT(40) DEF bits
  <2>2. /\ FlagBit["VALID"] = 1 /\ FlagBit["READABLE"] = 2 /\ FlagBit["WRITABLE"] = 4
        /\ FlagBit["EXECUTABLE"] = 8 /\ FlagBit["USER"] = 16 /\ FlagBit["GLOBAL"] = 32
        /\ FlagBit["ACCESSED"] = 64 /\ FlagBit["DIRTY"] = 128 /\ FlagBit["COW"] = 256
    BY SMTT(30) DEF FlagBit
  <2>3. /\ value("VALID") = bit("VALID") /\ value("READABLE") = 2 * bit("READABLE")
        /\ value("WRITABLE") = 4 * bit("WRITABLE") /\ value("EXECUTABLE") = 8 * bit("EXECUTABLE")
        /\ value("USER") = 16 * bit("USER") /\ value("GLOBAL") = 32 * bit("GLOBAL")
        /\ value("ACCESSED") = 64 * bit("ACCESSED") /\ value("DIRTY") = 128 * bit("DIRTY")
        /\ value("COW") = 256 * bit("COW")
    BY <2>2, SMTT(20)
  <2> HIDE DEF value, bit
  <2> QED  BY <2>1, <2>3, SMTT(20)
<1>2. 2^10 = 1024
  OBVIOUS
<1>3. e = n * 1024 + bits(fl)
  BY <1>2, PageNumber DEF make_entry
<1>4. \A f : bit(f) \in 0 .. 1
  OBVIOUS
<1> HIDE DEF bit, e
<1>5. /\ e \div 1024 = n
      /\ (e \div 1) % 2 = bit("VALID") /\ (e \div 2) % 2 = bit("READABLE")
      /\ (e \div 4) % 2 = bit("WRITABLE") /\ (e \div 8) % 2 = bit("EXECUTABLE")
      /\ (e \div 16) % 2 = bit("USER") /\ (e \div 32) % 2 = bit("GLOBAL")
      /\ (e \div 64) % 2 = bit("ACCESSED") /\ (e \div 128) % 2 = bit("DIRTY")
      /\ (e \div 256) % 2 = bit("COW")
  <2> DEFINE b0 == bit("VALID") b1 == bit("READABLE") b2 == bit("WRITABLE") b3 == bit("EXECUTABLE")
             b4 == bit("USER") b5 == bit("GLOBAL") b6 == bit("ACCESSED") b7 == bit("DIRTY")
             b8 == bit("COW")
  <2>0. /\ b0 \in 0 .. 1 /\ b1 \in 0 .. 1 /\ b2 \in 0 .. 1 /\ b3 \in 0 .. 1 /\ b4 \in 0 .. 1
        /\ b5 \in 0 .. 1 /\ b6 \in 0 .. 1 /\ b7 \in 0 .. 1 /\ b8 \in 0 .. 1
        /\ e = n * 1024 + (b0 + 2 * b1 + 4 * b2 + 8 * b3 + 16 * b4 + 32 * b5 + 64 * b6
                           + 128 * b7 + 256 * b8)
    BY <1>1, <1>3, <1>4
  <2> HIDE DEF b0, b1, b2, b3, b4, b5, b6, b7, b8
  <2>1. e \div 1 = 1024 * n + b0 + 2 * b1 + 4 * b2 + 8 * b3 + 16 * b4 + 32 * b5 + 64 * b6 + 128 * b7 + 256 * b8
    BY <2>0
  <2>2. e \div 2 = 512 * n + b1 + 2 * b2 + 4 * b3 + 8 * b4 + 16 * b5 + 32 * b6 + 64 * b7 + 128 * b8
    BY <2>0, SMTT(30)
  <2>3. e \div 4 = 256 * n + b2 + 2 * b3 + 4 * b4 + 8 * b5 + 16 * b6 + 32 * b7 + 64 * b8
    BY <2>0, SMTT(30)
  <2>4. e \div 8 = 128 * n + b3 + 2 * b4 + 4 * b5 + 8 * b6 + 16 * b7 + 32 * b8
    BY <2>0, SMTT(30)
  <2>5. e \div 16 = 64 * n + b4 + 2 * b5 + 4 * b6 + 8 * b7 + 16 * b8
    BY <2>0, SMTT(30)
  <2>6. e \div 32 = 32 * n + b5 + 2 * b6 + 4 * b7 + 8 * b8
    BY <2>0, SMTT(30)
  <2>7. e \div 64 = 16 * n + b6 + 2 * b7 + 4 * b8
    BY <2>0
  <2>8. e \div 128 = 8 * n + b7 + 2 * b8
    BY <2>0, SMTT(30)
  <2>9. e \div 256 = 4 * n + b8
    BY <2>0, SMTT(30)
  <2>10. (1024 * n + b0 + 2 * b1 + 4 * b2 + 8 * b3 + 16 * b4 + 32 * b5 + 64 * b6 + 128 * b7 + 256 * b8) % 2 = b0
    BY <2>0, SMTT(30)
  <2>11. (512 * n + b1 + 2 * b2 + 4 * b3 + 8 * b4 + 16 * b5 + 32 * b6 + 64 * b7 + 128 * b8) % 2 = b1
    BY <2>0, SMTT(30)
  <2>12. (256 * n + b2 + 2 * b3 + 4 * b4 + 8 * b5 + 16 * b6 + 32 * b7 + 64 * b8) % 2 = b2
    BY <2>0, SMTT(30)
  <2>13. (128 * n + b3 + 2 * b4 + 4 * b5 + 8 * b6 + 16 * b7 + 32 * b8) % 2 = b3
    BY <2>0, SMTT(30)
  <2>14. (64 * n + b4 + 2 * b5 + 4 * b6 + 8 * b7 + 16 * b8) % 2 = b4
    BY <2>0, SMTT(30)
  <2>15. (32 * n + b5 + 2 * b6 + 4 * b7 + 8 * b8) % 2 = b5
    BY <2>0
  <2>16. (16 * n + b6 + 2 * b7 + 4 * b8) % 2 = b6
    BY <2>0, SMTT(30)
  <2>17. (8 * n + b7 + 2 * b8) % 2 = b7
    BY <2>0, SMTT(30)
  <2>18. (4 * n + b8) % 2 = b8
    BY <2>0
  <2>19. e \div 1024 = n
    BY <2>0, SMTT(30)
  <2>20. (e \div 1) % 2 = b0
    BY <2>1, <2>10, SMTT(30)
  <2>21. (e \div 2) % 2 = b1
    BY <2>2, <2>11, SMTT(30)
  <2>22. (e \div 4) % 2 = b2
    BY <2>3, <2>12, SMTT(30)
  <2>23. (e \div 8) % 2 = b3
    BY <2>4, <2>13, SMTT(30)
  <2>24. (e \div 16) % 2 = b4
    BY <2>5, <2>14
  <2>25. (e \div 32) % 2 = b5
    BY <2>6, <2>15, SMTT(30)
  <2>26. (e \div 64) % 2 = b6
    BY <2>7, <2>16, SMTT(30)
  <2>27. (e \div 128) % 2 = b7
    BY <2>8, <2>17
  <2>28. (e \div 256) % 2 = b8
    BY <2>9, <2>18, SMTT(30)
  <2> QED
    BY <2>19, <2>20, <2>21, <2>22, <2>23, <2>24, <2>25, <2>26, <2>27, <2>28, ZenonT(30)
       DEF b0, b1, b2, b3, b4, b5, b6, b7, b8
<1>6. PTE2PA(e) = get_base_addr(n)
  BY <1>2, <1>5, SMTT(20) DEF PTE2PA, get_base_addr
<1>7. \A f \in PTEFlags : (e \div FlagBit[f]) % 2 = bit(f)
  BY <1>5 DEF PTEFlags, FlagBit
<1>8. flags(e) = fl
  BY <1>7 DEF flags, bit
<1> QED
  BY <1>6, <1>8, SMTT(20) DEF e

\* the entries of a node
Fanout == 2^VA_INDEX_WIDTH

-----------------------------------------------------------------------------
(* The pages of areas *)

\* the pages of a sequence have different addresses
Distinct(s) == \A i \in DOMAIN s : \A j \in DOMAIN s : s[i].va = s[j].va => i = j

(* The pages of up to eleven areas, one after the other. *)
LEMMA PagesOfAreas ==
  \A P, areas : \A n \in 0 .. 11 :
    /\ Len(areas) = n
    /\ \A k \in 1 .. n : Pages(areas[k]) \in Seq(P) /\ Distinct(Pages(areas[k]))
    /\ \A j \in 1 .. n : \A k \in 1 .. n :
         \A x \in Range(Pages(areas[j])) : \A y \in Range(Pages(areas[k])) : x.va = y.va => j = k
    => /\ PagesOf(areas) \in Seq(P) /\ Distinct(PagesOf(areas))
       /\ \A x : x \in Range(PagesOf(areas)) <=> \E k \in 1 .. n : x \in Range(Pages(areas[k]))
(* Concatenation. *)
<1>Concatenated.
    ASSUME NEW P, NEW s \in Seq(P), NEW t \in Seq(P)
    PROVE  /\ s \o t \in Seq(P)
           /\ Range(s \o t) = Range(s) \cup Range(t)
           /\ Distinct(s) /\ Distinct(t) /\ (\A x \in Range(s) : \A y \in Range(t) : x.va # y.va)
                => Distinct(s \o t)
  <2> USE <1>Concatenated, Zenon
  <2> DEFINE u == s \o t  m == Len(s)  n == Len(t)
  <2>1. /\ u \in Seq(P) /\ m \in Nat /\ n \in Nat
        /\ DOMAIN u = 1 .. m + n /\ DOMAIN s = 1 .. m /\ DOMAIN t = 1 .. n
        /\ \A i \in 1 .. m : u[i] = s[i]
        /\ \A i \in 1 .. n : u[m + i] = t[i]
    BY SMTT(30)
  <2> HIDE DEF u, m, n
  <2>2. \A i \in DOMAIN u : i \in DOMAIN s \/ (i - m \in DOMAIN t /\ i = m + (i - m))
    BY <2>1, SMTT(30)
  <2>3. \A i \in DOMAIN s : i \in DOMAIN u /\ u[i] = s[i]
    BY <2>1, SMTT(30)
  <2>4. \A i \in DOMAIN t : m + i \in DOMAIN u /\ u[m + i] = t[i]
    BY <2>1, SMT
  <2>5. Range(u) = Range(s) \cup Range(t)
    <3>1. \A x : x \in Range(u) <=> x \in Range(s) \cup Range(t)
      <4>1. ASSUME NEW x \in Range(u) PROVE x \in Range(s) \cup Range(t)
        <5>1. PICK i \in DOMAIN u : x = u[i]
          BY DEF Range
        <5> QED  BY <2>2, <2>3, <2>4, <5>1, ZenonT(30) DEF Range
      <4>2. ASSUME NEW x \in Range(s) \cup Range(t) PROVE x \in Range(u)
        BY <2>3, <2>4 DEF Range
      <4> QED  BY <4>1, <4>2
    <3> QED  BY <3>1
  <2>6. ASSUME Distinct(s), Distinct(t), \A x \in Range(s) : \A y \in Range(t) : x.va # y.va
        PROVE  Distinct(u)
    <3> SUFFICES ASSUME NEW i \in DOMAIN u, NEW j \in DOMAIN u, u[i].va = u[j].va PROVE i = j
      BY DEF Distinct
    <3>1. CASE i \in DOMAIN s /\ j \in DOMAIN s
      BY <2>3, <2>6, <3>1 DEF Distinct
    <3>2. CASE i - m \in DOMAIN t /\ i = m + (i - m) /\ j - m \in DOMAIN t /\ j = m + (j - m)
      <4>1. u[i] = t[i - m] /\ u[j] = t[j - m]
        BY <2>4, <3>2
      <4>2. i - m = j - m
        BY <2>6, <3>2, <4>1 DEF Distinct
      <4> QED  BY <3>2, <4>2
    <3>3. CASE i \in DOMAIN s /\ j - m \in DOMAIN t /\ j = m + (j - m)
      <4>1. u[i] \in Range(s) /\ u[j] \in Range(t)
        BY <2>3, <2>4, <3>3 DEF Range
      <4> QED  BY <2>6, <4>1
    <3>4. CASE j \in DOMAIN s /\ i - m \in DOMAIN t /\ i = m + (i - m)
      <4>1. u[j] \in Range(s) /\ u[i] \in Range(t)
        BY <2>3, <2>4, <3>4 DEF Range
      <4> QED  BY <2>6, <4>1
    <3> QED  BY <2>2, <3>1, <3>2, <3>3, <3>4
  <2> QED
    BY <2>1, <2>5, <2>6 DEF u
(* PagesOf joins the pages of the areas in their order. *)
<1>PagesJoined.
    ASSUME NEW areas, NEW n \in 0 .. 11, Len(areas) = n
    PROVE  \E u : /\ PagesOf(areas) = u[n]
                  /\ u[0] = << >>
                  /\ \A k \in 1 .. n : u[k] = u[k - 1] \o Pages(areas[k])
  <2> USE <1>PagesJoined, Zenon
  <2> DEFINE Good(f, m) == f = [k \in 0 .. m |-> IF k = 0 THEN << >> ELSE f[k - 1] \o Pages(areas[k])]
             S == { m \in Nat : \E f : Good(f, m) }
  <2>1. 0 \in S
    <3>1. Good([k \in 0 .. 0 |-> << >>], 0)
      BY SMT
    <3> QED  BY <3>1
  <2>2. ASSUME NEW m \in Nat, m \in S PROVE m + 1 \in S
    <3>1. PICK f : Good(f, m)
      BY <2>2
    <3> DEFINE g == [k \in 0 .. m + 1 |-> IF k = m + 1 THEN f[m] \o Pages(areas[m + 1]) ELSE f[k]]
    <3>2. \A k \in 0 .. m : f[k] = IF k = 0 THEN << >> ELSE f[k - 1] \o Pages(areas[k])
      BY <3>1
    <3>3. ASSUME NEW k \in 0 .. m + 1
          PROVE  g[k] = IF k = 0 THEN << >> ELSE g[k - 1] \o Pages(areas[k])
      <4>1. CASE k = m + 1
        <5>1. k # 0 /\ k - 1 = m /\ m \in 0 .. m + 1 /\ m # m + 1
          BY <4>1, SMT
        <5>2. g[k] = f[m] \o Pages(areas[m + 1]) /\ g[m] = f[m]
          BY <4>1, <5>1
        <5> QED  BY <4>1, <5>1, <5>2
      <4>2. CASE k # m + 1 /\ k # 0
        <5>1. k \in 0 .. m /\ k - 1 \in 0 .. m + 1 /\ k - 1 # m + 1
          BY <4>2, SMT
        <5>2. g[k] = f[k] /\ g[k - 1] = f[k - 1]
          BY <4>2, <5>1
        <5> QED  BY <3>2, <4>2, <5>1, <5>2
      <4>3. CASE k # m + 1 /\ k = 0
        <5>1. k \in 0 .. m
          BY <4>3, SMT
        <5> QED  BY <3>2, <4>3, <5>1
      <4> QED  BY <4>1, <4>2, <4>3
    <3>4. Good(g, m + 1)
      <4> HIDE DEF g
      <4>1. g = [k \in 0 .. m + 1 |-> g[k]]
        BY DEF g
      <4> QED  BY <3>3, <4>1
    <3>5. m + 1 \in Nat
      BY SMT
    <3> HIDE DEF g, Good
    <3> QED  BY <3>4, <3>5
  <2>3. n \in S
    <3> HIDE DEF S
    <3> QED  BY <2>1, <2>2, SetInduction
  <2>4. PICK f : Good(f, n)
    BY <2>3
  <2>5. f = [k \in 0 .. Len(areas) |-> IF k = 0 THEN << >> ELSE f[k - 1] \o Pages(areas[k])]
    BY <2>4
  <2>6. PICK u : /\ u = [k \in 0 .. Len(areas) |-> IF k = 0 THEN << >> ELSE u[k - 1] \o Pages(areas[k])]
                 /\ PagesOf(areas) = u[Len(areas)]
    BY <2>5 DEF PagesOf
  <2>7. \A k \in 0 .. n : u[k] = IF k = 0 THEN << >> ELSE u[k - 1] \o Pages(areas[k])
    BY <2>6
  <2>8. 0 \in 0 .. n /\ \A k \in 1 .. n : k \in 0 .. n /\ k # 0
    BY SMT
  <2> QED
    BY <2>6, <2>7, <2>8
(* So its members are the members of the areas' pages, with different      *)
(* addresses where the areas are apart.                                    *)
<1>PagesOfAreas.
    ASSUME NEW P, NEW areas, NEW n \in 0 .. 11, Len(areas) = n,
           \A k \in 1 .. n : Pages(areas[k]) \in Seq(P) /\ Distinct(Pages(areas[k])),
           \A j \in 1 .. n : \A k \in 1 .. n :
             \A x \in Range(Pages(areas[j])) : \A y \in Range(Pages(areas[k])) : x.va = y.va => j = k
    PROVE  /\ PagesOf(areas) \in Seq(P) /\ Distinct(PagesOf(areas))
           /\ \A x : x \in Range(PagesOf(areas)) <=> \E k \in 1 .. n : x \in Range(Pages(areas[k]))
  <2> USE <1>PagesOfAreas, Zenon
  <2>1. PICK u : /\ PagesOf(areas) = u[n]
                 /\ u[0] = << >>
                 /\ \A k \in 1 .. n : u[k] = u[k - 1] \o Pages(areas[k])
    BY <1>PagesJoined
  <2> DEFINE Good(k) == /\ u[k] \in Seq(P) /\ Distinct(u[k])
                        /\ \A x : x \in Range(u[k]) <=> \E j \in 1 .. k : x \in Range(Pages(areas[j]))
             S == { k \in Nat : k <= n => Good(k) }
  <2>2. Good(0)
    <3>1. DOMAIN << >> = {} /\ << >> \in Seq(P) /\ 1 .. 0 = {}
      BY SMT
    <3> QED  BY <2>1, <3>1 DEF Distinct, Range
  <2>3. ASSUME NEW k \in Nat, k + 1 <= n, Good(k) PROVE Good(k + 1)
    <3>1. /\ k + 1 \in 1 .. n /\ (k + 1) - 1 = k
          /\ 1 .. k + 1 = (1 .. k) \cup {k + 1}
          /\ \A j \in 1 .. k : j \in 1 .. n /\ j # k + 1
      BY <2>3, SMTT(30)
    <3> DEFINE new == Pages(areas[k + 1])
    <3>2. u[k + 1] = u[k] \o new
      BY <2>1, <3>1
    <3>3. new \in Seq(P) /\ Distinct(new)
      BY <3>1
    <3>4. \A x \in Range(u[k]) : \A y \in Range(new) : x.va # y.va
      BY <2>3, <3>1
    <3> HIDE DEF new
    <3>5. u[k + 1] \in Seq(P) /\ Distinct(u[k + 1]) /\ Range(u[k + 1]) = Range(u[k]) \cup Range(new)
      <4>1. /\ u[k] \o new \in Seq(P) /\ Range(u[k] \o new) = Range(u[k]) \cup Range(new)
            /\ Distinct(u[k] \o new)
        <5>1. PICK s : s = u[k]
          OBVIOUS
        <5>2. s \in Seq(P) /\ Distinct(s) /\ \A x \in Range(s) : \A y \in Range(new) : x.va # y.va
          BY <2>3, <3>4, <5>1
        <5>3. /\ s \o new \in Seq(P) /\ Range(s \o new) = Range(s) \cup Range(new)
              /\ Distinct(s \o new)
          BY <3>3, <5>2, <1>Concatenated, SMT
        <5> QED  BY <5>1, <5>3
      <4> QED  BY <3>2, <4>1
    <3>6. \A x : x \in Range(u[k + 1]) <=> \E j \in 1 .. k + 1 : x \in Range(Pages(areas[j]))
      BY <2>3, <3>1, <3>5 DEF new
    <3> QED  BY <3>5, <3>6
  <2> HIDE DEF Good
  <2>4. 0 \in S /\ \A k \in Nat : k \in S => k + 1 \in S
    BY <2>2, <2>3, SMTT(30)
  <2>5. Good(n)
    <3>1. n \in S
      <4> HIDE DEF S
      <4> QED  BY <2>4, SetInduction
    <3> QED  BY <3>1, SMT
  <2> QED
    BY <2>1, <2>5 DEF Good
<1> QED
  BY <1>PagesOfAreas, Zenon


\* addresses of pages
Aligned == { a \in Nat : a % PAGE_SIZE = 0 }

(* The number of an aligned address. *)
LEMMA AlignedNumber ==
  ASSUME NEW a \in Aligned
  PROVE  /\ get_number(a) \in Nat /\ a = get_base_addr(get_number(a)) /\ a \in Nat
         /\ PG_ROUND_DOWN(a) = a /\ PG_ROUND_UP(a) = a
<1>1. a \in Nat /\ a % 4096 = 0
  BY DEF Aligned, PAGE_SIZE
<1>2. a \div 4096 \in Nat /\ a = (a \div 4096) * 4096 /\ ((a + 4095) \div 4096) * 4096 = a
  BY <1>1, SMTT(30)
<1> QED
  BY <1>1, <1>2, Rounding DEF get_number, get_base_addr, PAGE_SIZE

(* Rounding up. *)
LEMMA RoundUp ==
  ASSUME NEW a \in Nat
  PROVE  /\ PG_ROUND_UP(a) \in Aligned /\ PG_ROUND_UP(a) >= a /\ PG_ROUND_UP(a) < a + PAGE_SIZE
         /\ \A b \in Aligned : a <= b => PG_ROUND_UP(a) <= b
<1>1. PG_ROUND_UP(a) = ((a + 4095) \div 4096) * 4096
  BY Rounding
<1>2. /\ ((a + 4095) \div 4096) * 4096 \in Nat /\ (((a + 4095) \div 4096) * 4096) % 4096 = 0
      /\ ((a + 4095) \div 4096) * 4096 >= a /\ ((a + 4095) \div 4096) * 4096 < a + 4096
  OBVIOUS
<1>3. ASSUME NEW b \in Nat, b % 4096 = 0, a <= b PROVE ((a + 4095) \div 4096) * 4096 <= b
  BY <1>3
<1> QED
  BY <1>1, <1>2, <1>3 DEF Aligned, PAGE_SIZE

(* Numbers are in the order of the addresses. *)
LEMMA NumberOrder ==
  ASSUME NEW a \in Aligned, NEW b \in Aligned
  PROVE  /\ a <= b => get_number(a) <= get_number(b)
         /\ a < b => get_number(a) < get_number(b)
         /\ a + PAGE_SIZE <= b => get_number(a) + 1 <= get_number(b)
         /\ a + PAGE_SIZE \in Aligned /\ get_number(a + PAGE_SIZE) = get_number(a) + 1
BY SMTT(30) DEF Aligned, get_number, PAGE_SIZE

-----------------------------------------------------------------------------

\* the pages that can be mapped
PageNumbers == 0 .. get_number(MAX_VA) - 1

PageSet == [ va : { get_base_addr(n) : n \in PageNumbers }, pa : { get_base_addr(m) : m \in Nat },
             flags : SUBSET PTEFlags ]

Page(n, frame, perms) ==
  [ va |-> get_base_addr(n), pa |-> get_base_addr(frame), flags |-> perms \cup {"VALID"} ]

(* The pages are pages. *)
LEMMA PageIsPage ==
  ASSUME NEW n \in PageNumbers, NEW m \in Nat, NEW perms \in SUBSET PTEFlags
  PROVE  Page(n, m, perms) \in PageSet
<1>1. perms \cup {"VALID"} \in SUBSET PTEFlags
  BY DEF PTEFlags, FlagBit
<1> QED
  BY <1>1, SMTT(20) DEF Page, PageSet

(* The address of a page tells which page it is. *)
LEMMA BaseInjective ==
  ASSUME NEW m \in Nat, NEW n \in Nat, get_base_addr(m) = get_base_addr(n)
  PROVE  m = n
BY DEF get_base_addr, PAGE_SIZE

(* Different pages have different index paths. *)
LEMMA PathsOfPages ==
  \A m \in PageNumbers : \A n \in PageNumbers :
    Path(get_base_addr(m)) = Path(get_base_addr(n)) => m = n
(* Quotient and remainder. *)
<1>DivMod.
    ASSUME NEW n \in Nat, NEW d \in Nat \ {0}
    PROVE  n \div d \in Nat /\ (n % d) \in 0 .. d - 1 /\ n = d * (n \div d) + (n % d)
  BY <1>DivMod
(* They are the only ones. *)
<1>DivIs.
    ASSUME NEW d \in Nat \ {0}, NEW q \in Nat, NEW r \in 0 .. d - 1, NEW n \in Nat, n = d * q + r
    PROVE  n \div d = q
  <2> USE <1>DivIs
  <2> DEFINE p == n \div d
  <2>1. p \in Nat /\ (n % d) \in 0 .. d - 1 /\ n = d * p + (n % d)
    BY <1>DivMod, Zenon
  <2> HIDE DEF p
  <2>2. d * p \in Nat /\ d * q \in Nat
    BY <2>1
  <2>3. p >= q + 1 => d * p >= d * q + d
    BY <2>1
  <2>4. q >= p + 1 => d * q >= d * p + d
    BY <2>1, SMTT(30)
  <2>5. p = q
    BY <2>1, <2>2, <2>3, <2>4
  <2> QED
    BY <2>5 DEF p
(* Two divisions are one. *)
<1>DivDiv.
    ASSUME NEW n \in Nat, NEW w \in Nat \ {0}
    PROVE  n \div (w * w) = (n \div w) \div w
  <2> USE <1>DivDiv
  <2> DEFINE q == n \div w  c == n % w  r == q \div w  b == q % w
  <2>1. q \in Nat /\ c \in 0 .. w - 1 /\ n = w * q + c
    BY <1>DivMod, Zenon
  <2>2. r \in Nat /\ b \in 0 .. w - 1 /\ q = w * r + b
    BY <2>1, <1>DivMod, Zenon
  <2> HIDE DEF q, c, r, b
  <2>3. w * q = (w * w) * r + w * b
    BY <2>2
  <2>4. w * b <= w * w - w /\ w * b \in Nat
    BY <2>2
  <2>5. w * b + c \in 0 .. w * w - 1 /\ w * w \in Nat \ {0}
    BY <2>1, <2>4, SMTT(30)
  <2>6. n = (w * w) * r + (w * b + c)
    BY <2>1, <2>2, <2>3, SMTT(30)
  <2>7. n \div (w * w) = r
    BY <2>2, <2>5, <2>6, <1>DivIs
  <2> QED
    BY <2>7 DEF r, q
(* The path of a page is its number, digit by digit. *)
<1>PathOf.
    ASSUME NEW n \in Nat
    PROVE  Path(get_base_addr(n)) =
             << ((n \div Fanout) \div Fanout) % Fanout, (n \div Fanout) % Fanout, n % Fanout >>
  <2> USE <1>PathOf
  <2>1. 1 * VA_INDEX_WIDTH = VA_INDEX_WIDTH /\ 0 * VA_INDEX_WIDTH = 0
    BY ArithmeticsAssumption
  <2>2. 2^0 = 1
    OBVIOUS
  <2>3. Fanout \in Nat \ {0}
    BY PowersAssumption DEF Fanout
  <2>4. /\ 2^(2 * VA_INDEX_WIDTH) = Fanout * Fanout
        /\ 2^(1 * VA_INDEX_WIDTH) = Fanout /\ 2^(0 * VA_INDEX_WIDTH) = 1
    BY <2>1, <2>2, PowersAssumption, Zenon DEF Fanout
  <2>5. get_number(PG_ROUND_DOWN(get_base_addr(n))) = n
    BY PageNumber, Zenon
  <2>6. n \div 1 = n
    OBVIOUS
  <2>7. n \div (Fanout * Fanout) = (n \div Fanout) \div Fanout
    BY <2>3, <1>DivDiv, Zenon
  <2>8. \A l : pte_index(get_base_addr(n), l) = (n \div 2^(l * VA_INDEX_WIDTH)) % Fanout
    BY <2>5, Zenon DEF pte_index, Fanout
  <2> QED
    BY <2>4, <2>6, <2>7, <2>8, Zenon DEF Path
(* Two pages of the address space have different paths. *)
<1>PathsDiffer.
    ASSUME NEW m \in Nat, NEW n \in Nat,
           m < Fanout * Fanout * Fanout, n < Fanout * Fanout * Fanout,
           Path(get_base_addr(m)) = Path(get_base_addr(n))
    PROVE  m = n
  <2> USE <1>PathsDiffer, Zenon
  <2>1. PICK w : w = Fanout
    OBVIOUS
  <2>2. w \in Nat \ {0}
    BY <2>1, PowersAssumption DEF Fanout
  <2>3. ASSUME NEW k \in Nat, k < w * w * w
        PROVE  /\ k \div w \in Nat /\ (k \div w) \div w \in Nat
               /\ k = w * (k \div w) + (k % w)
               /\ k \div w = w * ((k \div w) \div w) + ((k \div w) % w)
               /\ ((k \div w) \div w) % w = (k \div w) \div w
    <3> DEFINE q == k \div w  r == q \div w
    <3>1. q \in Nat /\ k = w * q + (k % w) /\ k % w \in 0 .. w - 1
      BY <2>2, <1>DivMod
    <3>2. r \in Nat /\ q = w * r + (q % w) /\ q % w \in 0 .. w - 1
      BY <2>2, <3>1, <1>DivMod
    <3> HIDE DEF q, r
    <3>3. r < w
      <4> SUFFICES ASSUME r >= w PROVE FALSE
        BY <2>2, <3>2, SMTT(30)
      <4>1. w * r >= w * w /\ w * r \in Nat /\ w * w \in Nat
        BY <2>2, <3>2, SMTT(30)
      <4>2. q >= w * w
        BY <3>2, <4>1, SMTT(30)
      <4>3. w * q >= w * (w * w) /\ w * q \in Nat
        BY <2>2, <3>1, <4>1, <4>2, SMTT(30)
      <4>4. w * (w * w) = w * w * w
        BY <2>2, SMTT(30)
      <4> QED  BY <2>2, <2>3, <3>1, <4>3, <4>4, SMTT(30)
    <3>4. r % w = r
      BY <2>2, <3>2, <3>3, SMT
    <3> QED  BY <3>1, <3>2, <3>4 DEF q, r
  <2>4. /\ Path(get_base_addr(m)) = << ((m \div w) \div w) % w, (m \div w) % w, m % w >>
        /\ Path(get_base_addr(n)) = << ((n \div w) \div w) % w, (n \div w) % w, n % w >>
    BY <2>1, <1>PathOf
  <2>5. /\ ((m \div w) \div w) % w = ((n \div w) \div w) % w
        /\ (m \div w) % w = (n \div w) % w /\ m % w = n % w
    <3>1. \A a1, b1, c1, a2, b2, c2 :
            << a1, b1, c1 >> = << a2, b2, c2 >> => a1 = a2 /\ b1 = b2 /\ c1 = c2
      OBVIOUS
    <3>2. << ((m \div w) \div w) % w, (m \div w) % w, m % w >>
          = << ((n \div w) \div w) % w, (n \div w) % w, n % w >>
      BY <2>4
    <3> QED  BY <3>1, <3>2
  <2>6. m < w * w * w /\ n < w * w * w
    BY <2>1
  <2>7. (m \div w) \div w = (n \div w) \div w
    BY <2>3, <2>5, <2>6
  <2>8. m \div w = n \div w
    BY <2>3, <2>5, <2>6, <2>7
  <2> QED
    BY <2>3, <2>5, <2>6, <2>8
(* Different pages have different paths. *)
<1>PathsOfPages.
    ASSUME NEW m \in PageNumbers, NEW n \in PageNumbers,
           Path(get_base_addr(m)) = Path(get_base_addr(n))
    PROVE  m = n
  <2> USE <1>PathsOfPages
  <2>1. PICK w : w = Fanout
    BY Zenon
  <2>2. w \in Nat /\ get_number(MAX_VA) \in Nat /\ get_number(MAX_VA) <= w * w * w
    BY <2>1, PowersAssumption, SMTT(30) DEF Fanout, get_number, PAGE_SIZE
  <2>3. m \in Nat /\ n \in Nat /\ m < w * w * w /\ n < w * w * w
    <3>1. PICK c : c = w * w * w
      BY Zenon
    <3>2. c \in Nat
      BY <2>2, <3>1
    <3> QED  BY <2>2, <3>1, <3>2 DEF PageNumbers
  <2> QED
    BY <2>1, <2>3, <1>PathsDiffer, Zenon
<1> QED
  BY <1>PathsOfPages, Zenon

(* Pages with the same index path have the same address. *)
LEMMA PathsOfMembers ==
  ASSUME NEW x \in PageSet, NEW y \in PageSet, Path(x.va) = Path(y.va)
  PROVE  x.va = y.va
<1>1. PICK m \in PageNumbers : x.va = get_base_addr(m)
  BY DEF PageSet
<1>2. PICK n \in PageNumbers : y.va = get_base_addr(n)
  BY DEF PageSet
<1> QED
  BY <1>1, <1>2, PathsOfPages, Zenon

(* An area with one tracked frame. *)
LEMMA TrackedPages ==
  ASSUME NEW n \in PageNumbers, NEW frame \in Nat, NEW perms \in SUBSET PTEFlags, NEW va_begin,
         NEW va_end, NEW owned, n = get_number(va_begin), NEW area,
         area = VirtArea(va_begin, va_end, perms, << << n, frame >> >>, owned)
  PROVE  /\ Pages(area) = << Page(n, frame, perms) >>
         /\ Pages(area) \in Seq(PageSet) /\ Distinct(Pages(area))
         /\ \A x : x \in Range(Pages(area)) <=> x = Page(n, frame, perms)
<1>1. area.identical = FALSE /\ area.frames = << << n, frame >> >> /\ area.perms = perms
  BY SMTT(20) DEF VirtArea
<1>2. DOMAIN area.frames = {1} /\ area.frames[1][1] = n /\ area.frames[1][2] = frame
  BY <1>1
<1>3. Pages(area) = [k \in {1} |-> Page(area.frames[k][1], area.frames[k][2], perms)]
  BY <1>1, <1>2, Zenon DEF Pages, Page
<1>4. PICK s : s = Pages(area)
  BY Zenon
<1>5. DOMAIN s = {1} /\ s[1] = Page(n, frame, perms)
  BY <1>2, <1>3, <1>4, ZenonT(40)
<1>6. s = << Page(n, frame, perms) >>
  BY <1>3, <1>4, <1>5, SMTT(30)
<1>7. s \in Seq(PageSet)
  BY <1>6, PageIsPage, SMTT(20)
<1>8. Distinct(s) /\ \A x : x \in Range(s) <=> x = Page(n, frame, perms)
  BY <1>5 DEF Distinct, Range
<1> QED
  BY <1>4, <1>6, <1>7, <1>8, ZenonT(40)

\* the areas of the kernel, from the top of the address space down
SectionStart ==
  << TRAMPOLINE_BASE_VA, kernel_stack_end(image), bss_end(image), data_end(image),
     rodata_end(image), text_end(image), KERNEL_BASE, VIRTIO_BASE, UART_BASE, PLIC_BASE,
     CLINT_BASE >>

SectionEnd ==
  << MAX_VA, heap_end(image), kernel_stack_end(image), bss_end(image), data_end(image),
     rodata_end(image), text_end(image), VIRTIO_BASE + PAGE_SIZE, UART_BASE + PAGE_SIZE,
     PLIC_BASE + PLIC_SIZE, CLINT_BASE + CLINT_SIZE >>

SectionPerms == << RX, RW, RW, RW, RW, {"READABLE"}, RX, RW, RW, RW, RW >>

\* the page numbers of an area
SectionPages(k) ==
  get_number(SectionStart[k]) .. get_number(PG_ROUND_UP(SectionEnd[k])) - 1

(* The sections start on pages, and are in order. *)
LEMMA Addresses ==
  ASSUME image \in Images
  PROVE  /\ CLINT_BASE \in Aligned /\ PLIC_BASE \in Aligned /\ UART_BASE \in Aligned
         /\ VIRTIO_BASE \in Aligned /\ KERNEL_BASE \in Aligned /\ TEXT_BASE_USER_VA \in Aligned
         /\ CLINT_SIZE \in Nat /\ PLIC_SIZE \in Nat
         /\ trampoline_start(image) \in Aligned /\ text_end(image) \in Aligned
         /\ rodata_end(image) \in Aligned /\ data_end(image) \in Aligned
         /\ bss_end(image) \in Aligned /\ kernel_stack_end(image) \in Aligned
         /\ heap_end(image) \in Aligned /\ TRAPFRAME_BASE_USER_VA \in Aligned
         /\ TRAMPOLINE_BASE_VA \in Aligned /\ MAX_VA \in Aligned
         /\ CLINT_BASE + CLINT_SIZE <= PLIC_BASE /\ PLIC_BASE + PLIC_SIZE <= UART_BASE
         /\ UART_BASE + PAGE_SIZE <= VIRTIO_BASE /\ VIRTIO_BASE + PAGE_SIZE <= KERNEL_BASE
         /\ KERNEL_BASE <= trampoline_start(image)
         /\ trampoline_start(image) + PAGE_SIZE <= text_end(image)
         /\ text_end(image) <= rodata_end(image) /\ rodata_end(image) <= data_end(image)
         /\ data_end(image) <= bss_end(image) /\ bss_end(image) <= kernel_stack_end(image)
         /\ kernel_stack_end(image) <= heap_end(image)
         /\ heap_end(image) <= TRAPFRAME_BASE_USER_VA
         /\ TRAMPOLINE_BASE_VA = TRAPFRAME_BASE_USER_VA + PAGE_SIZE + PAGE_SIZE
         /\ MAX_VA = TRAMPOLINE_BASE_VA + PAGE_SIZE
<1>1. PICK i : i = image
  BY Zenon
<1>2. /\ KERNEL_BASE \in Nat /\ BOOT_STACKS \in Nat /\ UART_BASE \in Nat /\ VIRTIO_BASE \in Nat
      /\ CLINT_BASE \in Nat /\ CLINT_SIZE \in Nat /\ PLIC_BASE \in Nat /\ PLIC_SIZE \in Nat
      /\ TEXT_BASE_USER_VA \in Nat
      /\ CLINT_BASE + CLINT_SIZE <= PLIC_BASE /\ PLIC_BASE + PLIC_SIZE <= UART_BASE
      /\ UART_BASE + PAGE_SIZE <= VIRTIO_BASE /\ VIRTIO_BASE + PAGE_SIZE <= KERNEL_BASE
  BY LayoutAssumption, Zenon
<1>3. /\ i.init \in Nat /\ i.trampoline \in Nat /\ i.text \in Nat /\ i.rodata \in Nat
      /\ i.data \in Nat /\ i.bss \in Nat /\ i.ram \in Nat
      /\ i.trampoline \in 1 .. PAGE_SIZE
      /\ kernel_stack_end(i) <= heap_end(i) /\ heap_end(i) <= TRAPFRAME_BASE_USER_VA
  BY <1>1, LayoutAssumption, Zenon
<1>17. /\ KERNEL_BASE \in Aligned /\ BOOT_STACKS \in Aligned /\ UART_BASE \in Aligned
       /\ VIRTIO_BASE \in Aligned /\ CLINT_BASE \in Aligned /\ PLIC_BASE \in Aligned
       /\ TEXT_BASE_USER_VA \in Aligned /\ i.ram \in Aligned
  BY <1>1, <1>2, <1>3, LayoutAssumption, Zenon DEF Aligned
<1>4. \A a \in Aligned : a \in Nat
  BY SMTT(30) DEF Aligned
<1>5. trampoline_start(i) \in Aligned /\ KERNEL_BASE <= trampoline_start(i)
  <2>1. KERNEL_BASE + i.init \in Nat /\ KERNEL_BASE <= KERNEL_BASE + i.init
    BY <1>2, <1>3, SMTT(30)
  <2>2. trampoline_start(i) \in Aligned /\ KERNEL_BASE + i.init <= trampoline_start(i)
    BY <2>1, RoundUp, SMTT(30) DEF trampoline_start
  <2> QED  BY <1>2, <1>3, <1>4, <2>1, <2>2, SMTT(30)
<1>6. trampoline_end(i) \in Aligned /\ trampoline_start(i) + PAGE_SIZE <= trampoline_end(i)
  <2>1. trampoline_end(i) \in Aligned /\ trampoline_start(i) + i.trampoline <= trampoline_end(i)
    BY <1>3, <1>4, <1>5, RoundUp, SMTT(30) DEF trampoline_end
  <2>2. trampoline_start(i) + 1 <= trampoline_end(i)
    <3>1. i.trampoline \in Nat /\ i.trampoline >= 1 /\ trampoline_start(i) \in Nat
          /\ trampoline_end(i) \in Nat
      <4>1. i.trampoline \in 1 .. PAGE_SIZE
        BY <1>3, Zenon
      <4>2. i.trampoline \in Nat /\ i.trampoline >= 1
        <5>1. PAGE_SIZE \in Nat
          BY SMTT(30) DEF PAGE_SIZE
        <5> QED  BY <4>1, <5>1
      <4> QED  BY <1>4, <1>5, <2>1, <4>2, Zenon
    <3> QED  BY <2>1, <3>1
  <2> QED  BY <1>5, <2>1, <2>2, SMTT(30) DEF Aligned, PAGE_SIZE
<1>7. text_end(i) \in Aligned /\ trampoline_end(i) <= text_end(i)
  BY <1>3, <1>4, <1>6, RoundUp, SMTT(30) DEF text_end
<1>8. rodata_end(i) \in Aligned /\ text_end(i) <= rodata_end(i)
  BY <1>3, <1>4, <1>7, RoundUp, SMTT(30) DEF rodata_end
<1>9. data_end(i) \in Aligned /\ rodata_end(i) <= data_end(i)
  BY <1>3, <1>4, <1>8, RoundUp, SMTT(30) DEF data_end
<1>10. bss_end(i) \in Aligned /\ data_end(i) <= bss_end(i)
  BY <1>3, <1>4, <1>9, RoundUp, SMTT(30) DEF bss_end
<1>11. kernel_stack_end(i) \in Aligned /\ bss_end(i) <= kernel_stack_end(i)
  BY <1>10, <1>17 DEF kernel_stack_end, Aligned, PAGE_SIZE
<1>12. heap_end(i) \in Aligned
  BY <1>17 DEF heap_end, Aligned, PAGE_SIZE
<1>13. MAX_VA \in Nat /\ MAX_VA % PAGE_SIZE = 0
  BY PowersAssumption
<1>14. /\ TRAMPOLINE_BASE_VA = TRAPFRAME_BASE_USER_VA + PAGE_SIZE + PAGE_SIZE
       /\ MAX_VA = TRAMPOLINE_BASE_VA + PAGE_SIZE
       /\ TRAPFRAME_BASE_USER_VA \in Aligned /\ TRAMPOLINE_BASE_VA \in Aligned /\ MAX_VA \in Aligned
  <2>1. heap_end(i) \in Nat
    BY <1>12 DEF Aligned
  <2>2. PICK m \in Nat : m = MAX_VA
    BY <1>13
  <2>3. TRAMPOLINE_BASE_VA = m - 4096 /\ TRAPFRAME_BASE_USER_VA = m - 4096 - 2 * 4096
    BY <2>2 DEF TRAMPOLINE_BASE_VA, TRAPFRAME_BASE_USER_VA, PAGE_SIZE
  <2>4. m - 4096 - 2 * 4096 >= 0 /\ m % 4096 = 0
    <3>1. heap_end(i) <= m - 4096 - 2 * 4096
      <4>1. heap_end(i) <= TRAPFRAME_BASE_USER_VA
        BY <1>3, Zenon
      <4> QED  BY <2>3, <4>1
    <3>2. m % 4096 = 0
      BY <1>13, <2>2, SMTT(30) DEF PAGE_SIZE
    <3> QED  BY <2>1, <2>2, <3>1, <3>2, SMTT(30)
  <2> QED  BY <2>2, <2>3, <2>4 DEF Aligned, PAGE_SIZE
<1>16. trampoline_start(i) + PAGE_SIZE <= text_end(i)
  BY <1>4, <1>5, <1>6, <1>7, SMTT(20) DEF PAGE_SIZE
<1> QED
  BY <1>1, <1>2, <1>3, <1>5, <1>7, <1>8, <1>9, <1>10, <1>11, <1>12, <1>14, <1>16, <1>17, Zenon

(* So the areas of the kernel are apart. *)
LEMMA Sections ==
  ASSUME image \in Images
  PROVE  /\ \A k \in 1 .. 11 : /\ SectionStart[k] \in Aligned /\ SectionEnd[k] \in Nat
                               /\ SectionStart[k] <= SectionEnd[k] /\ SectionEnd[k] <= MAX_VA
                               /\ SectionPerms[k] \in SUBSET PTEFlags
         /\ \A j \in 1 .. 11 : \A k \in 1 .. 11 : j < k => SectionEnd[k] <= SectionStart[j]
<1>1. PICK c, cs, p, ps, u, v, b, ts, t, r, d, s, e, h, tf, tr, m :
        /\ c = CLINT_BASE /\ cs = CLINT_SIZE /\ p = PLIC_BASE /\ ps = PLIC_SIZE /\ u = UART_BASE
        /\ v = VIRTIO_BASE /\ b = KERNEL_BASE /\ ts = trampoline_start(image)
        /\ t = text_end(image) /\ r = rodata_end(image) /\ d = data_end(image)
        /\ s = bss_end(image) /\ e = kernel_stack_end(image) /\ h = heap_end(image)
        /\ tf = TRAPFRAME_BASE_USER_VA /\ tr = TRAMPOLINE_BASE_VA /\ m = MAX_VA
  BY Zenon
<1>2. \A a \in Aligned : a \in Nat
  BY DEF Aligned
<1>3. /\ c \in Nat /\ cs \in Nat /\ p \in Nat /\ ps \in Nat /\ u \in Nat /\ v \in Nat /\ b \in Nat
      /\ ts \in Nat /\ t \in Nat /\ r \in Nat /\ d \in Nat /\ s \in Nat /\ e \in Nat /\ h \in Nat
      /\ tf \in Nat /\ tr \in Nat /\ m \in Nat
  BY <1>1, <1>2, Addresses, Zenon
<1>4. /\ c \in Aligned /\ p \in Aligned /\ u \in Aligned /\ v \in Aligned /\ b \in Aligned
      /\ t \in Aligned /\ r \in Aligned /\ d \in Aligned /\ s \in Aligned
      /\ e \in Aligned /\ tr \in Aligned
  BY <1>1, Addresses, Zenon
<1>5. /\ c + cs <= p /\ p + ps <= u /\ u + PAGE_SIZE <= v /\ v + PAGE_SIZE <= b
      /\ b <= ts /\ ts + PAGE_SIZE <= t /\ t <= r /\ r <= d /\ d <= s /\ s <= e /\ e <= h /\ h <= tf
      /\ tr = tf + PAGE_SIZE + PAGE_SIZE /\ m = tr + PAGE_SIZE
  BY <1>1, Addresses, Zenon
<1>6. /\ c <= c + cs /\ c + cs <= p /\ p <= p + ps /\ p + ps <= u /\ u <= u + PAGE_SIZE
      /\ u + PAGE_SIZE <= v /\ v <= v + PAGE_SIZE /\ v + PAGE_SIZE <= b /\ b <= t /\ t <= r /\ r <= d
      /\ d <= s /\ s <= e /\ e <= h /\ h <= tr /\ tr <= m
      /\ c + cs \in Nat /\ p + ps \in Nat /\ u + PAGE_SIZE \in Nat /\ v + PAGE_SIZE \in Nat
  BY <1>3, <1>5 DEF PAGE_SIZE
<1>7. PICK c1, p1, u1, v1 : c1 = c + cs /\ p1 = p + ps /\ u1 = u + PAGE_SIZE /\ v1 = v + PAGE_SIZE
  BY Zenon
<1>8. /\ SectionStart = << tr, e, s, d, r, t, b, v, u, p, c >>
      /\ SectionEnd = << m, h, e, s, d, r, t, v1, u1, p1, c1 >>
  BY <1>1, <1>7, Zenon DEF SectionStart, SectionEnd
<1>9. \A k \in 1 .. 11 : k \in {1, 2, 3, 4, 5, 6, 7, 8, 9, 10, 11}
  BY SMTT(30)
<1>10. ASSUME NEW k \in 1 .. 11
       PROVE  /\ SectionStart[k] \in Aligned /\ SectionEnd[k] \in Nat
              /\ SectionStart[k] <= SectionEnd[k] /\ SectionEnd[k] <= MAX_VA
  <2>1. SectionStart[k] \in Aligned
    BY <1>4, <1>8, <1>9, SMTT(30)
  <2>2. SectionEnd[k] \in Nat
    BY <1>3, <1>6, <1>7, <1>8, <1>9, SMTT(30)
  <2>3. SectionStart[k] <= SectionEnd[k]
    BY <1>3, <1>6, <1>7, <1>8, <1>9, SMTT(30)
  <2>4. SectionEnd[k] <= m
    BY <1>3, <1>6, <1>7, <1>8, <1>9, SMTT(20)
  <2> QED  BY <1>1, <2>1, <2>2, <2>3, <2>4, SMTT(30)
<1>11. ASSUME NEW k \in 1 .. 11 PROVE SectionPerms[k] \in SUBSET PTEFlags
  BY <1>9, SMTT(30) DEF SectionPerms, RX, RW, PTEFlags, FlagBit
<1>12. ASSUME NEW j \in 1 .. 11, NEW k \in 1 .. 11, j < k PROVE SectionEnd[k] <= SectionStart[j]
  <2>1. \A x \in 1 .. 10 : SectionEnd[x + 1] <= SectionStart[x]
    BY <1>3, <1>6, <1>7, <1>8, <1>9, SMTT(30)
  <2> DEFINE S == { n \in Nat : j + 1 + n <= 11 => SectionEnd[j + 1 + n] <= SectionStart[j] }
  <2>2. 0 \in S
    <3>1. j + 1 + 0 = j + 1 /\ j \in 1 .. 10
      BY <1>12, SMTT(30)
    <3> QED  BY <2>1, <3>1
  <2>3. ASSUME NEW n \in Nat, n \in S PROVE n + 1 \in S
    <3> SUFFICES ASSUME j + 1 + (n + 1) <= 11
                 PROVE  SectionEnd[j + 1 + (n + 1)] <= SectionStart[j]
      OBVIOUS
    <3>1. PICK x : x = j + 1 + n
      BY Zenon
    <3>2. x \in 1 .. 10 /\ j + 1 + (n + 1) = x + 1 /\ x \in 1 .. 11 /\ x + 1 \in 1 .. 11
      BY <3>1, SMTT(30)
    <3>3. SectionEnd[x] <= SectionStart[j]
      BY <2>3, <3>1, <3>2, SMTT(30)
    <3>4. SectionEnd[x + 1] <= SectionStart[x] /\ SectionStart[x] <= SectionEnd[x]
      BY <1>10, <2>1, <3>2, SMTT(30)
    <3>5. /\ SectionEnd[x + 1] \in Nat /\ SectionStart[x] \in Nat /\ SectionEnd[x] \in Nat
          /\ SectionStart[j] \in Nat
      BY <1>2, <1>10, <3>2, SMTT(30)
    <3> QED  BY <3>2, <3>3, <3>4, <3>5, SMTT(30)
  <2>4. k - j - 1 \in S
    <3> HIDE DEF S
    <3>1. k - j - 1 \in Nat
      BY <1>12
    <3> QED  BY <2>2, <2>3, <3>1, SetInduction, SMTT(30)
  <2>5. j + 1 + (k - j - 1) = k
    OBVIOUS
  <2> QED  BY <2>4, <2>5, SMTT(30)
<1> QED
  BY <1>10, <1>11, <1>12

TrampolinePage ==
  Page(get_number(TRAMPOLINE_BASE_VA), get_number(trampoline_start(image)), RX)

(* No page is in two areas. *)
LEMMA SectionsApart ==
  ASSUME image \in Images, NEW j \in 1 .. 11, NEW k \in 1 .. 11,
         NEW n \in SectionPages(j), n \in SectionPages(k)
  PROVE  j = k
<1> USE Zenon
<1>1. ASSUME NEW x \in 1 .. 11, NEW y \in 1 .. 11, x < y
      PROVE  get_number(PG_ROUND_UP(SectionEnd[y])) <= get_number(SectionStart[x])
  <2>1. SectionEnd[y] \in Nat /\ SectionStart[x] \in Aligned /\ SectionEnd[y] <= SectionStart[x]
    BY <1>1, Sections
  <2>2. PG_ROUND_UP(SectionEnd[y]) \in Aligned /\ PG_ROUND_UP(SectionEnd[y]) <= SectionStart[x]
    BY <2>1, RoundUp
  <2> QED  BY <2>1, <2>2, NumberOrder
<1>2. ASSUME NEW x \in 1 .. 11
      PROVE  /\ get_number(PG_ROUND_UP(SectionEnd[x])) \in Nat
             /\ get_number(SectionStart[x]) \in Nat
  <2>1. SectionEnd[x] \in Nat /\ SectionStart[x] \in Aligned
    BY Sections
  <2>2. PG_ROUND_UP(SectionEnd[x]) \in Aligned
    BY <2>1, RoundUp
  <2> QED  BY <2>1, <2>2, AlignedNumber
<1>3. ~(j < k)
  <2> SUFFICES ASSUME j < k PROVE FALSE
    OBVIOUS
  <2>1. get_number(PG_ROUND_UP(SectionEnd[k])) <= get_number(SectionStart[j])
    BY <1>1
  <2>2. /\ get_number(PG_ROUND_UP(SectionEnd[k])) \in Nat /\ get_number(SectionStart[j]) \in Nat
        /\ get_number(PG_ROUND_UP(SectionEnd[j])) \in Nat /\ get_number(SectionStart[k]) \in Nat
    BY <1>2
  <2> QED  BY <2>1, <2>2, SMT DEF SectionPages
<1>4. ~(k < j)
  <2> SUFFICES ASSUME k < j PROVE FALSE
    OBVIOUS
  <2>1. get_number(PG_ROUND_UP(SectionEnd[j])) <= get_number(SectionStart[k])
    BY <1>1
  <2>2. /\ get_number(PG_ROUND_UP(SectionEnd[k])) \in Nat /\ get_number(SectionStart[j]) \in Nat
        /\ get_number(PG_ROUND_UP(SectionEnd[j])) \in Nat /\ get_number(SectionStart[k]) \in Nat
    BY <1>2
  <2> QED  BY <2>1, <2>2, SMT DEF SectionPages
<1> QED
  BY <1>3, <1>4, SMT

(* Where the sections are. *)
LEMMA SectionPlaces ==
  ASSUME image \in Images
  PROVE  /\ SectionPages(1) = {get_number(TRAMPOLINE_BASE_VA)}
         /\ SectionPages(2) = Heap(image)
         /\ get_number(trampoline_start(image)) \in SectionPages(7)
         /\ \A k \in 1 .. 11 : SectionPages(k) \subseteq PageNumbers
         /\ PageNumbers \subseteq Nat
<1> USE Zenon
<1>1. ASSUME NEW k \in 1 .. 11 PROVE SectionPages(k) \subseteq PageNumbers
  <2>1. /\ SectionEnd[k] \in Nat /\ SectionStart[k] \in Aligned /\ SectionEnd[k] <= MAX_VA
        /\ MAX_VA \in Aligned
    BY Sections, Addresses
  <2>2. PG_ROUND_UP(SectionEnd[k]) \in Aligned /\ PG_ROUND_UP(SectionEnd[k]) <= MAX_VA
    BY <2>1, RoundUp
  <2>3. get_number(PG_ROUND_UP(SectionEnd[k])) <= get_number(MAX_VA)
    BY <2>1, <2>2, NumberOrder
  <2>4. /\ get_number(PG_ROUND_UP(SectionEnd[k])) \in Nat /\ get_number(SectionStart[k]) \in Nat
        /\ get_number(MAX_VA) \in Nat
    BY <2>1, <2>2, AlignedNumber
  <2> QED  BY <2>3, <2>4, SMT DEF SectionPages, PageNumbers
<1>2. PageNumbers \subseteq Nat
  <2>1. get_number(MAX_VA) \in Nat
    BY Addresses, AlignedNumber
  <2> QED  BY <2>1, SMT DEF PageNumbers
<1>3. SectionPages(1) = {get_number(TRAMPOLINE_BASE_VA)}
  <2>1. SectionStart[1] = TRAMPOLINE_BASE_VA /\ SectionEnd[1] = MAX_VA
    BY DEF SectionStart, SectionEnd
  <2>2. /\ PG_ROUND_UP(MAX_VA) = MAX_VA /\ get_number(MAX_VA) = get_number(TRAMPOLINE_BASE_VA) + 1
        /\ get_number(TRAMPOLINE_BASE_VA) \in Nat
    BY Addresses, AlignedNumber, NumberOrder
  <2> QED  BY <2>1, <2>2, SMT DEF SectionPages
<1>4. SectionPages(2) = Heap(image)
  <2>1. SectionStart[2] = kernel_stack_end(image) /\ SectionEnd[2] = heap_end(image)
    BY DEF SectionStart, SectionEnd
  <2>2. PG_ROUND_UP(heap_end(image)) = heap_end(image)
    BY Addresses, AlignedNumber, ZenonT(40)
  <2> QED  BY <2>1, <2>2 DEF SectionPages, Heap
<1>5. get_number(trampoline_start(image)) \in SectionPages(7)
  <2>1. SectionStart[7] = KERNEL_BASE /\ SectionEnd[7] = text_end(image)
    BY DEF SectionStart, SectionEnd
  <2>2. PG_ROUND_UP(text_end(image)) = text_end(image)
    BY Addresses, AlignedNumber
  <2>3. /\ get_number(KERNEL_BASE) <= get_number(trampoline_start(image))
        /\ get_number(trampoline_start(image)) + 1 <= get_number(text_end(image))
    BY Addresses, NumberOrder
  <2>4. /\ get_number(KERNEL_BASE) \in Nat /\ get_number(trampoline_start(image)) \in Nat
        /\ get_number(text_end(image)) \in Nat
    BY Addresses, AlignedNumber
  <2> QED  BY <2>1, <2>2, <2>3, <2>4, SMTT(30) DEF SectionPages
<1> QED
  BY <1>1, <1>2, <1>3, <1>4, <1>5

(* The pages of the kernel's areas: the trampoline, and the sections, each *)
(* page to the frame of the same number, with the section's permissions.  *)
LEMMA KernelPages ==
  \A pages : image \in Images /\ pages = PagesOf(kernel_areas) =>
    /\ pages \in Seq(PageSet) /\ Distinct(pages)
    /\ TrampolinePage \in Range(pages)
    /\ \A f \in Heap(image) : Page(f, f, RW) \in Range(pages)
    /\ \A x \in Range(pages) : get_number(x.pa) \in Heap(image) =>
                                  x = Page(get_number(x.pa), get_number(x.pa), RW)
    /\ \A x \in Range(pages) : "USER" \notin x.flags
    /\ \A x \in Range(pages) : \A y \in Range(pages) :
         "WRITABLE" \in x.flags /\ "EXECUTABLE" \in y.flags => get_number(x.pa) # get_number(y.pa)
(* map_virt_area_allocate on an identically mapped area. *)
<1>IdenticalPages.
    ASSUME NEW a \in Aligned, NEW b \in Nat, a <= b, PG_ROUND_UP(b) <= MAX_VA,
           NEW perms \in SUBSET PTEFlags
    PROVE  /\ Pages(identically_mapped(a, b, perms)) \in Seq(PageSet)
           /\ Distinct(Pages(identically_mapped(a, b, perms)))
           /\ \A x : x \in Range(Pages(identically_mapped(a, b, perms))) <=>
                       \E n \in get_number(a) .. get_number(PG_ROUND_UP(b)) - 1 :
                         x = Page(n, n, perms)
  <2> USE <1>IdenticalPages
  <2>1. PICK from, to : from = get_number(a) /\ to = get_number(PG_ROUND_UP(b))
    BY Zenon
  <2>2. PG_ROUND_UP(b) \in Aligned /\ a <= PG_ROUND_UP(b) /\ MAX_VA \in Aligned
    BY RoundUp, PowersAssumption, SMTT(30) DEF Aligned
  <2>3. from \in Nat /\ to \in Nat /\ from <= to /\ to <= get_number(MAX_VA)
        /\ get_number(MAX_VA) \in Nat
    BY <2>1, <2>2, AlignedNumber, NumberOrder
  <2>4. Pages(identically_mapped(a, b, perms))
          = [k \in 1 .. to - from |-> Page(from + k - 1, from + k - 1, perms)]
    <3>1. PICK area : area = identically_mapped(a, b, perms)
      BY Zenon
    <3>2. area.identical = TRUE /\ area.begin = from /\ area.end = to /\ area.perms = perms
      BY <2>1, <3>1, AlignedNumber DEF identically_mapped, VirtArea
    <3> QED  BY <3>1, <3>2, Zenon DEF Pages, Page
  <2>5. PICK s : s = [k \in 1 .. to - from |-> Page(from + k - 1, from + k - 1, perms)]
    BY Zenon
  <2>6. \A k \in 1 .. to - from : from + k - 1 \in from .. to - 1 /\ from + k - 1 \in PageNumbers
                                  /\ from + k - 1 \in Nat
    BY <2>3 DEF PageNumbers
  <2>7. \A k \in 1 .. to - from : s[k] \in PageSet
    BY <2>5, <2>6, PageIsPage, Zenon
  <2>8. s \in Seq(PageSet) /\ DOMAIN s = 1 .. to - from
    <3>1. s \in [1 .. to - from -> PageSet]
      BY <2>5, <2>7, SMTT(30)
    <3>2. to - from \in Nat
      BY <2>3, SMTT(30)
    <3> QED  BY <3>1, <3>2, SMTT(30)
  <2>9. Distinct(s)
    <3> SUFFICES ASSUME NEW i \in 1 .. to - from, NEW j \in 1 .. to - from, s[i].va = s[j].va
                 PROVE  i = j
      BY <2>8, SMTT(30) DEF Distinct
    <3>1. s[i].va = get_base_addr(from + i - 1) /\ s[j].va = get_base_addr(from + j - 1)
      BY <2>5 DEF Page
    <3>2. from + i - 1 = from + j - 1
      BY <2>6, <3>1, BaseInjective, Zenon
    <3> QED  BY <2>3, <3>2, SMTT(30)
  <2>10. ASSUME NEW x PROVE x \in Range(s) <=> \E n \in from .. to - 1 : x = Page(n, n, perms)
    <3>1. ASSUME NEW k \in 1 .. to - from PROVE \E n \in from .. to - 1 : s[k] = Page(n, n, perms)
      BY <2>5, <2>6
    <3>2. ASSUME NEW n \in from .. to - 1 PROVE \E k \in 1 .. to - from : s[k] = Page(n, n, perms)
      <4>1. n - from + 1 \in 1 .. to - from /\ from + (n - from + 1) - 1 = n
        BY <2>3
      <4> QED  BY <2>5, <4>1, Zenon
    <3> QED  BY <2>8, <3>1, <3>2, Zenon DEF Range
  <2> QED
    BY <2>1, <2>4, <2>5, <2>8, <2>9, <2>10, Zenon
(* The pages of one area of the kernel. *)
<1>SectionMapped.
    ASSUME image \in Images, NEW k \in 1 .. 11
    PROVE  /\ Pages(kernel_areas[k]) \in Seq(PageSet) /\ Distinct(Pages(kernel_areas[k]))
           /\ k # 1 => \A x : x \in Range(Pages(kernel_areas[k])) <=>
                                \E n \in SectionPages(k) : x = Page(n, n, SectionPerms[k])
           /\ k = 1 => \A x : x \in Range(Pages(kernel_areas[k])) <=> x = TrampolinePage
  <2> USE <1>SectionMapped, Zenon
  <2>1. CASE k = 1
    <3>1. get_number(TRAMPOLINE_BASE_VA) \in PageNumbers /\ get_number(trampoline_start(image)) \in Nat
      BY SectionPlaces, SMT
    <3>2. RX \in SUBSET PTEFlags
      BY DEF RX, PTEFlags, FlagBit
    <3>3. kernel_areas[1] = make_trampoline
      BY DEF kernel_areas
    <3>4. make_trampoline = VirtArea(TRAMPOLINE_BASE_VA, MAX_VA, RX,
            << << get_number(TRAMPOLINE_BASE_VA), get_number(trampoline_start(image)) >> >>, {})
      BY DEF make_trampoline
    <3>5. PICK area : area = kernel_areas[1]
      OBVIOUS
    <3>6. PICK n, frame : n = get_number(TRAMPOLINE_BASE_VA) /\ frame = get_number(trampoline_start(image))
      OBVIOUS
    <3>7. n \in PageNumbers /\ frame \in Nat
      BY <3>1, <3>6
    <3>8. area = VirtArea(TRAMPOLINE_BASE_VA, MAX_VA, RX, << << n, frame >> >>, {})
      BY <3>3, <3>4, <3>5, <3>6, ZenonT(40)
    <3>9. /\ Pages(area) \in Seq(PageSet) /\ Distinct(Pages(area))
          /\ \A x : x \in Range(Pages(area)) <=> x = Page(n, frame, RX)
      BY <3>2, <3>6, <3>7, <3>8, TrackedPages, SMTT(30)
    <3>10. TrampolinePage = Page(n, frame, RX)
      BY <3>6 DEF TrampolinePage
    <3> QED  BY <2>1, <3>5, <3>9, <3>10, ZenonT(40)
  <2>2. CASE k # 1
    <3>1. kernel_areas[k] = identically_mapped(SectionStart[k], SectionEnd[k], SectionPerms[k])
      <4>1. k \in {2, 3, 4, 5, 6, 7, 8, 9, 10, 11}
        BY <2>2, SMT
      <4>2. /\ kernel_areas[2] = identically_mapped(SectionStart[2], SectionEnd[2], SectionPerms[2])
            /\ kernel_areas[3] = identically_mapped(SectionStart[3], SectionEnd[3], SectionPerms[3])
            /\ kernel_areas[4] = identically_mapped(SectionStart[4], SectionEnd[4], SectionPerms[4])
            /\ kernel_areas[5] = identically_mapped(SectionStart[5], SectionEnd[5], SectionPerms[5])
            /\ kernel_areas[6] = identically_mapped(SectionStart[6], SectionEnd[6], SectionPerms[6])
        BY DEF kernel_areas, SectionStart, SectionEnd, SectionPerms
      <4>3. /\ kernel_areas[7] = identically_mapped(SectionStart[7], SectionEnd[7], SectionPerms[7])
            /\ kernel_areas[8] = identically_mapped(SectionStart[8], SectionEnd[8], SectionPerms[8])
            /\ kernel_areas[9] = identically_mapped(SectionStart[9], SectionEnd[9], SectionPerms[9])
            /\ kernel_areas[10] = identically_mapped(SectionStart[10], SectionEnd[10], SectionPerms[10])
            /\ kernel_areas[11] = identically_mapped(SectionStart[11], SectionEnd[11], SectionPerms[11])
        BY DEF kernel_areas, SectionStart, SectionEnd, SectionPerms
      <4> QED  BY <4>1, <4>2, <4>3
    <3>2. /\ SectionStart[k] \in Aligned /\ SectionEnd[k] \in Nat
          /\ SectionStart[k] <= SectionEnd[k] /\ SectionEnd[k] <= MAX_VA /\ MAX_VA \in Aligned
          /\ SectionPerms[k] \in SUBSET PTEFlags
      BY Sections, Addresses
    <3>3. PG_ROUND_UP(SectionEnd[k]) <= MAX_VA
      BY <3>2, RoundUp
    <3>4. PICK a, b, p : a = SectionStart[k] /\ b = SectionEnd[k] /\ p = SectionPerms[k]
      OBVIOUS
    <3>5. a \in Aligned /\ b \in Nat /\ a <= b /\ PG_ROUND_UP(b) <= MAX_VA /\ p \in SUBSET PTEFlags
      BY <3>2, <3>3, <3>4
    <3>6. /\ Pages(identically_mapped(a, b, p)) \in Seq(PageSet)
          /\ Distinct(Pages(identically_mapped(a, b, p)))
          /\ \A x : x \in Range(Pages(identically_mapped(a, b, p))) <=>
                      \E n \in get_number(a) .. get_number(PG_ROUND_UP(b)) - 1 : x = Page(n, n, p)
      BY <3>5, <1>IdenticalPages
    <3>7. kernel_areas[k] = identically_mapped(a, b, p)
          /\ SectionPages(k) = get_number(a) .. get_number(PG_ROUND_UP(b)) - 1
      BY <3>1, <3>4 DEF SectionPages
    <3> QED  BY <2>2, <3>4, <3>6, <3>7
  <2> QED
    BY <2>1, <2>2
(* The pages of the kernel's areas: no two at the same address, none for   *)
(* user mode, the trampoline, and every frame of the heap at its own       *)
(* address, to read and write; what can be written cannot be executed.     *)
<1>KernelPages.
    ASSUME image \in Images, NEW pages, pages = PagesOf(kernel_areas)
    PROVE  /\ pages \in Seq(PageSet) /\ Distinct(pages)
           /\ TrampolinePage \in Range(pages)
           /\ \A f \in Heap(image) : Page(f, f, RW) \in Range(pages)
           /\ \A x \in Range(pages) : get_number(x.pa) \in Heap(image) =>
                                        x = Page(get_number(x.pa), get_number(x.pa), RW)
           /\ \A x \in Range(pages) : "USER" \notin x.flags
           /\ \A x \in Range(pages) : \A y \in Range(pages) :
                "WRITABLE" \in x.flags /\ "EXECUTABLE" \in y.flags => get_number(x.pa) # get_number(y.pa)
  <2> USE <1>KernelPages, Zenon
  <2>1. Len(kernel_areas) = 11 /\ 11 \in Nat
    BY DEF kernel_areas
  <2>0. /\ \A k \in 1 .. 11 : k # 1 =>
             \A x : x \in Range(Pages(kernel_areas[k])) <=>
                     \E n \in SectionPages(k) : x = Page(n, n, SectionPerms[k])
        /\ \A x : x \in Range(Pages(kernel_areas[1])) <=> x = TrampolinePage
    <3>1. 1 \in 1 .. 11
      BY SMT
    <3> QED  BY <3>1, <1>SectionMapped
  <2>2. ASSUME NEW k \in 1 .. 11, NEW x \in Range(Pages(kernel_areas[k]))
        PROVE  \E n \in SectionPages(k) : x.va = get_base_addr(n)
    <3>1. CASE k = 1
      <4>1. x = TrampolinePage
        BY <2>0, <2>2, <3>1
      <4>2. x.va = get_base_addr(get_number(TRAMPOLINE_BASE_VA))
        BY <4>1 DEF TrampolinePage, Page
      <4> QED  BY <3>1, <4>2, SectionPlaces
    <3>2. CASE k # 1
      <4>1. PICK n \in SectionPages(k) : x = Page(n, n, SectionPerms[k])
        BY <2>0, <2>2, <3>2
      <4>2. x.va = get_base_addr(n)
        BY <4>1 DEF Page
      <4> QED  BY <4>2
    <3> QED  BY <3>1, <3>2
  <2>3. ASSUME NEW j \in 1 .. 11, NEW k \in 1 .. 11, NEW x \in Range(Pages(kernel_areas[j])),
               NEW y \in Range(Pages(kernel_areas[k])), x.va = y.va
        PROVE  j = k
    <3>1. PICK m \in SectionPages(j) : x.va = get_base_addr(m)
      BY <2>2
    <3>2. PICK n \in SectionPages(k) : y.va = get_base_addr(n)
      BY <2>2
    <3>3. m \in Nat /\ n \in Nat
      BY SectionPlaces
    <3>4. m = n
      BY <2>3, <3>1, <3>2, <3>3, BaseInjective
    <3> QED  BY <3>4, SectionsApart
  <2>4. /\ PagesOf(kernel_areas) \in Seq(PageSet) /\ Distinct(PagesOf(kernel_areas))
        /\ \A x : x \in Range(PagesOf(kernel_areas)) <=>
                    \E k \in 1 .. 11 : x \in Range(Pages(kernel_areas[k]))
    <3>1. \A k \in 1 .. 11 : Pages(kernel_areas[k]) \in Seq(PageSet) /\ Distinct(Pages(kernel_areas[k]))
      BY <1>SectionMapped
    <3>2. 11 \in 0 .. 11
      BY SMT
    <3> QED  BY <2>1, <2>3, <3>1, <3>2, PagesOfAreas
  <2>5. TrampolinePage \in Range(pages)
    <3>1. 1 \in 1 .. 11
      BY SMT
    <3> QED  BY <2>4, <3>1, <1>SectionMapped
  <2>6. ASSUME NEW f \in Heap(image) PROVE Page(f, f, RW) \in Range(pages)
    <3>1. 2 \in 1 .. 11 /\ 2 # 1 /\ SectionPerms[2] = RW
      BY SMT DEF SectionPerms
    <3>2. f \in SectionPages(2)
      BY SectionPlaces
    <3> QED  BY <2>4, <3>1, <3>2, <1>SectionMapped
  <2>7. ASSUME NEW x \in Range(pages)
        PROVE  \/ x = TrampolinePage
               \/ \E k \in 2 .. 11 : \E n \in SectionPages(k) : x = Page(n, n, SectionPerms[k])
    <3>1. PICK k \in 1 .. 11 : x \in Range(Pages(kernel_areas[k]))
      BY <2>4
    <3>2. k # 1 => k \in 2 .. 11
      BY SMT
    <3>3. CASE k = 1
      BY <2>0, <3>1, <3>3
    <3>4. CASE k # 1
      BY <2>0, <3>1, <3>2, <3>4
    <3> QED  BY <3>3, <3>4
  <2>8. ASSUME NEW n, NEW m \in Nat, NEW perms
        PROVE  get_number(Page(n, m, perms).pa) = m /\ Page(n, m, perms).flags = perms \cup {"VALID"}
    <3>1. Page(n, m, perms).pa = get_base_addr(m) /\ Page(n, m, perms).flags = perms \cup {"VALID"}
      BY DEF Page
    <3> QED  BY <3>1, PageNumber
  <2>17. ASSUME NEW x, NEW n, NEW m \in Nat, NEW perms, x = Page(n, m, perms)
         PROVE  get_number(x.pa) = m /\ x.flags = perms \cup {"VALID"}
    BY <2>8, <2>17
  <2>18. ASSUME NEW k \in 2 .. 11, NEW n \in SectionPages(k), NEW x, x = Page(n, n, SectionPerms[k])
         PROVE  /\ k \in 1 .. 11 /\ n \in Nat
                /\ get_number(x.pa) = n /\ x.flags = SectionPerms[k] \cup {"VALID"}
    <3>1. k \in 1 .. 11
      BY SMT
    <3>2. n \in Nat
      BY <3>1, SectionPlaces
    <3>3. PICK perms : perms = SectionPerms[k]
      OBVIOUS
    <3>4. x = Page(n, n, perms)
      BY <2>18, <3>3
    <3>5. get_number(x.pa) = n /\ x.flags = perms \cup {"VALID"}
      BY <2>17, <3>2, <3>4, SMTT(30)
    <3> QED  BY <3>1, <3>2, <3>3, <3>5
  <2>10. get_number(trampoline_start(image)) \in Nat /\ 7 \in 1 .. 11 /\ 2 \in 1 .. 11 /\ 7 # 2
    BY SectionPlaces, SMT
  <2>11. ASSUME NEW x \in Range(pages), get_number(x.pa) \in Heap(image)
         PROVE  x = Page(get_number(x.pa), get_number(x.pa), RW)
    <3>1. CASE x = TrampolinePage
      <4>1. get_number(x.pa) = get_number(trampoline_start(image))
        BY <2>17, <2>10, <3>1 DEF TrampolinePage
      <4>2. get_number(x.pa) \in SectionPages(7) /\ get_number(x.pa) \in SectionPages(2)
        BY <2>11, <4>1, SectionPlaces
      <4>3. 7 = 2
        BY <2>10, <4>2, SectionsApart
      <4> QED  BY <2>10, <4>3
    <3>2. ASSUME NEW k \in 2 .. 11, NEW n \in SectionPages(k), x = Page(n, n, SectionPerms[k])
          PROVE  x = Page(get_number(x.pa), get_number(x.pa), RW)
      <4>1. get_number(x.pa) = n /\ k \in 1 .. 11
        BY <2>18, <3>2
      <4>2. k = 2
        BY <2>10, <2>11, <4>1, SectionPlaces, SectionsApart
      <4>3. SectionPerms[2] = RW
        BY DEF SectionPerms
      <4> QED  BY <3>2, <4>1, <4>2, <4>3
    <3> QED  BY <2>7, <3>1, <3>2
  <2>12. ASSUME NEW k \in 2 .. 11
         PROVE  /\ "USER" \notin SectionPerms[k] \cup {"VALID"}
                /\ "EXECUTABLE" \in SectionPerms[k] \cup {"VALID"} => k = 7
                /\ "WRITABLE" \in SectionPerms[k] \cup {"VALID"} => k # 7
    <3>1. k \in {2, 3, 4, 5, 6, 7, 8, 9, 10, 11}
      BY SMT
    <3> QED  BY <3>1, SMTT(30) DEF SectionPerms, RW, RX
  <2>13. "USER" \notin RX \cup {"VALID"} /\ "WRITABLE" \notin RX \cup {"VALID"}
    BY DEF RX
  <2>14. ASSUME NEW x \in Range(pages) PROVE "USER" \notin x.flags
    <3>1. CASE x = TrampolinePage
      BY <2>17, <2>10, <2>13, <3>1 DEF TrampolinePage
    <3>2. ASSUME NEW k \in 2 .. 11, NEW n \in SectionPages(k), x = Page(n, n, SectionPerms[k])
          PROVE  "USER" \notin x.flags
      <4>1. x.flags = SectionPerms[k] \cup {"VALID"}
        BY <2>18, <3>2
      <4> QED  BY <2>12, <4>1
    <3> QED  BY <2>7, <3>1, <3>2
  <2>15. ASSUME NEW x \in Range(pages), "EXECUTABLE" \in x.flags
         PROVE  get_number(x.pa) \in SectionPages(7)
    <3>1. CASE x = TrampolinePage
      BY <2>17, <2>10, <3>1, SectionPlaces DEF TrampolinePage
    <3>2. ASSUME NEW k \in 2 .. 11, NEW n \in SectionPages(k), x = Page(n, n, SectionPerms[k])
          PROVE  get_number(x.pa) \in SectionPages(7)
      <4>1. get_number(x.pa) = n /\ x.flags = SectionPerms[k] \cup {"VALID"}
        BY <2>18, <3>2
      <4>2. k = 7
        BY <2>12, <2>15, <4>1
      <4> QED  BY <4>1, <4>2
    <3> QED  BY <2>7, <3>1, <3>2
  <2>16. ASSUME NEW x \in Range(pages), "WRITABLE" \in x.flags
         PROVE  get_number(x.pa) \notin SectionPages(7)
    <3>1. x # TrampolinePage
      BY <2>17, <2>10, <2>13, <2>16 DEF TrampolinePage
    <3>2. PICK k \in 2 .. 11 : \E n \in SectionPages(k) : x = Page(n, n, SectionPerms[k])
      BY <2>7, <3>1
    <3>3. PICK n \in SectionPages(k) : x = Page(n, n, SectionPerms[k])
      BY <3>2
    <3>4. get_number(x.pa) = n /\ k # 7 /\ k \in 1 .. 11
      <4>1. get_number(x.pa) = n /\ k \in 1 .. 11 /\ x.flags = SectionPerms[k] \cup {"VALID"}
        BY <2>18, <3>3
      <4> QED  BY <2>12, <2>16, <4>1
    <3> QED  BY <2>10, <3>3, <3>4, SectionsApart
  <2> QED
    BY <2>4, <2>5, <2>6, <2>11, <2>14, <2>15, <2>16
<1> QED
  BY <1>KernelPages, Zenon

-----------------------------------------------------------------------------
(* The areas of the init process: trampoline, stack, text, trap context *)

UserArea(k, f) ==
  << make_trampoline, make_initial_user_stack(f), init_text(f), make_trapframe(f) >>[k]

UserNumber ==
  << get_number(TRAMPOLINE_BASE_VA), get_number(text_va_end) + 1, get_number(TEXT_BASE_USER_VA),
     get_number(TRAPFRAME_BASE_USER_VA) >>

UserPerms == << RX, RW \cup {"USER"}, RX \cup {"USER"}, RW >>

UserFrame(k, f) == IF k = 1 THEN get_number(trampoline_start(image)) ELSE f

UserPage(k, f) == Page(UserNumber[k], UserFrame(k, f), UserPerms[k])

(* The text ends below the page before the stack, the stack two pages or   *)
(* more below the trap context, and that two pages below the trampoline.   *)
LEMMA UserNumbers ==
  ASSUME image \in Images
  PROVE  /\ text_va_end \in Aligned
         /\ get_number(TEXT_BASE_USER_VA) \in Nat /\ get_number(text_va_end) \in Nat
         /\ get_number(TRAPFRAME_BASE_USER_VA) \in Nat /\ get_number(TRAMPOLINE_BASE_VA) \in Nat
         /\ get_number(TEXT_BASE_USER_VA) < get_number(text_va_end)
         /\ get_number(text_va_end) + 3 <= get_number(TRAPFRAME_BASE_USER_VA)
         /\ get_number(TRAMPOLINE_BASE_VA) = get_number(TRAPFRAME_BASE_USER_VA) + 2
         /\ get_number(MAX_VA) = get_number(TRAMPOLINE_BASE_VA) + 1
         /\ get_number(text_va_end + PAGE_SIZE) = get_number(text_va_end) + 1
<1> USE Zenon
<1>1. PICK i, tb, tf, tr : i = image /\ tb = TEXT_BASE_USER_VA /\ tf = TRAPFRAME_BASE_USER_VA
                           /\ tr = TRAMPOLINE_BASE_VA
  OBVIOUS
<1>2. i.initcode \in Nat /\ i.initcode > 0 /\ tb + i.initcode + 3 * PAGE_SIZE <= tf
  BY <1>1, LayoutAssumption
<1>3. PICK c : c = i.initcode
  OBVIOUS
<1>4. /\ tb \in Aligned /\ tf \in Aligned /\ tr \in Aligned /\ MAX_VA \in Aligned
      /\ tr = tf + PAGE_SIZE + PAGE_SIZE /\ MAX_VA = tr + PAGE_SIZE
  BY <1>1, Addresses
<1>5. PICK te : te = PG_ROUND_UP(tb + c)
  OBVIOUS
<1>6. text_va_end = te
  BY <1>1, <1>3, <1>5 DEF text_va_end
<1>7. c \in Nat /\ c > 0 /\ tb \in Nat /\ tf \in Nat /\ tb + c \in Nat /\ tb + c + 3 * PAGE_SIZE <= tf
  BY <1>2, <1>3, <1>4, SMTT(30) DEF Aligned
<1>8. PICK b : b = tf - 3 * PAGE_SIZE
  OBVIOUS
<1>9. b \in Nat /\ tb + c <= b
  BY <1>7, <1>8, SMTT(20) DEF PAGE_SIZE
<1>10. b \in Aligned /\ get_number(tf) = get_number(b) + 3
  BY <1>4, <1>8, <1>9, SMTT(30) DEF Aligned, get_number, PAGE_SIZE
<1>11. te \in Aligned /\ te >= tb + c /\ te <= b
  BY <1>5, <1>7, <1>9, <1>10, RoundUp
<1>12. tb < te
  BY <1>7, <1>11, SMTT(30) DEF Aligned
<1>13. get_number(tb) < get_number(te) /\ get_number(te) <= get_number(b)
       /\ get_number(te + PAGE_SIZE) = get_number(te) + 1
  BY <1>4, <1>10, <1>11, <1>12, NumberOrder
<1>14. /\ get_number(tb) \in Nat /\ get_number(te) \in Nat /\ get_number(b) \in Nat
       /\ get_number(tf) \in Nat /\ get_number(tr) \in Nat
  BY <1>4, <1>10, <1>11, AlignedNumber
<1>15. get_number(te) + 3 <= get_number(tf)
  BY <1>10, <1>13, <1>14, SMTT(30)
<1>16. tf + PAGE_SIZE \in Aligned /\ get_number(tf + PAGE_SIZE) = get_number(tf) + 1
  BY <1>4, NumberOrder
<1>17. get_number(tr) = get_number(tf + PAGE_SIZE) + 1 /\ get_number(MAX_VA) = get_number(tr) + 1
  BY <1>4, <1>16, NumberOrder
<1>18. get_number(tr) = get_number(tf) + 2
  BY <1>14, <1>16, <1>17, SMTT(30)
<1> QED
  BY <1>1, <1>6, <1>11, <1>13, <1>14, <1>15, <1>17, <1>18

(* Each area of the process is one page, at an address of its own. *)
LEMMA UserNumbersApart ==
  ASSUME image \in Images
  PROVE  /\ \A k \in 1 .. 4 : UserNumber[k] \in PageNumbers
         /\ \A j \in 1 .. 4 : \A k \in 1 .. 4 : UserNumber[j] = UserNumber[k] => j = k
         /\ \A k \in 1 .. 4 : UserNumber[k] # get_number(text_va_end)
         /\ \A k \in 1 .. 4 : UserNumber[k] # get_number(TRAPFRAME_BASE_USER_VA) + 1
         /\ get_number(text_va_end) \in PageNumbers
         /\ get_number(TRAPFRAME_BASE_USER_VA) + 1 \in PageNumbers
<1>1. PICK tb, te, tf, tr, m : /\ tb = get_number(TEXT_BASE_USER_VA) /\ te = get_number(text_va_end)
                               /\ tf = get_number(TRAPFRAME_BASE_USER_VA)
                               /\ tr = get_number(TRAMPOLINE_BASE_VA) /\ m = get_number(MAX_VA)
  OBVIOUS
<1>2. /\ tb \in Nat /\ te \in Nat /\ tf \in Nat /\ tr \in Nat /\ tb < te /\ te + 3 <= tf
      /\ tr = tf + 2 /\ m = tr + 1
  BY <1>1, UserNumbers, Zenon
<1>3. UserNumber = << tr, te + 1, tb, tf >> /\ PageNumbers = 0 .. m - 1
  BY <1>1, Zenon DEF UserNumber, PageNumbers
<1>4. /\ UserNumber[1] = tr /\ UserNumber[2] = te + 1 /\ UserNumber[3] = tb /\ UserNumber[4] = tf
      /\ 1 .. 4 = {1, 2, 3, 4}
  BY <1>3
<1>5. \A k \in 1 .. 4 : k = 1 \/ k = 2 \/ k = 3 \/ k = 4
  BY SMTT(30)
<1>6. /\ \A k \in 1 .. 4 : UserNumber[k] \in 0 .. m - 1
      /\ \A j \in 1 .. 4 : \A k \in 1 .. 4 : UserNumber[j] = UserNumber[k] => j = k
      /\ \A k \in 1 .. 4 : UserNumber[k] # te /\ UserNumber[k] # tf + 1
      /\ te \in 0 .. m - 1 /\ tf + 1 \in 0 .. m - 1
  BY <1>2, <1>4, <1>5
<1> QED
  BY <1>1, <1>3, <1>6, Zenon

(* map_virt_area_allocate on an area of a process: one page. *)
LEMMA UserAreaPages ==
  ASSUME image \in Images, NEW k \in 1 .. 4, NEW f \in Nat, NEW area, area = UserArea(k, f)
  PROVE  /\ Pages(area) = << UserPage(k, f) >>
         /\ Pages(area) \in Seq(PageSet) /\ Distinct(Pages(area))
         /\ \A x : x \in Range(Pages(area)) <=> x = UserPage(k, f)
         /\ area.owned = IF k = 1 THEN {} ELSE {f}
<1> USE Zenon
<1>1. k = 1 \/ k = 2 \/ k = 3 \/ k = 4
  BY SMT
<1>2. /\ UserNumber[k] \in PageNumbers /\ UserPerms[k] \in SUBSET PTEFlags /\ UserFrame(k, f) \in Nat
  <2>1. UserPerms[k] \in SUBSET PTEFlags
    BY <1>1, SMTT(30) DEF UserPerms, RW, RX, PTEFlags, FlagBit
  <2>2. UserFrame(k, f) \in Nat
    BY SectionPlaces, SMT DEF UserFrame
  <2> QED  BY <2>1, <2>2, UserNumbersApart, ZenonT(40)
<1>3. \E va, end : /\ UserNumber[k] = get_number(va)
                   /\ area = VirtArea(va, end, UserPerms[k], << << UserNumber[k], UserFrame(k, f) >> >>,
                                      IF k = 1 THEN {} ELSE {f})
  <2>1. CASE k = 1
    <3>1. /\ UserNumber[k] = get_number(TRAMPOLINE_BASE_VA) /\ UserPerms[k] = RX
          /\ UserFrame(k, f) = get_number(trampoline_start(image)) /\ area = make_trampoline
      BY <2>1 DEF UserNumber, UserPerms, UserFrame, UserArea
    <3> QED  BY <2>1, <3>1 DEF make_trampoline
  <2>2. CASE k = 2
    <3>1. /\ UserNumber[k] = get_number(text_va_end) + 1 /\ UserPerms[k] = RW \cup {"USER"}
          /\ UserFrame(k, f) = f /\ area = make_initial_user_stack(f) /\ k # 1
      BY <2>2, SMT DEF UserNumber, UserPerms, UserFrame, UserArea
    <3>2. UserNumber[k] = get_number(text_va_end + PAGE_SIZE)
      BY <3>1, UserNumbers
    <3> QED  BY <3>1, <3>2 DEF make_initial_user_stack, exclusive
  <2>3. CASE k = 3
    <3>1. /\ UserNumber[k] = get_number(TEXT_BASE_USER_VA) /\ UserPerms[k] = RX \cup {"USER"}
          /\ UserFrame(k, f) = f /\ area = init_text(f) /\ k # 1
      BY <2>3, SMT DEF UserNumber, UserPerms, UserFrame, UserArea
    <3> QED  BY <3>1 DEF init_text, exclusive
  <2>4. CASE k = 4
    <3>1. /\ UserNumber[k] = get_number(TRAPFRAME_BASE_USER_VA) /\ UserPerms[k] = RW
          /\ UserFrame(k, f) = f /\ area = make_trapframe(f) /\ k # 1
      BY <2>4, SMT DEF UserNumber, UserPerms, UserFrame, UserArea
    <3> QED  BY <3>1 DEF make_trapframe, exclusive
  <2> QED  BY <1>1, <2>1, <2>2, <2>3, <2>4
<1>4. PICK va, end : /\ UserNumber[k] = get_number(va)
                     /\ area = VirtArea(va, end, UserPerms[k], << << UserNumber[k], UserFrame(k, f) >> >>,
                                        IF k = 1 THEN {} ELSE {f})
  BY <1>3
<1>5. area.owned = IF k = 1 THEN {} ELSE {f}
  <2>1. PICK o : o = IF k = 1 THEN {} ELSE {f}
    OBVIOUS
  <2>2. area.owned = o
    BY <1>4, <2>1, SMT DEF VirtArea
  <2> QED  BY <2>1, <2>2
<1>6. PICK n, m, perms, o : n = UserNumber[k] /\ m = UserFrame(k, f) /\ perms = UserPerms[k]
                            /\ o = IF k = 1 THEN {} ELSE {f}
  OBVIOUS
<1>7. /\ Pages(area) = << Page(n, m, perms) >>
      /\ Pages(area) \in Seq(PageSet) /\ Distinct(Pages(area))
      /\ \A x : x \in Range(Pages(area)) <=> x = Page(n, m, perms)
  <2>1. n \in PageNumbers /\ m \in Nat /\ perms \in SUBSET PTEFlags
    BY <1>2, <1>6
  <2>2. n = get_number(va) /\ area = VirtArea(va, end, perms, << << n, m >> >>, o)
    BY <1>4, <1>6
  <2> QED  BY <2>1, <2>2, TrackedPages, SMT
<1> QED
  BY <1>5, <1>6, <1>7 DEF UserPage

UserAreas(areas, n) ==
  /\ n \in 0 .. 4 /\ Len(areas) = n
  /\ \A k \in 1 .. n : \E f \in Heap(image) : areas[k] = UserArea(k, f)

(* The pages of a process's areas, one per area. *)
LEMMA UserPages ==
  ASSUME image \in Images, NEW areas, NEW n, UserAreas(areas, n)
  PROVE  /\ PagesOf(areas) \in Seq(PageSet) /\ Distinct(PagesOf(areas))
         /\ \A x : x \in Range(PagesOf(areas)) <=>
                     \E k \in 1 .. n : \E f \in Heap(image) :
                       areas[k] = UserArea(k, f) /\ x = UserPage(k, f)
<1> USE Zenon
<1>0. /\ n \in 0 .. 4 /\ Len(areas) = n
      /\ \A k \in 1 .. n : \E f \in Heap(image) : areas[k] = UserArea(k, f)
  BY ZenonT(40) DEF UserAreas
<1>1. n \in Nat /\ n \in 0 .. 11 /\ 1 .. n \subseteq 1 .. 4 /\ Heap(image) \subseteq Nat
  BY <1>0, SectionPlaces, SMTT(30)
<1>2. ASSUME NEW k \in 1 .. n, NEW f \in Heap(image), areas[k] = UserArea(k, f)
      PROVE  /\ Pages(areas[k]) \in Seq(PageSet) /\ Distinct(Pages(areas[k]))
             /\ \A x : x \in Range(Pages(areas[k])) <=> x = UserPage(k, f)
  <2>1. k \in 1 .. 4 /\ f \in Nat
    BY <1>1
  <2> QED  BY <1>2, <2>1, UserAreaPages
<1>3. ASSUME NEW j \in 1 .. n, NEW k \in 1 .. n, NEW x \in Range(Pages(areas[j])),
             NEW y \in Range(Pages(areas[k])), x.va = y.va
      PROVE  j = k
  <2>1. PICK f \in Heap(image) : areas[j] = UserArea(j, f)
    BY <1>0
  <2>2. PICK g \in Heap(image) : areas[k] = UserArea(k, g)
    BY <1>0
  <2>3. x = UserPage(j, f) /\ y = UserPage(k, g)
    BY <1>2, <2>1, <2>2
  <2>4. x.va = get_base_addr(UserNumber[j]) /\ y.va = get_base_addr(UserNumber[k])
    BY <2>3 DEF UserPage, Page
  <2>5. UserNumber[j] \in Nat /\ UserNumber[k] \in Nat
    BY <1>1, UserNumbersApart, SectionPlaces
  <2>6. UserNumber[j] = UserNumber[k]
    BY <1>3, <2>4, <2>5, BaseInjective
  <2> QED  BY <1>1, <2>6, UserNumbersApart
<1>4. \A k \in 1 .. n : Pages(areas[k]) \in Seq(PageSet) /\ Distinct(Pages(areas[k]))
  BY <1>0, <1>2
<1>5. /\ PagesOf(areas) \in Seq(PageSet) /\ Distinct(PagesOf(areas))
      /\ \A x : x \in Range(PagesOf(areas)) <=> \E k \in 1 .. n : x \in Range(Pages(areas[k]))
  BY <1>0, <1>1, <1>3, <1>4, PagesOfAreas
<1>6. ASSUME NEW x \in Range(PagesOf(areas))
      PROVE  \E k \in 1 .. n : \E f \in Heap(image) : areas[k] = UserArea(k, f) /\ x = UserPage(k, f)
  <2>1. PICK k \in 1 .. n : x \in Range(Pages(areas[k]))
    BY <1>5
  <2>2. PICK f \in Heap(image) : areas[k] = UserArea(k, f)
    BY <1>0
  <2>3. x = UserPage(k, f)
    BY <1>2, <2>1, <2>2
  <2> QED  BY <2>2, <2>3
<1>7. ASSUME NEW x, NEW k \in 1 .. n, NEW f \in Heap(image), areas[k] = UserArea(k, f), x = UserPage(k, f)
      PROVE  x \in Range(PagesOf(areas))
  <2>1. x \in Range(Pages(areas[k]))
    BY <1>2, <1>7
  <2> QED  BY <1>5, <2>1
<1> QED
  BY <1>5, <1>6, <1>7

-----------------------------------------------------------------------------
(* What a table holds *)

\* what a page may be used for while the nodes ro are read-only
Left(page, ro) == IF get_number(page.pa) \in ro THEN page.flags \ {"WRITABLE"} ELSE page.flags

\* the table of a space has all nodes and entries for these pages and no other entry
Holds(space, pages, ro) ==
  /\ DOMAIN space.entries = { Path(page.va) : page \in pages }
  /\ \A page \in pages :
       /\ space.entries[Path(page.va)] = make_entry(page.pa, Left(page, ro))
       /\ \A d \in 1 .. 2 : Node(page.va, d) \in DOMAIN space.nodes

\* every entry was made for one of these pages
Within(space, pages) ==
  \A path \in DOMAIN space.entries : \E page \in pages :
    space.entries[path] \in { make_entry(page.pa, page.flags),
                              make_entry(page.pa, page.flags \ {"WRITABLE"}) }

(* Addresses in a page. *)
LEMMA PathWithin ==
  ASSUME NEW n \in Nat, NEW o \in Nat, o < PAGE_SIZE
  PROVE  /\ Path(get_base_addr(n) + o) = Path(get_base_addr(n))
         /\ PG_ROUND_DOWN(get_base_addr(n) + o) = get_base_addr(n)
         /\ get_number(get_base_addr(n) + o) = n
<1>1. get_base_addr(n) = n * 4096 /\ n * 4096 \in Nat /\ n * 4096 + o \in Nat
      /\ (n * 4096 + o) \div 4096 = n
  BY SMTT(30) DEF get_base_addr, PAGE_SIZE
<1>2. PG_ROUND_DOWN(get_base_addr(n) + o) = get_base_addr(n)
      /\ get_number(get_base_addr(n) + o) = n
  BY <1>1, Rounding, SMTT(30) DEF get_number, PAGE_SIZE
<1>3. PG_ROUND_DOWN(get_base_addr(n)) = get_base_addr(n)
  BY PageNumber, Zenon
<1> QED
  BY <1>2, <1>3, Zenon DEF Path, pte_index

(* An entry that was never written. *)
LEMMA NoEntry == flags(0) = {} /\ ~is_valid(0)
<1>1. \A f \in PTEFlags : FlagBit[f] \in {1, 2, 4, 8, 16, 32, 64, 128, 256}
  BY DEF PTEFlags, FlagBit
<1>2. \A b \in {1, 2, 4, 8, 16, 32, 64, 128, 256} : (0 \div b) % 2 = 0
  OBVIOUS
<1>3. \A f \in PTEFlags : (0 \div FlagBit[f]) % 2 # 1
  BY <1>1, <1>2
<1> QED
  BY <1>3, SMTT(20) DEF flags, is_valid

(* A page as a number, a frame and flags. *)
LEMMA PageParts ==
  ASSUME NEW page \in PageSet
  PROVE  /\ \E n \in PageNumbers : page.va = get_base_addr(n)
         /\ \E m \in Nat : page.pa = get_base_addr(m) /\ get_number(page.pa) = m
         /\ page.flags \in SUBSET PTEFlags
<1>1. \E n \in PageNumbers : page.va = get_base_addr(n)
  BY DEF PageSet
<1>2. PICK m \in Nat : page.pa = get_base_addr(m)
  BY SMTT(30) DEF PageSet
<1>3. page.flags \in SUBSET PTEFlags
  BY DEF PageSet
<1> QED
  BY <1>1, <1>2, <1>3, PageNumber, Zenon

(* What is left of the flags of a page is a set of flags. *)
LEMMA LeftFlags ==
  ASSUME NEW page \in PageSet, NEW ro
  PROVE  Left(page, ro) \in SUBSET PTEFlags
<1> USE Zenon
<1>1. page.flags \in SUBSET PTEFlags
  BY PageParts
<1> QED
  BY <1>1 DEF Left

(* An entry made for a page gives back its frame and the flags. *)
LEMMA PageEntry ==
  ASSUME NEW page \in PageSet, NEW fl \in SUBSET PTEFlags
  PROVE  /\ PTE2PA(make_entry(page.pa, fl)) = page.pa
         /\ flags(make_entry(page.pa, fl)) = fl
<1> USE Zenon
<1>1. PICK m \in Nat : page.pa = get_base_addr(m)
  BY PageParts
<1> QED
  BY <1>1, EntryRoundTrip

(* Walking to a page the table holds. *)
Reached(space, va, pa, fl) ==
  /\ Found(space, va) /\ Missing(space, va) = {}
  /\ find(space, va) = make_entry(pa, fl)
  /\ PTE2PA(find(space, va)) = pa /\ flags(find(space, va)) = fl

Of(va, page) == Path(va) = Path(page.va)

(* find on a table that holds a page comes to that page's entry. *)
LEMMA Held ==
  ASSUME NEW space, NEW pages \in SUBSET PageSet, NEW ro, Holds(space, pages, ro),
         NEW page \in pages, NEW va, Of(va, page)
  PROVE  Reached(space, va, page.pa, Left(page, ro))
<1> USE Zenon
<1>0. page \in PageSet /\ Path(va) = Path(page.va)
  BY DEF Of
<1>1. Left(page, ro) \in SUBSET PTEFlags
  BY <1>0, LeftFlags
<1>2. /\ Path(page.va) \in DOMAIN space.entries
      /\ space.entries[Path(page.va)] = make_entry(page.pa, Left(page, ro))
      /\ \A d \in 1 .. 2 : Node(page.va, d) \in DOMAIN space.nodes
  BY DEF Holds
<1>3. find(space, va) = make_entry(page.pa, Left(page, ro))
  BY <1>0, <1>2 DEF find
<1>4. \A d : Node(va, d) = Node(page.va, d)
  BY <1>0 DEF Node
<1>5. 2 \in 1 .. 2
  BY SMT
<1>6. Found(space, va)
  BY <1>2, <1>4, <1>5 DEF Found
<1>7. Missing(space, va) = {}
  BY <1>2, <1>4 DEF Missing
<1>8. /\ PTE2PA(make_entry(page.pa, Left(page, ro))) = page.pa
      /\ flags(make_entry(page.pa, Left(page, ro))) = Left(page, ro)
  BY <1>0, <1>1, PageEntry
<1> QED
  BY <1>3, <1>6, <1>7, <1>8 DEF Reached

(* Walking to a page that the table does not map. *)
LEMMA NotHeld ==
  ASSUME NEW space, NEW pages \in SUBSET PageSet, NEW ro, Holds(space, pages, ro),
         NEW va, \A page \in pages : Path(page.va) # Path(va)
  PROVE  find(space, va) = 0
<1> USE Zenon
<1>1. Path(va) \notin DOMAIN space.entries
  BY DEF Holds
<1> QED
  BY <1>1 DEF find

(* map_one_allocate: one more page. *)
LEMMA MapOne ==
  ASSUME NEW space, NEW next, NEW pages \in SUBSET PageSet, NEW ro, Holds(space, pages, ro),
         NEW page \in PageSet, \A x \in pages : x.va # page.va, get_number(page.pa) \notin ro,
         Missing(space, page.va) = {}, next.nodes = space.nodes,
         next.entries = Put(space.entries, Path(page.va), make_entry(page.pa, page.flags))
  PROVE  /\ Holds(next, pages \cup {page}, ro)
         /\ find(space, page.va) = 0
<1> USE Zenon
<1>1. \A x \in pages : Path(x.va) # Path(page.va)
  BY PathsOfMembers
<1>2. PICK entries, path, e : entries = space.entries /\ path = Path(page.va)
                              /\ e = make_entry(page.pa, page.flags)
  OBVIOUS
<1>3. /\ DOMAIN next.entries = DOMAIN entries \cup {path} /\ next.entries[path] = e
      /\ \A z \in DOMAIN entries : z # path => next.entries[z] = entries[z]
  <2>1. next.entries = Put(entries, path, e)
    BY <1>2
  <2> QED  BY <2>1 DEF Put
<1>4. DOMAIN entries = { Path(x.va) : x \in pages }
  BY <1>2 DEF Holds
<1>5. \A z : z \in DOMAIN next.entries <=> z \in { Path(x.va) : x \in pages \cup {page} }
  BY <1>2, <1>3, <1>4
<1>6. ASSUME NEW x \in pages \cup {page}
      PROVE  /\ next.entries[Path(x.va)] = make_entry(x.pa, Left(x, ro))
             /\ \A d \in 1 .. 2 : Node(x.va, d) \in DOMAIN next.nodes
  <2>1. CASE x \in pages
    <3>1. /\ space.entries[Path(x.va)] = make_entry(x.pa, Left(x, ro))
          /\ \A d \in 1 .. 2 : Node(x.va, d) \in DOMAIN space.nodes
      BY <2>1 DEF Holds
    <3>2. Path(x.va) \in DOMAIN entries /\ Path(x.va) # path
      BY <1>1, <1>2, <1>4, <2>1
    <3> QED  BY <1>2, <1>3, <3>1, <3>2
  <2>2. CASE x = page
    <3>1. Left(page, ro) = page.flags
      BY DEF Left
    <3>2. \A d \in 1 .. 2 : Node(page.va, d) \in DOMAIN space.nodes
      BY DEF Missing
    <3> QED  BY <1>2, <1>3, <2>2, <3>1, <3>2
  <2> QED  BY <2>1, <2>2
<1>7. DOMAIN next.entries = { Path(x.va) : x \in pages \cup {page} }
  BY <1>5
<1>8. Holds(next, pages \cup {page}, ro)
  BY <1>6, <1>7 DEF Holds
<1> QED
  BY <1>1, <1>8, NotHeld

(* More nodes, the same entries. *)
LEMMA MoreNodes ==
  ASSUME NEW space, NEW next, NEW pages, NEW ro, Holds(space, pages, ro),
         next.entries = space.entries, DOMAIN space.nodes \subseteq DOMAIN next.nodes
  PROVE  Holds(next, pages, ro)
<1> USE Zenon
<1>1. /\ DOMAIN next.entries = { Path(page.va) : page \in pages }
      /\ \A page \in pages :
           /\ next.entries[Path(page.va)] = make_entry(page.pa, Left(page, ro))
           /\ \A d \in 1 .. 2 : Node(page.va, d) \in DOMAIN space.nodes
  BY DEF Holds
<1> QED
  BY <1>1 DEF Holds

(* lock_table and unlock_table: the entry of one frame of the heap. *)
LEMMA Relock ==
  ASSUME NEW space, NEW next, NEW pages \in SUBSET PageSet, NEW ro, NEW to,
         Holds(space, pages, ro),
         NEW page \in pages, \A x \in pages : get_number(x.pa) = get_number(page.pa) => x = page,
         \A g : g # get_number(page.pa) => (g \in to <=> g \in ro),
         next.nodes = space.nodes,
         next.entries = Put(space.entries, Path(page.va), make_entry(page.pa, Left(page, to)))
  PROVE  Holds(next, pages, to)
<1> USE Zenon
<1>1. PICK entries, path, e : entries = space.entries /\ path = Path(page.va)
                              /\ e = make_entry(page.pa, Left(page, to))
  OBVIOUS
<1>2. DOMAIN entries = { Path(x.va) : x \in pages }
  BY <1>1 DEF Holds
<1>3. /\ DOMAIN next.entries = DOMAIN entries \cup {path} /\ next.entries[path] = e
      /\ \A z \in DOMAIN entries : z # path => next.entries[z] = entries[z]
  <2>1. next.entries = Put(entries, path, e)
    BY <1>1
  <2> QED  BY <2>1 DEF Put
<1>4. \A z : z \in DOMAIN next.entries <=> z \in { Path(x.va) : x \in pages }
  BY <1>1, <1>2, <1>3
<1>5. DOMAIN next.entries = { Path(x.va) : x \in pages }
  BY <1>4
<1>6. ASSUME NEW x \in pages
      PROVE  /\ next.entries[Path(x.va)] = make_entry(x.pa, Left(x, to))
             /\ \A d \in 1 .. 2 : Node(x.va, d) \in DOMAIN next.nodes
  <2>1. /\ space.entries[Path(x.va)] = make_entry(x.pa, Left(x, ro))
        /\ \A d \in 1 .. 2 : Node(x.va, d) \in DOMAIN space.nodes
        /\ page.flags = page.flags
    BY DEF Holds
  <2>2. CASE Path(x.va) # path
    <3>1. x # page
      BY <1>1, <2>2
    <3>2. get_number(x.pa) \in to <=> get_number(x.pa) \in ro
      BY <3>1
    <3>3. Left(x, to) = Left(x, ro)
      BY <3>2 DEF Left
    <3>4. Path(x.va) \in DOMAIN entries
      BY <1>2
    <3> QED  BY <1>1, <1>3, <2>1, <2>2, <3>3, <3>4
  <2>3. CASE Path(x.va) = path
    <3>1. /\ make_entry(x.pa, Left(x, ro)) = make_entry(page.pa, Left(page, ro))
          /\ x \in PageSet /\ page \in PageSet
      <4>1. space.entries[Path(page.va)] = make_entry(page.pa, Left(page, ro))
        BY DEF Holds
      <4> QED  BY <1>1, <2>1, <2>3, <4>1
    <3>2. x.pa = page.pa
      <4>1. Left(x, ro) \in SUBSET PTEFlags /\ Left(page, ro) \in SUBSET PTEFlags
        BY <3>1, LeftFlags
      <4>2. /\ PTE2PA(make_entry(x.pa, Left(x, ro))) = x.pa
            /\ PTE2PA(make_entry(page.pa, Left(page, ro))) = page.pa
        BY <3>1, <4>1, PageEntry
      <4> QED  BY <3>1, <4>2
    <3>3. x = page
      BY <3>2
    <3> QED  BY <1>1, <1>3, <2>1, <3>3
  <2> QED  BY <2>2, <2>3
<1> QED
  BY <1>5, <1>6 DEF Holds

(* What a table holds was made for its pages. *)
LEMMA HoldsWithin ==
  ASSUME NEW space, NEW pages, NEW all, pages \subseteq all, NEW ro, Holds(space, pages, ro)
  PROVE  Within(space, all)
<1> USE Zenon
<1> SUFFICES ASSUME NEW path \in DOMAIN space.entries
             PROVE  \E page \in all :
                      space.entries[path] \in { make_entry(page.pa, page.flags),
                                                make_entry(page.pa, page.flags \ {"WRITABLE"}) }
  BY DEF Within
<1>1. PICK page \in pages : path = Path(page.va)
  BY DEF Holds
<1>2. space.entries[path] = make_entry(page.pa, Left(page, ro))
  BY <1>1 DEF Holds
<1>3. Left(page, ro) = page.flags \/ Left(page, ro) = page.flags \ {"WRITABLE"}
  BY DEF Left
<1> QED
  BY <1>2, <1>3
=============================================================================

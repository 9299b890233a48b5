---------------------------- MODULE AddressSpace ----------------------------
(***************************************************************************)
(* The address spaces hart 0 builds and uses on its way to the first user  *)
(* program, with real addresses and page table entries (mm/address_space,  *)
(* mm/page_table, mm/memory, process/process.rs).                          *)
(*                                                                         *)
(*   make_kernel, verify, load -> PCB::allocate -> make_init ->            *)
(*   first_execution_init -> lock_space -> usertrapret -> user -> usertrap *)
(*                                                                         *)
(* One step is one frame taken or one entry written, so memory can run out *)
(* at every place it is asked for.  A store is checked against the space   *)
(* the hart has loaded.  A failed assertion, unwrap or store ends in       *)
(* "assertion", an exhausted allocator in "out_of_frames".  At usertrapret *)
(* the kernel space may be locked or unlocked again, as other harts do     *)
(* under its write lock.  ProcessManager says when the steps are taken.    *)
(***************************************************************************)
EXTENDS Layout, Sequences, FiniteSets, FiniteSetsExt, Functions

InitPid == 0
Hart0 == 0

VARIABLES
  image,     \* the kernel image that was booted, a member of Images
  free,      \* numbers of the free frames of the heap
  spaces,    \* "kernel", "init" and "another" -> space
  todo,      \* what the current loop still has to map or to lock
  loaded,    \* the space in satp, "bare" before hart_init
  locked,    \* the kernel's nodes are read-only
  op,        \* "lock" or "unlock", what lock_space's steps are run for
  kernel_stacks,  \* pid -> the frame of its KernelStackGuard
  pcb,       \* the init process: its trap context
  step       \* where hart 0 is on the path

spaceVars == << image, free, spaces, todo, loaded, locked, op, kernel_stacks, pcb, step >>

SpaceNames == {"kernel", "init", "another"}

(* A space: its areas, its nodes (the index path from the root -> frame),  *)
(* their frames in the order they were allocated (node_frames) and the     *)
(* leaf entries that were written (index path -> entry).                   *)
NoSpace == [areas |-> << >>, nodes |-> << >>, node_frames |-> << >>, entries |-> << >>]

\* function fn with x mapped to y
Put(fn, x, y) == [z \in DOMAIN fn \cup {x} |-> IF z = x THEN y ELSE fn[z]]

RW == {"READABLE", "WRITABLE"}
RX == {"READABLE", "EXECUTABLE"}

(* VirtArea.  "frames" lists the tracked pages with their frames, "owned"  *)
(* are the frames the area gives back when it is dropped.                  *)
VirtArea(va_begin, va_end, perms, frames, owned) ==
  [ begin |-> get_number(PG_ROUND_DOWN(va_begin)), end |-> get_number(PG_ROUND_UP(va_end)),
    perms |-> perms, identical |-> FALSE, frames |-> frames, owned |-> owned ]

identically_mapped(pa_begin, pa_end, perms) ==
  [VirtArea(pa_begin, pa_end, perms, << >>, {}) EXCEPT !.identical = TRUE]

\* FrameGuard behind one page of an area, VirtFrameGuard::ExclusivelyAllocated
exclusive(va_begin, va_end, perms, frame) ==
  VirtArea(va_begin, va_end, perms, << << get_number(va_begin), frame >> >>, {frame})

make_trampoline ==
  VirtArea(TRAMPOLINE_BASE_VA, MAX_VA, RX,
           << << get_number(TRAMPOLINE_BASE_VA), get_number(trampoline_start(image)) >> >>, {})

make_trapframe_User(frame) ==
  exclusive(TRAPFRAME_BASE_USER_VA, TRAPFRAME_BASE_USER_VA + PAGE_SIZE, RW \cup {"USER"}, frame)

make_trapframe(frame) ==
  exclusive(TRAPFRAME_BASE_USER_VA, TRAPFRAME_BASE_USER_VA + PAGE_SIZE, RW, frame)

text_va_end == PG_ROUND_UP(TEXT_BASE_USER_VA + image.initcode)

make_initial_user_stack_Adjacent(frame) ==
  exclusive(text_va_end, text_va_end + PAGE_SIZE, RW \cup {"USER"}, frame)

make_initial_user_stack(frame) ==
  exclusive(text_va_end + PAGE_SIZE, text_va_end + 2 * PAGE_SIZE, RW \cup {"USER"}, frame)

\* The area spans the whole program; one frame is tracked.
init_text(frame) == exclusive(TEXT_BASE_USER_VA, text_va_end, RX \cup {"USER"}, frame)

kernel_areas ==
  << make_trampoline,
     identically_mapped(kernel_stack_end(image), heap_end(image), RW),
     identically_mapped(bss_end(image), kernel_stack_end(image), RW),
     identically_mapped(data_end(image), bss_end(image), RW),
     identically_mapped(rodata_end(image), data_end(image), RW),
     identically_mapped(text_end(image), rodata_end(image), {"READABLE"}),
     identically_mapped(KERNEL_BASE, text_end(image), RX),
     identically_mapped(VIRTIO_BASE, VIRTIO_BASE + PAGE_SIZE, RW),
     identically_mapped(UART_BASE, UART_BASE + PAGE_SIZE, RW),
     identically_mapped(PLIC_BASE, PLIC_BASE + PLIC_SIZE, RW),
     identically_mapped(CLINT_BASE, CLINT_BASE + CLINT_SIZE, RW) >>

\* What map_virt_area_allocate maps for an area, in order
Pages(area) ==
  LET page(n, frame) == [ va    |-> get_base_addr(n),
                          pa    |-> get_base_addr(frame),
                          flags |-> area.perms \cup {"VALID"} ]
  IN  IF area.identical
      THEN [k \in 1 .. area.end - area.begin |-> page(area.begin + k - 1, area.begin + k - 1)]
      ELSE [k \in DOMAIN area.frames |-> page(area.frames[k][1], area.frames[k][2])]

PagesOf(areas) ==
  LET upto[k \in 0 .. Len(areas)] == IF k = 0 THEN << >> ELSE upto[k - 1] \o Pages(areas[k])
  IN  upto[Len(areas)]

-----------------------------------------------------------------------------
(* Walking a table *)

Path(va) == << pte_index(va, 2), pte_index(va, 1), pte_index(va, 0) >>
Node(va, depth) == SubSeq(Path(va), 1, depth)

\* find returns Some(entry) as soon as the leaf node is there
Found(space, va) == Node(va, 2) \in DOMAIN space.nodes
find(space, va) == IF Path(va) \in DOMAIN space.entries THEN space.entries[Path(va)] ELSE 0

translate(space, va) == with_offset(PTE2PA(find(space, va)), offset(va))

\* The hardware's walk: va reaches pa in the loaded space, with these flags
Reaches(in, va, pa, fl) ==
  \/ in = "bare" /\ va = pa
  \/ /\ in # "bare"
     /\ Found(spaces[in], va)
     /\ fl \cup {"VALID"} \subseteq flags(find(spaces[in], va))
     /\ PTE2PA(find(spaces[in], va)) = PG_ROUND_DOWN(pa)

Storable(pa) == Reaches(loaded, pa, pa, {"WRITABLE"})

make_satp(name) == spaces[name].nodes[<< >>]

-----------------------------------------------------------------------------
(* Control *)

\* An assertion, an unwrap or a store holds, or the hart panics.
Proceed(ok, label) == step' = IF ok THEN label ELSE "assertion"

\* FrameGuard::allocate_zeroed: the allocator's first free frame, filled with zeroes
allocate(frame) == free # {} /\ frame = Min(free) /\ free' = free \ {frame}
Fresh(frame) == Storable(get_base_addr(frame))

Mapping ==
  [ map_kernel    |-> [space |-> "kernel",  then |-> "verify"],
    map_init      |-> [space |-> "init",    then |-> "init_trapframe"],
    map_trapframe |-> [space |-> "init",    then |-> "first_execution_init"],
    map_another   |-> [space |-> "another", then |-> "load_another"] ]

Missing(space, va) == { d \in 1 .. 2 : Node(va, d) \notin DOMAIN space.nodes }

OutOfFrames ==
  /\ free = {}
  /\ \/ step \in {"make_kernel", "PCB_allocate", "user_stack", "text", "make_init",
                "init_trapframe", "lock_space"}
     \/ step \in DOMAIN Mapping /\ Missing(spaces[Mapping[step].space], Head(todo).va) # {}
  /\ step' = "out_of_frames"
  /\ UNCHANGED << image, free, spaces, todo, loaded, locked, op, kernel_stacks, pcb >>

\* PageTableGuard::allocate for the areas of a space, then map them
AllocateRoot(name, areas, from, to) ==
  /\ step = from
  /\ \E f \in free :
       /\ allocate(f)
       /\ spaces' = [spaces EXCEPT ![name] = [NoSpace EXCEPT !.areas = areas, !.nodes = Put(@, << >>, f),
                                                            !.node_frames = << f >>]]
       /\ Proceed(Fresh(f), to)
  /\ todo' = PagesOf(areas)

make_kernel ==
  /\ AllocateRoot("kernel", kernel_areas, "make_kernel", "map_kernel")
  /\ UNCHANGED << image, loaded, locked, op, kernel_stacks, pcb >>

\* find_allocate: the first interior node that is missing on the way to the page
allocate_node ==
  /\ step \in DOMAIN Mapping
  /\ LET name == Mapping[step].space
         va == Head(todo).va
         missing == Missing(spaces[name], va)
     IN  /\ missing # {}
         /\ \E f \in free :
              LET d == Min(missing)
                  parent == spaces[name].nodes[Node(va, d - 1)]
                  entry == make_entry(get_base_addr(f), {"VALID"})
              IN  /\ allocate(f)
                  /\ spaces' = [spaces EXCEPT ![name].nodes = Put(@, Node(va, d), f),
                                              ![name].node_frames = Append(@, f)]
                  /\ Proceed(/\ Fresh(f) /\ Storable(get_base_addr(parent))
                          /\ PTE2PA(entry) = get_base_addr(f) /\ flags(entry) = {"VALID"}, step)
  /\ UNCHANGED << image, todo, loaded, locked, op, kernel_stacks, pcb >>

map_one_allocate ==
  /\ step \in DOMAIN Mapping
  /\ LET name == Mapping[step].space
         page == Head(todo)
         entry == make_entry(page.pa, page.flags)
     IN  /\ Missing(spaces[name], page.va) = {}
         /\ spaces' = [spaces EXCEPT ![name].entries = Put(@, Path(page.va), entry)]
         /\ Proceed(/\ ~is_valid(find(spaces[name], page.va))
                 /\ Storable(get_base_addr(spaces[name].nodes[Node(page.va, 2)]))
                 /\ PTE2PA(entry) = page.pa /\ flags(entry) = page.flags,
                 IF Len(todo) = 1 THEN Mapping[step].then ELSE step)
  /\ todo' = Tail(todo)
  /\ UNCHANGED << image, free, loaded, locked, op, kernel_stacks, pcb >>

\* verify_virt_area_mapping: what find returns is what the areas say
Verified(space) ==
  \A page \in Range(PagesOf(space.areas)) :
    Found(space, page.va) => /\ PTE2PA(find(space, page.va)) = page.pa
                             /\ flags(find(space, page.va)) = page.flags

\* KERNEL_ADDRESS_SPACE is verified, then hart_init loads it
verify ==
  /\ step = "verify"
  /\ Proceed(Verified(spaces["kernel"]), "PCB_allocate")
  /\ loaded' = "kernel"
  /\ UNCHANGED << image, free, spaces, todo, locked, op, kernel_stacks, pcb >>

-----------------------------------------------------------------------------
(* The init process *)

\* a zeroed trap context, of none
NoPcb == [trap_context |-> 0, kernel_sp |-> 0, sepc |-> 0, satp |-> 0, tp |-> 0]

\* KernelStackGuard::allocate
AllocateStack(pid, frame) ==
  /\ allocate(frame)
  /\ kernel_stacks' = Put(kernel_stacks, pid, frame)

\* ProcessControlBlock::allocate
PCB_allocate ==
  /\ step = "PCB_allocate"
  /\ \E f \in free : AllocateStack(InitPid, f) /\ Proceed(Fresh(f), "user_stack")
  /\ UNCHANGED << image, spaces, todo, loaded, locked, op, pcb >>

\* make_init, its areas first: trampoline and user stack, then the text
make_init_stack ==
  /\ step = "user_stack"
  /\ \E f \in free :
       /\ allocate(f)
       /\ spaces' = [spaces EXCEPT !["init"].areas =
                       << make_trampoline, make_initial_user_stack(f) >>]
       /\ Proceed(Fresh(f), "text")
  /\ UNCHANGED << image, todo, loaded, locked, op, kernel_stacks, pcb >>

make_init_text ==
  /\ step = "text"
  /\ \E f \in free : /\ allocate(f)
                     /\ spaces' = [spaces EXCEPT !["init"].areas = Append(@, init_text(f))]
                     /\ Proceed(Fresh(f), "make_init")
  /\ UNCHANGED << image, todo, loaded, locked, op, kernel_stacks, pcb >>

make_init ==
  /\ AllocateRoot("init", spaces["init"].areas, "make_init", "map_init")
  /\ UNCHANGED << image, loaded, locked, op, kernel_stacks, pcb >>

\* the page's address becomes trap_context
init_trapframe ==
  /\ step = "init_trapframe"
  /\ \E f \in free :
       /\ allocate(f)
       /\ spaces' = [spaces EXCEPT !["init"].areas = Append(@, make_trapframe(f))]
       /\ todo' = Pages(make_trapframe(f))
       /\ pcb' = [pcb EXCEPT !.trap_context = get_base_addr(f)]
       /\ Proceed(Fresh(f), "map_trapframe")
  /\ UNCHANGED << image, loaded, locked, op, kernel_stacks >>

first_execution_init ==
  /\ step = "first_execution_init"
  /\ pcb' = [pcb EXCEPT !.kernel_sp = get_base_addr(kernel_stacks[InitPid]) + PAGE_SIZE,
                        !.sepc = TEXT_BASE_USER_VA, !.satp = make_satp("kernel")]
  /\ Proceed(/\ Verified(spaces["init"])
          /\ Found(spaces["init"], TRAPFRAME_BASE_USER_VA)
          /\ translate(spaces["init"], TRAPFRAME_BASE_USER_VA) = pcb.trap_context
          /\ Storable(pcb.trap_context), "lock_space")
  /\ UNCHANGED << image, free, spaces, todo, loaded, locked, op, kernel_stacks >>

-----------------------------------------------------------------------------
(* lock_space and unlock_space *)

make_another ==
  /\ AllocateRoot("another", kernel_areas, "lock_space", "map_another")
  /\ UNCHANGED << image, loaded, locked, op, kernel_stacks, pcb >>

\* later calls, while the hart is in the kernel
Again ==
  /\ step = "usertrapret"
  /\ op' \in {"lock", "unlock"}
  /\ step' = "lock_space"
  /\ UNCHANGED << image, free, spaces, todo, loaded, locked, kernel_stacks, pcb >>

\* another_space.load()
load_another_Skipped ==
  /\ step = "load_another"
  /\ todo' = spaces["kernel"].node_frames
  /\ step' = "lock_table"
  /\ UNCHANGED << image, free, spaces, loaded, locked, op, kernel_stacks, pcb >>

load_another ==
  /\ step = "load_another"
  /\ loaded' = "another"
  /\ todo' = spaces["kernel"].node_frames
  /\ step' = "lock_table"
  /\ UNCHANGED << image, free, spaces, locked, op, kernel_stacks, pcb >>

\* lock_table, unlock_table: one frame of node_frames
lock_table ==
  /\ step = "lock_table"
  /\ LET kernel == spaces["kernel"]
         va == get_base_addr(Head(todo))
         old == find(kernel, va)
         new == make_entry(PTE2PA(old), IF op = "lock" THEN flags(old) \ {"WRITABLE"}
                                                       ELSE flags(old) \cup {"WRITABLE"})
     IN  /\ spaces' = [spaces EXCEPT !["kernel"].entries = Put(@, Path(va), new)]
         /\ Proceed(Found(kernel, va) /\ Storable(get_base_addr(kernel.nodes[Node(va, 2)])),
                 IF Len(todo) = 1 THEN "load_self" ELSE step)
  /\ todo' = Tail(todo)
  /\ UNCHANGED << image, free, loaded, locked, op, kernel_stacks, pcb >>

\* self.load(); drop(another_space)
load_self_Kept ==
  /\ step = "load_self"
  /\ loaded' = "kernel"
  /\ locked' = (op = "lock")
  /\ spaces' = [spaces EXCEPT !["another"] = NoSpace]
  /\ step' = "usertrapret"
  /\ UNCHANGED << image, free, todo, op, kernel_stacks, pcb >>

load_self ==
  /\ step = "load_self"
  /\ loaded' = "kernel"
  /\ locked' = (op = "lock")
  /\ free' = free \cup Range(spaces["another"].node_frames)
  /\ spaces' = [spaces EXCEPT !["another"] = NoSpace]
  /\ step' = "usertrapret"
  /\ UNCHANGED << image, todo, op, kernel_stacks, pcb >>

-----------------------------------------------------------------------------
(* To user mode and back *)

set_tp_Forgotten(hart) == UNCHANGED pcb

set_tp(hart) == pcb' = [pcb EXCEPT !.tp = hart]

\* set_tp stores to the trap context, then the satp assertion
usertrapret ==
  /\ step = "usertrapret"
  /\ set_tp(Hart0)
  /\ Proceed(Storable(pcb.trap_context) /\ make_satp(loaded) = pcb.satp, "userret")
  /\ UNCHANGED << image, free, spaces, todo, loaded, locked, op, kernel_stacks >>

(* userret_on_trampoline: its tests, the jump to the trampoline, which     *)
(* goes on executing and reading the trap context in the user's space      *)
userret_on_trampoline ==
  /\ step = "userret"
  /\ LET addr == TRAMPOLINE_BASE_VA + image.userret
         uservec == trampoline_start(image)
     IN  Proceed(/\ Found(spaces["init"], addr) /\ Found(spaces["kernel"], addr)
              /\ translate(spaces["init"], addr) = translate(spaces["kernel"], addr)
              /\ Found(spaces["init"], TRAMPOLINE_BASE_VA)
              /\ translate(spaces["init"], TRAMPOLINE_BASE_VA) = uservec
              /\ \A s \in {"kernel", "init"} :
                   Reaches(s, addr, uservec + image.userret, {"EXECUTABLE"})
              /\ Reaches("init", TRAPFRAME_BASE_USER_VA, pcb.trap_context, {"READABLE"}),
              "user")
  /\ loaded' = "init"
  /\ UNCHANGED << image, free, spaces, todo, locked, op, kernel_stacks, pcb >>

Fetchable(va) ==
  /\ Found(spaces["init"], va)
  /\ {"VALID", "EXECUTABLE", "USER"} \subseteq flags(find(spaces["init"], va))

\* the pages of the program, from sepc on
ProgramPages == { pcb.sepc + k * PAGE_SIZE : k \in 0 .. get_number(image.initcode - 1) }

(* The program makes a system call from one of its pages.  uservec saves   *)
(* the registers in the trap context, switches to the kernel space and     *)
(* calls usertrap on the process's kernel stack, which pushes there.       *)
ecall ==
  /\ step = "user"
  /\ \E va \in ProgramPages : Fetchable(va)
  /\ Proceed(/\ Reaches("init", TRAMPOLINE_BASE_VA, trampoline_start(image), {"EXECUTABLE"})
          /\ Reaches("init", TRAPFRAME_BASE_USER_VA, pcb.trap_context, {"WRITABLE"})
          /\ pcb.satp = make_satp("kernel")
          /\ get_number(pcb.kernel_sp - 8) = kernel_stacks[InitPid]
          /\ Reaches("kernel", pcb.kernel_sp - 8, pcb.kernel_sp - 8, {"WRITABLE"})
          /\ Reaches("kernel", pcb.trap_context, pcb.trap_context, {"WRITABLE"}),
          "usertrapret")
  /\ loaded' = "kernel"
  /\ UNCHANGED << image, free, spaces, todo, locked, op, kernel_stacks, pcb >>

(* The program runs into a page it cannot execute.                         *)
(* InstructionPageFaultHandler::handle panics unless X and U are set.      *)
page_fault ==
  /\ step = "user"
  /\ \E va \in ProgramPages :
       /\ ~Fetchable(va)
       /\ step' = IF /\ Found(spaces["init"], va)
                   /\ {"EXECUTABLE", "USER"} \subseteq flags(find(spaces["init"], va))
                THEN "usertrapret" ELSE "page_fault"
  /\ loaded' = "kernel"
  /\ UNCHANGED << image, free, spaces, todo, locked, op, kernel_stacks, pcb >>

-----------------------------------------------------------------------------

InitSpaces ==
  /\ image \in Images
  /\ free = Heap(image)
  /\ spaces = [s \in SpaceNames |-> NoSpace]
  /\ todo = << >>
  /\ loaded = "bare"
  /\ locked = FALSE
  /\ op = "lock"
  /\ kernel_stacks = << >>
  /\ pcb = NoPcb
  /\ step = "make_kernel"

SpaceStep ==
  \/ make_kernel \/ allocate_node \/ map_one_allocate \/ verify
  \/ PCB_allocate \/ make_init_stack \/ make_init_text \/ make_init
  \/ init_trapframe \/ first_execution_init
  \/ make_another \/ Again \/ load_another \/ lock_table \/ load_self
  \/ usertrapret \/ userret_on_trampoline \/ ecall \/ page_fault
  \/ OutOfFrames

Stopped == {"assertion", "out_of_frames", "page_fault"}

\* process::init is over, and the other harts run
Underway ==
  Stopped \cup {"lock_space", "map_another", "load_another", "lock_table", "load_self",
               "usertrapret", "userret", "user"}

(* What the harts do to this state besides: the kernel stack of a process  *)
(* that has none yet, and tp in the trap context.                          *)
OtherStep ==
  \/ /\ step \in Underway
     /\ \E pid \in DOMAIN kernel_stacks' \ DOMAIN kernel_stacks : \E f \in free : AllocateStack(pid, f)
     /\ UNCHANGED << image, spaces, todo, loaded, locked, op, pcb, step >>
  \/ /\ set_tp(pcb'.tp)
     /\ UNCHANGED << image, free, spaces, todo, loaded, locked, op, kernel_stacks, step >>

SpaceNext == SpaceStep \/ OtherStep

(* The spaces among the harts.  ProcessManager takes no other step that    *)
(* touches them: a process that is created or resumed anywhere leaves the  *)
(* tables, the areas and init's kernel stack as they are.                  *)
SpaceSpec == InitSpaces /\ [][SpaceNext]_spaceVars

-----------------------------------------------------------------------------
(* Properties *)

SpacesTypeOK ==
  /\ image \in Images
  /\ free \subseteq Heap(image)
  /\ DOMAIN spaces = SpaceNames
  /\ \A s \in SpaceNames : Range(spaces[s].nodes) = Range(spaces[s].node_frames)
  /\ loaded \in SpaceNames \cup {"bare"}
  /\ loaded # "bare" => spaces[loaded].nodes # << >>
  /\ locked \in BOOLEAN /\ op \in {"lock", "unlock"}
  /\ step \in Stopped \cup DOMAIN Mapping \cup
            {"make_kernel", "verify", "PCB_allocate", "user_stack", "text", "make_init",
             "init_trapframe", "first_execution_init", "lock_space", "load_another",
             "lock_table", "load_self", "usertrapret", "userret", "user"}

(* No assertion, unwrap or store of the whole path fails, for any image    *)
(* and however little memory there is: no mapping is overwritten, what was *)
(* written verifies, every store is to a page that is writable in the      *)
(* space that is loaded, the trampoline and the trap context are where     *)
(* both sides of the switch expect them, and the first push of usertrap    *)
(* is in the process's own kernel stack.  The program faults only when it  *)
(* is longer than the one frame make_init gives it.                        *)
AssertionsHold ==
  /\ step # "assertion"
  /\ step = "page_fault" => image.initcode > PAGE_SIZE

\* where frame f is in node_frames
Positions(f) ==
  UNION { { << s, k >> : k \in { n \in DOMAIN spaces[s].node_frames :
                                   spaces[s].node_frames[n] = f } } : s \in SpaceNames }

\* the number of owners of a frame: the allocator, tables, areas, kernel stacks
Owners(f) ==
  (IF f \in free THEN 1 ELSE 0) + Cardinality({ p \in DOMAIN kernel_stacks : kernel_stacks[p] = f })
  + Cardinality(Positions(f))
  + Cardinality({ k \in DOMAIN spaces["init"].areas : f \in spaces["init"].areas[k].owned })

(* Every frame of the heap has exactly one owner: it is free, or a node of *)
(* one table, or a frame of one area, or a kernel stack.  lock_space       *)
(* gives back all it took (FrameGuard, Drop).                              *)
FramesOwnedOnce ==
  \A f \in Heap(image) : Owners(f) = 1

\* the pages of a space map_virt_area_allocate has not reached
Pending(name) ==
  IF step \in DOMAIN Mapping THEN IF Mapping[step].space = name THEN Range(todo) ELSE {} ELSE {}

\* the nodes of the kernel's table that are read-only at this point
ReadOnlyNodes ==
  { f \in Range(spaces["kernel"].node_frames) :
      IF step \notin {"lock_table", "load_self"} \/ f \in Range(todo) THEN locked ELSE op = "lock" }

(* A table maps exactly the pages of its areas, each to the area's frame   *)
(* with the area's permissions, but for the kernel's own nodes, which lose *)
(* the right to be written exactly while the space is locked.  The page    *)
(* after the program's text, below the user stack, and the page between    *)
(* trapframe and trampoline stay unmapped.                                 *)
MapsMatchAreas ==
  step \notin Stopped =>
    /\ \A name \in { s \in SpaceNames : spaces[s].nodes # << >> } :
         LET space == spaces[name]
             pages == Range(PagesOf(space.areas)) \ Pending(name)
             readonly == IF name = "kernel" THEN ReadOnlyNodes ELSE {}
         IN  /\ DOMAIN space.entries = { Path(page.va) : page \in pages }
             /\ \A page \in pages :
                  LET lost == IF get_number(page.pa) \in readonly THEN {"WRITABLE"} ELSE {}
                      entry == find(space, page.va)
                  IN  PTE2PA(entry) = page.pa /\ flags(entry) = page.flags \ lost
    /\ \A va \in {text_va_end, TRAPFRAME_BASE_USER_VA + PAGE_SIZE} :
         ~is_valid(find(spaces["init"], va))

\* the frames a space reaches with all of the given flags
FramesWith(name, fl) ==
  { get_number(PTE2PA(e)) : e \in { x \in Range(spaces[name].entries) : fl \subseteq flags(x) } }

(* In no space is a frame both writable and executable, through whatever   *)
(* aliases.  User mode reaches, with the U bit, no page of the kernel's    *)
(* space and only frames of the heap that no table, trap context, kernel   *)
(* stack or the allocator holds.                                           *)
Isolation ==
  /\ \A s \in SpaceNames : FramesWith(s, {"WRITABLE"}) \cap FramesWith(s, {"EXECUTABLE"}) = {}
  /\ FramesWith("kernel", {"USER"}) = {} /\ FramesWith("another", {"USER"}) = {}
  /\ LET user == FramesWith("init", {"USER"})
     IN  /\ user \subseteq Heap(image) \ free
         /\ get_number(pcb.trap_context) \notin user /\ user \cap Range(kernel_stacks) = {}
         /\ \A s \in SpaceNames : user \cap Range(spaces[s].node_frames) = {}
=============================================================================

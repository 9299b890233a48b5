# derek-core in TLA+

TLA+ models of the derek-core RISC-V kernel (`src/kernel/src`, paths below are
relative to it), the TLC configurations that check them on small instances, and
TLAPS proofs about the frame allocator, the page table, the address spaces, the
boot with its devices, the process manager, the locking of the kernel's space and
the trap path. `PROJECT.json` lists the runs, the map from definitions to source
lines, the findings, the hazards and the theorems.

    tlc -config MCFrameAllocator.cfg MCFrameAllocator     # a run
    tlapm FrameAllocatorProofs.tla                        # the proofs

## 1. The system

| part | state | operations | interacts with |
|---|---|---|---|
| frame allocator (`allocator/frame_allocator.rs`) | bitmap of block sizes behind `FRAME_ALLOCATOR` | allocate, deallocate | every owner of frames, on every hart |
| frames and guards (`mm/memory.rs`) | the frames each guard owns, their contents | allocate_zeroed, write, drop | frame allocator |
| page table (`mm/page_table.rs`) | root node, `node_frames`, entries in memory | allocate, map_one, map_one_allocate, find, lock_table, unlock_table, drop | frame guards |
| address spaces (`mm/address_space.rs`, `mm/mod.rs`) | a page table and its areas; `KERNEL_ADDRESS_SPACE` behind an RwLock; satp and TLB of a hart | make_kernel, make_init, init_trapframe, load, lock_space, unlock_space, translate, verify, drop | page table, harts |
| arithmetic and layout (`mm/arithmetics.rs`, `mm/layout.rs`, `kernel.ld`) | the addresses of sections, devices, trampoline, trapframe | rounding, page numbers, indices, entries | address spaces |
| boot (`asm/boot.S`, `start.rs`, `clint.rs`) | `.bss`, `HART0_STARTED`, `TIMER_SCRATCHES` | zero `.bss`, timer_init, kmain | everything that lives in `.bss` |
| trap path (`trap/`, `asm/trampoline.S`, `asm/kernelvec.S`, `process/context.rs`) | registers, CSRs, trapframe, lock of `PCBInner` | usertrapret, userret, uservec, usertrap, system calls, page faults, kernelvec, kerneltrap, timervec | address spaces, process |
| resource table (`common/resource_table.rs`) | `active_slots`, `free_ids`, `capacity` | reserve, initialise, get, remove | process manager |
| process manager (`process/manager.rs`, `process/mod.rs`, `cpu.rs`) | process table, ready queue, process of each hart | create_initcode, create_process, pop_one, push_one, set/take_executing_process | resource table, frame guards |
| process control block (`process/process.rs`) | kernel stack, trap context, user space | allocate, first_execution_init | address spaces, trap path |
| PLIC (`plic.rs`) | priorities; enable words and thresholds of each hart | init, hart_init | boot |
| UART and printing (`uart.rs`, `print.rs`) | line control, divisor, transmitter; `INFO_LOCK`, `UART` | init, put, print, panic print | boot, every hart |
| kernel heap, file system stub, user programs | library state | | |

What is hard here: harts that share an allocator and boot without a barrier;
panics, which stop a hart in a `wfi` loop (`lib.rs`) with every lock it holds;
unfair spin locks; interrupts between any two instructions of the kernel while
`stvec`, `satp` and `sscratch` are being switched; a page table that is made
read-only while it is in use; frames that run out in the middle of an
operation. The correctness questions: is a frame used by one owner only and
zeroed when handed out; is a table a tree of frames it owns, and does it map
what was asked for; can every hart boot; does a trap give the interrupted code
its state back; is a process in one place; do the spaces map what their areas
say, keep user mode apart from the kernel, and survive the switch; is output
lost; does every hart get its interrupts.

## 2. The modules

| module | models | shape |
|---|---|---|
| `FrameBitmap` | the bitmap search, marking and clearing | operators on a bitmap |
| `FrameAllocator` | the mutex, the public functions and `FrameGuard`, for any number of harts | one action between two points where another hart can get in |
| `FrameAllocatorSizes` | allocate and deallocate with several pages | sequential; only for a finding |
| `FrameAllocatorProofs` | theorems about `FrameAllocator` | |
| `PageTable` | `PageTableGuard` with real nodes in memory | one action per method (they take `&mut self` or run under the space's lock) |
| `PageTableProofs` | theorems about `PageTable`, up to the refinement of `AddrMap` | |
| `AddrMap` | what a page table promises: a partial map | abstract specification, implemented by `PageTable` |
| `Arithmetics`, `Layout` | rounding, page numbers, indices, the encoding of entries; the addresses that kernel.ld and `mm/layout.rs` fix | operators on numbers and images |
| `AddressSpace` | hart 0 builds the kernel's space and the init process, locks, unlocks, goes to user mode and comes back | one action per frame allocated and per entry written |
| `AddressSpaceProofs` | lemmas about `AddressSpace`: who owns a frame, the pages of areas, what a table holds | |
| `MapProofs` | theorems about `AddressSpace` among the harts (`SpaceSpec`): what the tables map | |
| `LockSpace` | the end of kmain on every hart: paging on, lock_space, usertrapret | composes the RwLock, the frames, satp and TLB of each hart |
| `LockSpaceProofs` | theorems about `LockSpace` | |
| `Uart`, `Plic` | the two drivers, register by register, and the devices that decode what they write | operators on the device's state |
| `Boot` | `_start` to usertrapret on every hart, with both devices and the printing macros | `.bss` as six parts that are zeroed one by one; a byte printed is two steps |
| `BootProofs` | theorems about `Plic` and `Boot` | |
| `ResourceTable`, `ProcessManager` | the id table; the mutex, the ready queue and `CPUS`, on top of `AddressSpace` | operators on the table; one action per critical step |
| `ProcessManagerProofs` | theorems about `ProcessManager` | |
| `ResourceTableRemove` | the table with remove_entry | sequential; only for a finding |
| `TrapPath` | one hart between kernel and user mode | one action per run of instructions between two points where an interrupt makes a difference |
| `TrapPathProofs` | theorems about `TrapPath` | |
| `MC*` | constants for TLC | |

An operator named `X_<Word>` just above an operator `X` is a faulty variant of
`X` that shows that the properties notice the fault; no action uses it.

State and code. A variable has the name of the field, register or static it
stands for wherever there is one. Added to that: `pc` (where a hart is), `cur`
and `pid` (its local variable), and in `TrapPath` the history variable `atTrap`.
Data is kept only as far as a property looks at it: a frame's content is zeroes
or data; a process is its pid; a slot is initialised or not; a register of
`TrapPath` holds a pair that names its value.

Things worth knowing when reading against the code:

* An action that can end in a panic has a panic step or a `panicked` label, and
  what is locked stays locked. A failed assertion is a panic.
* `ProcessManager`: only create_initcode and hart 0's first pop_one have callers
  in the kernel at present. The other operations are offered to all harts as the
  interface stands, with one rule of use: a hart pushes back the process that it
  has taken from itself. The init process and the first dispatch come first, as
  in `process::init`. From there two ways are explored apart: hart 0 alone goes
  on with kmain (`AddressSpace`), or all harts use the manager. The second is
  taken with at most `SpareFrames` frames left, which bounds the processes that
  can be made; the first is not bounded by it.
* `AddressSpace`: an image is the sizes of its sections, the length of the init
  program and the size of memory. Entries are numbers and every flag is a bit of
  them. A table is kept by paths of indices; `PageTable` has the nodes as memory.
  The stores of lock_table, set_tp and of the traps are tested against the space
  that is loaded. `offset` is `va & 12`, as in `mm/memory.rs:92`.
  `SpaceSpec` adds to hart 0's path what other harts may do to the same state: give
  a process a kernel stack, and write `tp`. `ProcessManager` implements it.
* `PageTable`, `LockSpace` and `AddressSpace` overlap on purpose: the walk through
  memory with any sequence of calls; many harts with TLBs and few pages; one hart
  with all pages.
* `TrapPath`: the user program leaves `tp` alone, an assumption taken from the
  comment at `asm/trampoline.S:38`: userret loads `tp` from the trap context,
  uservec only stores it, and the kernel goes on with what the program left in it.
  A tick in user mode ends in the panic of `usertrap` and an unknown system call
  number in that of `trap/syscall.rs:43`, so the transparency properties are about
  known system calls.
* `Boot`: kernel.ld puts the heap first in `.bss`; the order of the other statics
  is the linker's. `MCBoot` takes one order, the proofs any. Of the lines that are
  printed one is kept at each place where it may meet another hart's: "hart
  booting", make_kernel's in lock_space, handle_alloc_error's and the panic
  handler's. uart::init is one step, which `OthersWaitForHart0` justifies. An idle
  transmitter (`LSR_TX_IDLE`) means an empty FIFO. A late hart that zeroes the heap
  makes later allocations fail (`handle_alloc_error`), or the root of the kernel's
  space frame 0 (`LoadZeroes`). Interrupts come on with the intr_on after lock_space
  (`sie`) and go off in userret_on_trampoline; a tick in between is never got rid of,
  as `TrapPath` shows, so the hart stops there (`tick`).
* `LockSpace` starts where the initialisation of `Boot` ends: hart 0 on the kernel's
  space, the others before hart_init. It ends with the user space that __userret
  loads, with the panic of a hart without a process, or, as `Boot`, with a tick
  between intr_on and intr_off.
* Two assertions of the code are guards: `CallPopOne` asks for a hart that executes
  nothing (`cpu.rs:30`), which is a rule for its callers, and `OnPath` for pid 0
  (`process/process.rs:251`), which holds since init is created first. `Reflag`, where
  a node has no entry and lock_table panics, leaves out that the entries before it
  are changed already; nobody looks at a table after its panic.

## 3. The runs

| run | instance | what it shows |
|---|---|---|
| `frame_allocator` | 3 harts, 2 pages | one user per frame, exact bitmap, frames zeroed when handed out and not cleared while held; the panic means exhaustion; the mutex is released otherwise |
| `page_table` | 2 entries per node, 3 pages in 2 subtrees, 4 sets of free frames | the table is a tree of its own frames, returns them, writes nowhere else, locks exactly its own pages, and implements `AddrMap` |
| `lock_space` | 3 harts, 3 nodes, frames for one extra space or one too few | stores of lock_table never fault, no hart runs on freed nodes or keeps a writable translation of a locked one, no frame is lost; every hart gets to usertrapret if there are frames for one extra space |
| `boot` | 3 harts, FIFO of 3, lines of 1 byte | others never pass hart 0; no byte is lost, though panics print past the locks and late harts zero them; booted harts get their interrupts, in S-mode only; with a timely zeroing of `.bss` every hart gets to lock_space and finds everything set up |
| `process_manager` | 3 harts, table that starts with one id, tables of 8 entries, 33 images | ids partitioned, processes in one place, `tp` of a trap context current in user mode, the manager released; all assertions of the path to user mode and back hold, frames have one owner, tables match their areas, kernel and user are apart; the manager touches memory only as `SpaceSpec` says |
| `trap_path` | three system calls, numbers 0, 20 (last known) and 21 (first unknown) | fetches mapped, way back prepared, kernel registers kept, system calls transparent and returning |
| `blocks_overlap` | 3 pages, requests of one and two | finding: the search is wrong for requests of several pages |
| `boot_others_start` | 2 harts | finding: a late hart's zeroing of `.bss` |
| `remove_entry` | capacity 1 to 4 | finding: return_one asserts the opposite of what it should |
| `trap_ra_lost`, `trap_uservec_window`, `trap_kernel_resumes` | as `trap_path` | finding: ra is not restored; interrupts before intr_off in usertrapret; interrupts are not acknowledged |

The bounds. Two pages and three harts give contention for the last page, a
drop that races with an allocation of the same page and a panic with other harts
waiting. Two entries per node is the smallest fan-out with shared and separate
subtrees; the free sets make the table run out before the root, between two
interior nodes and before a leaf's node. In `lock_space` the node that holds the
entries of all nodes is locked in the middle of the loop, which is when the rest
of the loop depends on the other space. In `boot` the FIFO has room for one byte
of each hart, the least the argument allows (the device has 16). In
`process_manager` the table grows twice; the images have sections that end on a
page boundary, one byte before and one byte after it, empty ones, programs of a
byte, a page and a byte more, and 14 to 39 pages of memory, so that frames run
out at every step. Three bits of index instead of nine shrink the tables and
nothing else: all addresses are computed from the width. In `trap_path` a second
system call starts from what the first left.

`TimelyClearBoots` and `EveryHartGetsThrough` end before interrupts come on: after
that a tick may hold a hart for ever.

Deadlock is not checked: a panicked hart stops, and a finished boot has nothing
left to do. `remove_entry` runs until the violation.

Fairness is weak fairness of each hart's steps: a hart that can execute does. The
spin locks are unfair, so nothing is assumed of who gets one; the liveness
properties are about releasing a lock, or about harts that take it a fixed
number of times. In `FrameAllocator` only a hart that is inside an operation must
go on, in `ProcessManager` only the hart that holds the lock. The transmitter of
the UART goes on sending. Ticks and device interrupts owe nothing.

## 4. The proofs

`FrameAllocatorProofs` proves for any number of harts, any number of pages and
any page size: the types, `ExclusiveFrames`, `BitmapMatchesGuards`,
`HandedOutZeroed`, `HeldFramesKept`, `PanicMeansExhausted`. The
assumptions are those named in `FrameBitmap` and `FrameAllocator`: positive page
size, a bitmap smaller than the largest usize, and a value that is no hart.

The inductive invariant `IInv` adds `LockInv` to the properties: a hart is
inside allocate or deallocate exactly when it holds the mutex, a panicked hart
holds it too. Exclusiveness alone is not inductive, since allocate looks at the
bitmap and not at the guards; it needs the bitmap to be exact, and the exactness
of the bitmap when a frame is given back needs exclusiveness. The lemmas reduce
the search to one page: for a request of PAGE_SIZE the inner loop never stops
(the marks are 0 and 1, and the complement is 0 for the largest usize only), so
the first free page is taken, its address is the address of its frame, and
deallocating that address clears that page alone. `Invariance` has one case per
action. `HeldFramesKept` follows step by step: a frame that is being cleared is in
flight, so exclusiveness keeps it out of every guard.

`PageTableProofs` proves for any width of index, any set of pages and any free
frames: `TypeOK`, `TableIsTree`, `FramesConserved`, `WritesOwnNodes`, `LockExact` and
`ImplementsAddrMap`. The inductive invariant `TableInv` says that `node_frames` has
no repetition and nothing that is free (`Tracked`), and that memory is a tree of
two levels over exactly these frames: no two entries lead to the same node and
none leads back up (`Tree`). The walk goes by memory and not by `node_frames`, so
without `Tree` a write to one node could change the walk to another page. From it
lemmas follow about `find`: a step of find_allocate adds one node below a node of
the table and changes the walk to no other page, map_one changes one leaf, and
lock_table changes flags and no address. The refinement has one case per action: an
interior node is a stutter of `AddrMap`, a leaf a step.

`BootProofs` proves what hart_init of the PLIC writes, from the addresses it
computes, for hart ids 0 to 7: both sources for the hart's own S-mode context, no
other context, no priority (set_priority writes to words the device ignores here).
And for the same harts, any order of `.bss` and any length of line:

* `TypeOK`, by one lemma for printing and one case per step.
* `NoByteLost`, if the FIFO holds a byte of each hart. The locks are no help, as a
  panic takes none and zeroing frees them. `PortInv` counts instead: harts between
  the look at LSR and the write to THR, and bytes in the FIFO, never outnumber the
  harts. Who prints, and what is in `.bss`, says that the port is set up. It rests on
  `FlagInv`: the flag, if set, and any hart that has seen it mean that hart 0 is
  through. The second half is needed as late harts zero the flag again.
* `InterruptsReach`. `InterruptInv` says that priorities are set before the flag,
  that no M-mode context has a source and that S-mode keeps what it got.
* `OthersWaitForHart0`, from these: not only is hart 0 through, what it initialised
  outside `.bss` is there, the port by `PortInv`, the interrupts by `InterruptInv`.
* The part of `TimelyClearBoots` that is not progress (`SetUpOnce`): with no hart
  late in zeroing `.bss` (`NoLateClear`), the kernel's space is made once, no
  allocation fails and a booted hart finds all that was set up. `TimelyInv` says which
  part is set from which label of hart 0 on.

`ProcessManagerProofs` proves for any harts, images and initial capacity:

* `IdsPartitioned`. `IdsInv` adds that the capacity is positive, without which
  doubling it gives no new id.
* `ProcessInOnePlace`. `PlaceInv` adds the lock discipline (`HartsInv`): who is in a
  critical section holds the lock, who creates has an id that is reserved and not
  initialised, who takes a process has none. A process is counted in the queue, at
  the harts that execute it and at those that put it back (`PlacesInv`), and a
  reserved one must be nowhere, or its first enqueueing would be its second. One
  lemma per kind of move says that this process moves and no other does.
* `FramesOwnedOnce`, for any image and any amount of memory. `SpaceInv` in
  `AddressSpaceProofs` says how a space looks (`Shape`), what exists at which step
  of hart 0 (`Stage`) and that no two owners share a frame (`Owned`): an owner is the
  allocator, a place in `node_frames`, an area or a kernel stack. `MemoryInv` ties it
  to the manager: a pid has a kernel stack exactly when it is past its allocation.
  One lemma per kind of step says which frame changes hands.
* `UserTpCurrent` and `TypeOK`, from the same invariants.
* `SpaceSpec`: every step of the manager is a step of the spaces or leaves them
  alone. A process that is created gets a kernel stack under a pid that had none
  (`MemoryInv`), and only after process::init (`Underway`).
* `AssertionsHold`, `MapsMatchAreas` and `Isolation`, from `SpaceSpec` and `MapProofs`.

`MapProofs` proves these three of `SpaceSpec`, for any image, any width of index and
any amount of memory. This says more than the run: `ProcessManager` explores kmain
and the sharing of the manager apart, while in `SpaceSpec` other harts may allocate
a kernel stack or write `tp` between any two steps of lock_space and usertrapret.
`LayoutAssumption` says that devices and kernel lie apart and, like the init program
and its stack, below the trapframe. `PowersAssumption` states the powers of two of
which the provers know nothing; TLC evaluates both. `SpaceInv` is used throughout,
as a page that is in a table is known by its owner. The inductive invariant is
`MapInv`:

* `AreasInv`: the kernel's spaces have the areas of make_kernel; the init process has
  up to four areas of one page each, in the order of their creation.
* `RootsInv`, `WithinInv`: a space without a table has no entry, and every entry was
  made for a page of an area. They hold where the hart has stopped, too, which is
  what `Isolation` needs.
* `HoldInv`: each table has entries and inner nodes for exactly the pages of its areas
  less those still to map, with the frame and the flags of the area, less the write
  permission where it is taken at the time (`ReadOnlyNodes`).
* `TodoInv`: what the loops still have to do is pages of the areas, or nodes of the
  table, none of them twice. Otherwise map_one would find a mapping it made itself.
* `PathInv`: which space is loaded at which step, and what the trap context holds.
* `AssertionsHold` itself, as a failed assertion would be a step that stops.

`MapsMatchAreas` and `Isolation` are not inductive: which entry a walk reaches and
whether a store is allowed depend on the loaded space, which `PathInv` fixes. Before
that come the facts about data: an entry gives back the frame and the flags it was
made of, bit by bit (`PageEntry`); different pages have different index paths
(`PathsOfPages`); the sections of the linker script, rounded, share no page, so that
the areas' pages are distinct (`KernelPages`, `UserPages`). Then one fact per action
says that it keeps `MapInv`, in four groups: those that test and switch
(`TestsMap`), those that make areas and roots (`AllocationsMap`), the mapping loops
(`LoopsMap`) and lock_space (`RelockingMaps`). On the instance of `process_manager`,
TLC finds no violation of `MapInv` either.

`LockSpaceProofs` proves for any harts, nodes and free frames
`LockTableStoreAllowed`, `ActiveSpaceAllocated`, `LockEnforced` and `NoFrameLost`.
`LockSpaceAssumption` says that the nodes are a sequence with the node of their own
entries in it, that none of them is free, and that a space takes at least one
frame. `LockInv` says per hart (`HartInv`) that who is inside lock_space has the
write lock, that a hart is on its second space exactly during lock_table, and that
a node which is not read-only yet is among those still to be visited. The lock is
what keeps the second space of a hart apart from the frames others take and
return; without the nodes still to visit, nothing would follow at the end of the
loop. `TypeOK` follows with the types of the TLBs.

`TrapPathProofs` proves `FetchMapped`, `WayBackPrepared`, `KernelContextIntact` and
`SyscallTransparent` for programs of any length and any system call numbers. `TrapInv`
says label by label what `sscratch`, `stvec`, `satp`, `sstatus`, the trapframe and the
registers hold. It follows the program's registers from the trap (`atTrap`) through
the trapframe and back (`Trapped`). Interrupts are off at most labels. Where they
are on there are two cases: before the write to stvec an interrupt goes through
kernelvec and comes back; after it, it enters uservec on the kernel's space. From
there the kernel does not return (the finding of `trap_uservec_window`), and the
invariant tells this case from a trap of the program by satp (`Entered`). `TypeOK`
needs more (`TypeInv`): which of the named values a register, a CSR or the trapframe
may hold at every label.

Model-checked only: liveness (`MutexReleased`, `EveryHartGetsThrough`,
`ManagerReleased`, `SyscallReturns`, `TimelyClearBoots`), which is out of the
proof system's reach. Every safety invariant and action property of a passing run
is proved.

## 5. Not modelled

* The kernel heap (a library), the file system stub, the user programs and their
  system call stubs, formatting of output.
* Code without a caller: `Uart::get` (which tests LCR where LSR is meant),
  `Plic::next`, `complete` and `is_pending`, copy-on-write guards, page and frame
  ranges; exit_process and reap_process (empty). The user stack pointer is never
  set (`set_user_stack` has no caller), so the init program runs without one;
  `AddressSpace` only maps the stack.
* MTIMECMP, and time as such: a tick may come whenever it is enabled.
* Weak memory ordering: steps are sequentially consistent, as the debug build on
  one memory order would be. `HART0_STARTED` has no fence.

## 6. What could follow

1. `TrapPath` on two harts on top of `ProcessManager`, once the kernel reschedules.
2. PLIC claim and complete, once external interrupts are handled.

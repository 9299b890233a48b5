-------------------------------- MODULE Boot --------------------------------
(***************************************************************************)
(* From reset to usertrapret.  Every hart runs _start, which zeroes .bss,  *)
(* then kstart, which fills the hart's own timer scratch area, then kmain. *)
(* Hart 0 sets up the serial port, builds the kernel's state, sets up the  *)
(* interrupt controller and then HART0_STARTED, the others spin on that    *)
(* flag.  All of this state lies in .bss, the locks of the printing macros *)
(* included, and no hart waits for the others to be done with zeroing it.  *)
(* At the end hart 0 has the init process, every other hart panics for     *)
(* want of one.                                                            *)
(*                                                                         *)
(* Of what a hart prints, a line of LINE bytes stands for all that it      *)
(* prints at one place, at each place where it may meet another's print;   *)
(* what a kernel space that is made again prints is left out.  A byte      *)
(* takes two steps, the look at LSR and the write to THR.  uart::init is   *)
(* one step, as all other harts wait meanwhile (OthersWaitForHart0).       *)
(*                                                                         *)
(* KERNEL_ADDRESS_SPACE's lock, and the rest of lock_space, is module      *)
(* LockSpace.  No device interrupt is pending, only the timer's ticks are. *)
(***************************************************************************)
EXTENDS Uart, Plic, Sequences, Functions

CONSTANTS
  LINE,
  Bss        \* the parts of .bss in address order, a sequence

BootHart == 0
NoHart == 8
MANY == 2

\* "locks" are INFO_LOCK and UART.
Parts == { "heap", "KERNEL_ADDRESS_SPACE", "PROCESS_MANAGER", "TIMER_SCRATCHES", "HART0_STARTED",
           "locks" }

(* The FIFO, of 16 bytes in the device, has room for a byte of each hart.  *)
ASSUME BootAssumption ==
  /\ Bss \in Seq(Parts) /\ Range(Bss) = Parts
  /\ LINE \in Nat \ {0}
  /\ FIFO_DEPTH >= Cardinality(Harts)

VARIABLES
  pc,
  at,       \* how far a hart has come in zeroing .bss
  set,      \* the parts of .bss that hold what a hart has written to them
  scratch,  \* the harts whose entry of TIMER_SCRATCHES is filled in
  spaces,   \* how many kernel address spaces have been made, up to MANY
  sie,      \* the harts that take supervisor interrupts
  uart, plic,
  info_lock, uart_lock,  \* the holders of INFO_LOCK and of the mutex of UART
  io,       \* how far a hart is in printing a byte
  left      \* the bytes left of the line that a hart prints

memory == << at, set, scratch, spaces >>
locks == << info_lock, uart_lock >>
print == << io, left >>
vars == << pc, memory, sie, uart, plic, locks, print >>

Init ==
  /\ pc = [h \in Harts |-> "_start"]
  /\ at = [h \in Harts |-> 1]
  /\ set = {}
  /\ scratch = {}
  /\ spaces = 0
  /\ sie = {}
  /\ uart = PowerOn /\ plic = Reset
  /\ info_lock = NoHart /\ uart_lock = NoHart
  /\ io = [h \in Harts |-> "idle"] /\ left = [h \in Harts |-> 0]

Goto(h, from, to) == pc[h] = from /\ pc' = [pc EXCEPT ![h] = to]

\* The places where a hart prints a line, and where it goes from there
Lines == { "hart_booting", "make_another", "alloc_error", "panic" }
After == [ hart_booting |-> "hart_init", make_another |-> "lock_table",
           alloc_error |-> "panic", panic |-> "abort" ]

\* The hart begins a line: the panic handler's goes to a Uart of its own.
Say(h, line) ==
  /\ pc' = [pc EXCEPT ![h] = line]
  /\ io' = [io EXCEPT ![h] = IF line = "panic" THEN "put" ELSE "info"]
  /\ left' = [left EXCEPT ![h] = LINE]

\* The hart traps, which turns interrupts off, and never comes back.
TrapForEver(h, trap) ==
  /\ pc' = [pc EXCEPT ![h] = trap]
  /\ io' = [io EXCEPT ![h] = "idle"] /\ left' = [left EXCEPT ![h] = 0]
  /\ sie' = sie \ {h}
  /\ UNCHANGED << memory, uart, plic, locks >>

UnchangedDevices == UNCHANGED << sie, uart, plic, locks, print >>

-----------------------------------------------------------------------------
(* boot.S *)

Zero(part) ==
  /\ set' = set \ {part}
  /\ scratch' = IF part = "TIMER_SCRATCHES" THEN {} ELSE scratch
  /\ IF part = "locks" THEN info_lock' = NoHart /\ uart_lock' = NoHart ELSE UNCHANGED locks

ClearBss_OneTooFar(h) ==
  /\ pc[h] = "_start"
  /\ at[h] <= Len(Bss) + 1
  /\ at' = [at EXCEPT ![h] = @ + 1]
  /\ Zero(IF at[h] <= Len(Bss) THEN Bss[at[h]] ELSE "__kernel_stack_start")
  /\ UNCHANGED << pc, spaces, sie, uart, plic, print >>

ClearBss(h) ==
  /\ pc[h] = "_start"
  /\ at[h] <= Len(Bss)
  /\ at' = [at EXCEPT ![h] = @ + 1]
  /\ Zero(Bss[at[h]])
  /\ UNCHANGED << pc, spaces, sie, uart, plic, print >>

CallKstart(h) ==
  /\ at[h] = Len(Bss) + 1
  /\ Goto(h, "_start", "kstart")
  /\ UNCHANGED memory /\ UnchangedDevices

-----------------------------------------------------------------------------
(* kstart: timer_init, then mret to kmain, with timer interrupts enabled *)

timer_init(h) ==
  /\ Goto(h, "kstart", "kmain")
  /\ scratch' = scratch \cup {h}
  /\ set' = set \cup {"TIMER_SCRATCHES"}
  /\ UNCHANGED << at, spaces >> /\ UnchangedDevices

\* The timer interrupt with a scratch area of zeroes: the load from address 0
\* traps to timervec itself, for ever.
timervec_fault(h) ==
  /\ pc[h] \notin { "_start", "kstart", "fault" }
  /\ h \notin scratch
  /\ TrapForEver(h, "fault")

-----------------------------------------------------------------------------
(* kmain *)

uart_init(h) ==
  /\ h = BootHart
  /\ uart_lock = NoHart
  /\ Goto(h, "kmain", "allocator_init")
  /\ uart' = Uart_init(uart)
  /\ UNCHANGED << memory, sie, plic, locks, print >>

\* Dereferencing the lazy_static KERNEL_ADDRESS_SPACE makes the space if the
\* static is still, or again, zero.
KernelSpace(parts) ==
  /\ "heap" \in set
  /\ spaces' = IF "KERNEL_ADDRESS_SPACE" \in set THEN spaces ELSE IF spaces = 0 THEN 1 ELSE MANY
  /\ set' = set \cup {"KERNEL_ADDRESS_SPACE"} \cup parts
  /\ UNCHANGED << at, scratch >>

\* With the heap zeroed again, an allocation fails: handle_alloc_error prints
\* the layout and panics.  Every kernel space that is made allocates, so does
\* process::init, and CPUS if it is zero again.
handle_alloc_error(h) ==
  /\ "heap" \notin set
  /\ \/ pc[h] \in { "process_init", "lock_space", "lock_table" }
     \/ pc[h] \in { "make_kernel", "hart_init" } /\ "KERNEL_ADDRESS_SPACE" \notin set
     \/ pc[h] = "usertrapret" /\ "PROCESS_MANAGER" \notin set
  /\ Say(h, "alloc_error")
  /\ UNCHANGED << memory, sie, uart, plic, locks >>

\* The space that the static refers to is zeroed with the heap: the page table
\* it loads is frame 0, and no trap handler is installed yet.
LoadZeroes(h) ==
  /\ "heap" \notin set /\ "KERNEL_ADDRESS_SPACE" \in set
  /\ pc[h] = "hart_init" /\ TrapForEver(h, "fault")

\* allocator::init
AllocatorInit(h) ==
  /\ Goto(h, "allocator_init", "make_kernel")
  /\ set' = set \cup {"heap"}
  /\ UNCHANGED << at, scratch, spaces >> /\ UnchangedDevices

mm_init(h) ==
  /\ Goto(h, "make_kernel", "hart_init")
  /\ KernelSpace({})
  /\ UnchangedDevices

hart_init(h) ==
  /\ Goto(h, "hart_init", IF h = BootHart THEN "plic_init" ELSE "plic_hart_init")
  /\ KernelSpace({})
  /\ UnchangedDevices

InterruptInit(h) ==
  /\ Goto(h, "plic_init", "plic_hart_init")
  /\ plic' = plic_init(plic)
  /\ UNCHANGED << memory, sie, uart, locks, print >>

InterruptHartInit(h) ==
  /\ Goto(h, "plic_hart_init", IF h = BootHart THEN "process_init" ELSE "lock_space")
  /\ plic' = plic_hart_init(plic, h)
  /\ UNCHANGED << memory, sie, uart, locks, print >>

\* init's context gets the satp of the kernel's space.
process_init(h) ==
  /\ Goto(h, "process_init", "start_others")
  /\ KernelSpace({"PROCESS_MANAGER"})
  /\ UnchangedDevices

StartOthers_Forgotten(h) ==
  /\ Goto(h, "start_others", "lock_space")
  /\ UNCHANGED memory /\ UnchangedDevices

StartOthers(h) ==
  /\ Goto(h, "start_others", "lock_space")
  /\ set' = set \cup {"HART0_STARTED"}
  /\ UNCHANGED << at, scratch, spaces >> /\ UnchangedDevices

WaitForHart0_OnKernelSpace(h) ==
  /\ h # BootHart
  /\ pc[h] = "kmain" /\ "KERNEL_ADDRESS_SPACE" \in set
  /\ Say(h, "hart_booting")
  /\ UNCHANGED << memory, sie, uart, plic, locks >>

\* The exit from the loop; going round it changes nothing.
WaitForHart0(h) ==
  /\ h # BootHart
  /\ pc[h] = "kmain" /\ "HART0_STARTED" \in set
  /\ Say(h, "hart_booting")
  /\ UNCHANGED << memory, sie, uart, plic, locks >>

\* KERNEL_ADDRESS_SPACE.write().lock_space(), to the line make_kernel prints
lock_space(h) ==
  /\ pc[h] = "lock_space"
  /\ KernelSpace({})
  /\ Say(h, "make_another")
  /\ UNCHANGED << sie, uart, plic, locks >>

\* the rest of lock_space, which allocates, then intr_on
LockTable(h) ==
  /\ Goto(h, "lock_table", "usertrapret")
  /\ "heap" \in set
  /\ sie' = sie \cup {h}
  /\ UNCHANGED << memory, uart, plic, locks, print >>

HasProcess(h) == h = BootHart /\ { "heap", "PROCESS_MANAGER" } \subseteq set

\* usertrapret, to userret_on_trampoline, which turns interrupts off and looks
\* into the kernel's space
usertrapret(h) ==
  /\ Goto(h, "usertrapret", "user")
  /\ HasProcess(h)
  /\ KernelSpace({})
  /\ sie' = sie \ {h}
  /\ UNCHANGED << uart, plic, locks, print >>

\* current_process().expect("trap::userret: No runable process"), and the
\* assertion on satp: of several kernel spaces, which one the context holds and
\* which one the hart runs on is left open.
UsertrapretPanic(h) ==
  /\ pc[h] = "usertrapret"
  /\ set \cap { "heap", "PROCESS_MANAGER" } # {}
  /\ ~HasProcess(h) \/ spaces = MANY
  /\ Say(h, "panic")
  /\ UNCHANGED << memory, sie, uart, plic, locks >>

\* A tick, taken while interrupts are on, does not let the hart go on: kerneltrap
\* leaves it pending, so that kernelvec takes it again, for ever; and once
\* usertrapret has written stvec it goes to uservec, on the kernel's space
\* (module TrapPath).
tick(h) ==
  /\ h \in sie
  /\ TrapForEver(h, "tick")

-----------------------------------------------------------------------------
(* print.rs and the panic handler *)

\* A hart in the middle of a line takes the next step of printing it.
PrintStep(h, from, to) ==
  /\ pc[h] \in Lines
  /\ io[h] = from /\ io' = [io EXCEPT ![h] = to]
  /\ UNCHANGED << pc, left >>

info(h) ==
  /\ info_lock = NoHart
  /\ PrintStep(h, "info", "_print")
  /\ info_lock' = h
  /\ UNCHANGED << memory, sie, uart, plic, uart_lock >>

_print(h) ==
  /\ uart_lock = NoHart
  /\ PrintStep(h, "_print", "put")
  /\ uart_lock' = h
  /\ UNCHANGED << memory, sie, uart, plic, info_lock >>

\* Uart::put, the end of the loop over LSR
put(h) ==
  /\ tx_idle(uart)
  /\ PrintStep(h, "put", "write_thr")
  /\ UNCHANGED << memory, sie, uart, plic, locks >>

\* After the last byte the guards of the locks end; the panic handler has none.
EndLine(h) ==
  /\ IF pc[h] = "alloc_error"
     THEN Say(h, "panic")
     ELSE /\ pc' = [pc EXCEPT ![h] = After[pc[h]]]
          /\ io' = [io EXCEPT ![h] = "idle"]
          /\ left' = [left EXCEPT ![h] = 0]
  /\ IF pc[h] = "panic" THEN UNCHANGED locks ELSE info_lock' = NoHart /\ uart_lock' = NoHart

\* Uart::put, the write
write_thr(h) ==
  /\ pc[h] \in Lines /\ io[h] = "write_thr"
  /\ uart' = WriteTHR(uart)
  /\ IF left[h] > 1
     THEN /\ io' = [io EXCEPT ![h] = "put"]
          /\ left' = [left EXCEPT ![h] = @ - 1]
          /\ UNCHANGED << pc, locks >>
     ELSE EndLine(h)
  /\ UNCHANGED << memory, sie, plic >>

\* The port sends a byte.
transmit ==
  /\ uart.fifo > 0
  /\ uart' = [uart EXCEPT !.fifo = @ - 1]
  /\ UNCHANGED << pc, memory, sie, plic, locks, print >>

-----------------------------------------------------------------------------

\* The labels of a hart other than hart 0 before it has seen HART0_STARTED,
\* those of kmain's initialisation and those after it
Unstarted == { "_start", "kstart", "kmain" }
Initialising ==
  { "allocator_init", "make_kernel", "hart_init", "plic_init", "plic_hart_init", "process_init",
    "start_others" }
Booted == { "lock_space", "make_another", "lock_table", "usertrapret", "user" }

Start(h) ==
  /\ pc[h] \in Unstarted
  /\ \/ ClearBss(h) \/ CallKstart(h) \/ timer_init(h)
     \/ uart_init(h) \/ WaitForHart0(h)

Initialise(h) ==
  /\ pc[h] \in Initialising
  /\ \/ AllocatorInit(h) \/ mm_init(h) \/ hart_init(h) \/ LoadZeroes(h) \/ InterruptInit(h)
     \/ InterruptHartInit(h) \/ process_init(h) \/ StartOthers(h)

Leave(h) ==
  /\ pc[h] \in Booted
  /\ lock_space(h) \/ LockTable(h) \/ usertrapret(h) \/ UsertrapretPanic(h)

PrintLine(h) == pc[h] \in Lines /\ (info(h) \/ _print(h) \/ put(h) \/ write_thr(h))

HartStep(h) == Start(h) \/ Initialise(h) \/ Leave(h) \/ handle_alloc_error(h) \/ PrintLine(h)

\* The timer's interrupts, in machine mode and as ticks in supervisor mode
Interrupt(h) == timervec_fault(h) \/ tick(h)

Next == transmit \/ \E h \in Harts : HartStep(h) \/ Interrupt(h)

\* Every hart keeps executing, as far as interrupts let it, and the port keeps
\* transmitting; when a hart's timer fires and who gets a lock is open.
Spec ==
  /\ Init /\ [][Next]_vars
  /\ WF_vars(transmit) /\ \A h \in Harts : WF_vars(HartStep(h))

-----------------------------------------------------------------------------
(* Properties *)

TypeOK ==
  /\ pc \in [Harts -> Unstarted \cup Initialising \cup Booted \cup
               { "hart_booting", "alloc_error", "panic", "abort", "fault", "tick" }]
  /\ at \in [Harts -> 1 .. Len(Bss) + 1]
  /\ set \subseteq Parts
  /\ scratch \subseteq Harts /\ sie \subseteq Harts
  /\ spaces \in 0 .. MANY
  /\ {info_lock, uart_lock} \subseteq Harts \cup {NoHart}
  /\ io \in [Harts -> { "idle", "info", "_print", "put", "write_thr" }]
  /\ left \in [Harts -> 0 .. LINE]
  /\ uart.fifo \in 0 .. FIFO_DEPTH

(* HART0_STARTED holds the other harts back until hart 0 is through its    *)
(* initialisation, whatever the zeroing of .bss does to the flag and to    *)
(* hart 0 afterwards: a hart past the wait finds the port set up, a kernel *)
(* space made, and the devices' interrupts on their way to hart 0.         *)
OthersWaitForHart0 ==
  (\E h \in Harts \ {BootHart} : pc[h] \notin Unstarted \cup { "fault" }) =>
    /\ pc[BootHart] \notin Unstarted \cup Initialising
    /\ Configured(uart) /\ spaces > 0
    /\ \A id \in Sources : Signals(plic, id, 2 * BootHart + 1)

(* No hart has left kstart while another is still zeroing .bss. *)
NoLateClear ==
  (\E h \in Harts : pc[h] = "_start") => \A h \in Harts : pc[h] \in { "_start", "kstart" }

\* the kernel's space is made once, no allocation fails, no timer interrupt
\* finds its scratch area zeroed, and who has booted finds everything set up
SetUpOnce ==
  /\ spaces <= 1
  /\ \A h \in Harts : pc[h] \notin { "alloc_error", "fault" }
  /\ \A h \in Harts : pc[h] \in Booted => set = Parts \ {"locks"} /\ h \in scratch

(* What the boot code relies on without enforcing it: if no hart is late   *)
(* in zeroing .bss, then the kernel's address space is made exactly once,  *)
(* and every hart gets to lock_space, through the locks of the lines it    *)
(* prints and against the unlocked lines of the harts that panic, and      *)
(* there it finds all that the initialisation has set up, its own timer    *)
(* scratch area included.  Nothing is said of what comes after intr_on,    *)
(* where a tick may hold a hart for ever.                                  *)
TimelyClearBoots ==
  []NoLateClear =>
    [](/\ SetUpOnce
       /\ <>(\A h \in Harts : pc[h] \notin Unstarted \cup Initialising \cup { "hart_booting" }))

(* "They should wait for hear-0 to finish initialising": when hart 0 has   *)
(* finished, the others get past the wait.                                 *)
OthersStartAfterHart0 ==
  \A h \in Harts : pc[BootHart] = "lock_space" ~> pc[h] \notin Unstarted

(* No byte of any print is lost, even if a late hart zeroes the print      *)
(* locks under their holders and panicking harts write without them, each  *)
(* between another's look at LSR and its write: no hart prints before the  *)
(* port is set up with its divisor latch closed, and the FIFO that init    *)
(* enables has room for one byte of every hart.                            *)
NoByteLost ==
  /\ ~uart.lost
  /\ set \cap {"heap", "HART0_STARTED"} # {} => Configured(uart)

(* A hart that has been through plic::hart_init has a pending interrupt of *)
(* the serial port or the disk signalled to its supervisor mode, whatever  *)
(* other harts write to the controller meanwhile; none is ever signalled   *)
(* to a machine mode, whose vector would take it for a timer interrupt.    *)
(* The writes of set_priority, which are not to priority registers, leave  *)
(* this as it is.                                                          *)
InterruptsReach ==
  \A h \in Harts, id \in Sources :
    /\ pc[h] \in Booted => Signals(plic, id, 2 * h + 1)
    /\ ~Signals(plic, id, 2 * h)
=============================================================================

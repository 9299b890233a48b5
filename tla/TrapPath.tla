----------------------------- MODULE TrapPath ------------------------------
(***************************************************************************)
(* The path between the kernel and a user process on one hart: the end of  *)
(* kmain, usertrapret and __userret, the user program, __uservec and       *)
(* usertrap, and the kernel's own trap path __kernelvec and kerneltrap,    *)
(* with the timer interrupt that __timervec turns into a supervisor        *)
(* software interrupt.                                                     *)
(*                                                                         *)
(* One action is a run of instructions between two points where an         *)
(* interrupt makes a difference.  A pending, enabled interrupt is taken    *)
(* before the next instruction, as the hardware does.                      *)
(***************************************************************************)
EXTENDS Integers

CONSTANTS
  MaxPc,          \* bound: the user program makes at most MaxPc system calls
  SyscallNumbers  \* the values of a7 the user program tries

ASSUME TrapAssumption == MaxPc \in Nat /\ SyscallNumbers \subseteq Nat

VARIABLES
  pc,        \* << label, n >>; user code is << "user", n >>, n in instructions
  mode,      \* "U" or "S"
  regs,      \* x1 .. x31
  satp,      \* kernel_satp or user_satp
  stvec,     \* "kernelvec" or "uservec"
  sscratch,
  sstatus,   \* [SIE, SPIE, SPP]
  sepc,
  scause,
  stval,     \* the user page of an instruction page fault
  pending,   \* pending interrupts of sip: subset of {"soft", "external"}
  tf,        \* the TrapContext in the process's trapframe page
  kframe,    \* the registers __kernelvec pushed on the kernel stack
  inner,     \* the lock of the process's PCBInner: "free", "read" or "write"
  atTrap     \* history: registers and pc when user mode was last left

csrs == << satp, stvec, sscratch, sstatus, sepc, scause, stval >>
vars == << pc, mode, regs, csrs, pending, tf, kframe, inner, atTrap >>

-----------------------------------------------------------------------------
(* Registers and the values in them *)

RA == 1
SP == 2
TP == 4
T0 == 5
T1 == 6
A0 == 10
A7 == 17
T6 == 31

Regs == 1 .. 31

zero == << "zero", 0 >>
hartid == << "hartid", 0 >>
TRAPFRAME_BASE_USER_VA == << "trapframe", 0 >>
boot_stack == << "boot_stack", 0 >>
kernel_stack == << "kernel_stack", 0 >>
user_satp == << "user_satp", 0 >>
kernel_satp == << "kernel_satp", 0 >>
usertrap_addr == << "usertrap", 0 >>

\* what the user program holds in register r after its n-th instruction
UserVal(n, r) == << "user", 32 * n + r >>

\* what compiled kernel code holds in its registers: tp and sp keep their roles
KernelRegs(tp, sp) ==
  [r \in Regs |-> CASE r = TP -> tp [] r = SP -> sp [] OTHER -> << "kernel", r >>]

\* what is left in the registers by a call: caller-saved ones are clobbered
Clobbered(rs) ==
  [r \in Regs |-> IF r \in {1, 5, 6, 7} \cup (10 .. 17) \cup (28 .. 31)
                  THEN << "clobbered", r >> ELSE rs[r]]

-----------------------------------------------------------------------------
(* Where code is mapped.  The trampoline page is mapped in both address    *)
(* spaces, the rest of the kernel only in its own.                         *)

Trampoline == { "uservec", "uservec_save", "uservec_switch", "userret", "userret_restore" }

KernelText ==
  { "intr_on", "usertrapret", "set_sstatus", "prepare_context", "userret_on_trampoline",
    "kernelvec", "kerneltrap", "kernelvec_restore", "usertrap", "syscall",
    "instruction_page_fault" }

\* `panicked`: the wfi loop of abort.  `wild`: uservec stores through a
\* register that is no trapframe pointer.
Labels == Trampoline \cup KernelText \cup { "user", "panicked", "wild" }

\* The pages of the init process's space, with their flags.  Page "hole" lies
\* in a mapped level-0 node: its PTE is found but not valid.
UserPages ==
  [ text |-> {"R", "X", "U"}, stack |-> {"R", "W", "U"}, trampoline |-> {"R", "X"},
    trapframe |-> {"R", "W"}, hole |-> {} ]

\* translate(page) is Some, with both EXECUTABLE and USER
UserExecutable(page) == page \in DOMAIN UserPages /\ {"X", "U"} \subseteq UserPages[page]

-----------------------------------------------------------------------------

\* TrapContext as first_execution_init leaves it
InitialContext ==
  [ user_regs |-> [r \in Regs |-> zero], kernel_satp |-> kernel_satp,
    kernel_sp |-> kernel_stack, kernel_hartid |-> zero, sepc |-> << "user", 0 >>,
    trap_handler |-> usertrap_addr ]

(* kmain after lock_space, with interrupts off.  A tick may have come      *)
(* during the boot.                                                        *)
Init ==
  /\ pc = << "intr_on", 0 >>
  /\ mode = "S"
  /\ regs = KernelRegs(hartid, boot_stack)
  /\ satp = kernel_satp
  /\ stvec = "kernelvec"
  /\ sscratch = TRAPFRAME_BASE_USER_VA
  /\ sstatus = [SIE |-> FALSE, SPIE |-> FALSE, SPP |-> "U"]
  /\ sepc = zero
  /\ scause = "none"
  /\ stval = "text"
  /\ pending \in SUBSET {"soft", "external"}
  /\ tf = InitialContext
  /\ kframe = regs
  /\ inner = "free"
  /\ atTrap = [regs |-> regs, pc |-> pc, cause |-> "none"]

-----------------------------------------------------------------------------
(* The hardware: interrupts, trap entry and sret *)

InterruptReady == pending # {} /\ (mode = "U" \/ sstatus.SIE)

\* The hart executes at label l
At(l) == pc[1] = l /\ ~ InterruptReady

Jump(l) == pc' = << l, 0 >>

EnterTrap(cause) ==
  /\ sstatus' = [SIE |-> FALSE, SPIE |-> sstatus.SIE, SPP |-> mode]
  /\ sepc' = pc
  /\ scause' = cause
  /\ mode' = "S"
  /\ Jump(stvec)
  /\ atTrap' = IF mode = "U" THEN [regs |-> regs, pc |-> pc, cause |-> cause] ELSE atTrap
  /\ UNCHANGED << regs, satp, stvec, sscratch, pending, tf, kframe, inner >>

\* a trap that sets no stval we look at
Trap(cause) == EnterTrap(cause) /\ UNCHANGED stval

TakeInterrupt ==
  /\ InterruptReady
  /\ pc[1] \notin {"panicked", "wild"}
  /\ \E i \in pending : Trap(i)

sret(target) ==
  /\ mode' = sstatus.SPP
  /\ sstatus' = [SIE |-> sstatus.SPIE, SPIE |-> TRUE, SPP |-> "U"]
  /\ pc' = target

panic ==
  /\ Jump("panicked")
  /\ UNCHANGED << mode, regs, csrs, pending, tf, kframe, atTrap >>

-----------------------------------------------------------------------------
(* __timervec, in machine mode: whatever the hart is doing, a software     *)
(* interrupt becomes pending.  Registers are restored; mtimecmp is left    *)
(* out.  An external interrupt becomes pending when the PLIC raises one.   *)

timervec ==
  /\ "soft" \notin pending
  /\ pending' = pending \cup {"soft"}
  /\ UNCHANGED << pc, mode, regs, csrs, tf, kframe, inner, atTrap >>

ExternalInterrupt ==
  /\ "external" \notin pending
  /\ pending' = pending \cup {"external"}
  /\ UNCHANGED << pc, mode, regs, csrs, tf, kframe, inner, atTrap >>

-----------------------------------------------------------------------------
(* The end of kmain, and usertrapret *)

intr_on ==
  /\ At("intr_on")
  /\ sstatus' = [sstatus EXCEPT !.SIE = TRUE]
  /\ Jump("usertrapret")
  /\ UNCHANGED << mode, regs, satp, stvec, sscratch, sepc, scause, stval, pending, tf, kframe,
                  inner, atTrap >>

usertrapret_KeepsVector ==
  /\ At("usertrapret")
  /\ Jump("set_sstatus")
  /\ UNCHANGED << mode, regs, csrs, pending, tf, kframe, inner, atTrap >>

usertrapret ==
  /\ At("usertrapret")
  /\ stvec' = "uservec"
  /\ Jump("set_sstatus")
  /\ UNCHANGED << mode, regs, satp, sscratch, sstatus, sepc, scause, stval, pending, tf, kframe,
                  inner, atTrap >>

\* the assertion on sscratch, then SPP and SPIE
set_sstatus ==
  /\ At("set_sstatus")
  /\ sstatus' = [sstatus EXCEPT !.SPP = "U", !.SPIE = TRUE]
  /\ Jump(IF sscratch = TRAPFRAME_BASE_USER_VA THEN "prepare_context" ELSE "panicked")
  /\ UNCHANGED << mode, regs, satp, stvec, sscratch, sepc, scause, stval, pending, tf, kframe,
                  inner, atTrap >>

\* set_tp under the write lock, which is downgraded and then dropped, and the
\* assertion on satp
prepare_context ==
  /\ At("prepare_context")
  /\ inner = "free"
  /\ tf' = [tf EXCEPT !.user_regs[TP] = regs[TP]]
  /\ Jump(IF satp = tf.kernel_satp THEN "userret_on_trampoline" ELSE "panicked")
  /\ UNCHANGED << mode, regs, csrs, pending, kframe, inner, atTrap >>

\* intr_off, the translation checks, and the call of __userret with satp in a0
userret_on_trampoline ==
  /\ At("userret_on_trampoline")
  /\ inner = "free"
  /\ sstatus' = [sstatus EXCEPT !.SIE = FALSE]
  /\ regs' = [regs EXCEPT ![A0] = user_satp]
  /\ Jump("userret")
  /\ UNCHANGED << mode, satp, stvec, sscratch, sepc, scause, stval, pending, tf, kframe, inner,
                  atTrap >>

-----------------------------------------------------------------------------
(* __userret *)

userret_NoSwitch ==
  /\ At("userret")
  /\ Jump("userret_restore")
  /\ UNCHANGED << mode, regs, csrs, pending, tf, kframe, inner, atTrap >>

userret ==
  /\ At("userret")
  /\ satp' = regs[A0]
  /\ Jump("userret_restore")
  /\ UNCHANGED << mode, regs, stvec, sscratch, sstatus, sepc, scause, stval, pending, tf, kframe,
                  inner, atTrap >>

userret_restore_StaleT6 ==
  /\ At("userret_restore")
  /\ sscratch = TRAPFRAME_BASE_USER_VA
  /\ sepc' = tf.sepc
  /\ regs' = [r \in Regs |-> CASE r \in 2 .. 30 -> tf.user_regs[r]
                               [] r = T6 -> sscratch
                               [] OTHER -> regs[r]]
  /\ sret(tf.sepc)
  /\ UNCHANGED << satp, stvec, sscratch, scause, stval, pending, tf, kframe, inner, atTrap >>

\* x2 to x30 and then t6, which held the trapframe's address; and sret
userret_restore ==
  /\ At("userret_restore")
  /\ sscratch = TRAPFRAME_BASE_USER_VA
  /\ sepc' = tf.sepc
  /\ regs' = [r \in Regs |-> IF r \in (2 .. 30) \cup {T6} THEN tf.user_regs[r] ELSE regs[r]]
  /\ sret(tf.sepc)
  /\ UNCHANGED << satp, stvec, sscratch, scause, stval, pending, tf, kframe, inner, atTrap >>

-----------------------------------------------------------------------------
(* The user program.  It computes, makes system calls, and faults; it      *)
(* leaves tp alone (trampoline.S:38).                                      *)

UserRun ==
  /\ At("user")
  /\ \E n \in SyscallNumbers :
       regs' = [r \in Regs |-> CASE r = TP -> regs[TP]
                                 [] r = A7 -> << "number", n >>
                                 [] OTHER -> UserVal(pc[2], r)]
  /\ UNCHANGED << pc, mode, csrs, pending, tf, kframe, inner, atTrap >>

UserEcall ==
  /\ At("user")
  /\ pc[2] < MaxPc
  /\ regs[A7][1] = "number"
  /\ Trap("UserEnvCall")

\* a jump to a page that is not executable in user mode
UserFetchFault ==
  /\ At("user")
  /\ \E page \in DOMAIN UserPages \cup {"unmapped"} :
       /\ ~ UserExecutable(page)
       /\ stval' = page
  /\ EnterTrap("InstructionPageFault")

UserOtherFault ==
  /\ At("user")
  /\ \E cause \in {"LoadPageFault", "StorePageFault"} : Trap(cause)

-----------------------------------------------------------------------------
(* __uservec *)

uservec ==
  /\ At("uservec")
  /\ regs' = [regs EXCEPT ![T6] = sscratch]
  /\ sscratch' = regs[T6]
  /\ Jump("uservec_save")
  /\ UNCHANGED << mode, satp, stvec, sstatus, sepc, scause, stval, pending, tf, kframe, inner,
                  atTrap >>

\* t6 points to the trapframe page, which only the user space maps
TrapframeInReach == satp = user_satp /\ regs[T6] = TRAPFRAME_BASE_USER_VA

\* x1 to x30, then the t6 that was swapped into sscratch; sepc; kernel values
uservec_save ==
  /\ At("uservec_save")
  /\ TrapframeInReach
  /\ tf' = [tf EXCEPT !.user_regs = [r \in Regs |-> IF r \in 1 .. 30 THEN regs[r] ELSE sscratch],
                      !.kernel_hartid = regs[TP],
                      !.sepc = sepc]
  /\ sscratch' = regs[T6]
  /\ regs' = [regs EXCEPT ![T0] = tf.kernel_satp, ![T1] = tf.trap_handler, ![SP] = tf.kernel_sp]
  /\ Jump("uservec_switch")
  /\ UNCHANGED << mode, satp, stvec, sstatus, sepc, scause, stval, pending, kframe, inner, atTrap >>

\* The first store faults: the kernel space does not map the trapframe page,
\* and what else t6 may hold is no pointer it can rely on.
uservec_fault ==
  /\ At("uservec_save")
  /\ ~ TrapframeInReach
  /\ Trap("StorePageFault")

\* Or it succeeds, and uservec goes on with another page as its trapframe.
uservec_wild ==
  /\ At("uservec_save")
  /\ ~ TrapframeInReach
  /\ regs[T6] # TRAPFRAME_BASE_USER_VA
  /\ Jump("wild")
  /\ UNCHANGED << mode, regs, csrs, pending, tf, kframe, inner, atTrap >>

uservec_switch ==
  /\ At("uservec_switch")
  /\ satp' = regs[T0]
  /\ Jump(regs[T1][1])
  /\ UNCHANGED << mode, regs, stvec, sscratch, sstatus, sepc, scause, stval, pending, tf, kframe,
                  inner, atTrap >>

-----------------------------------------------------------------------------
(* usertrap, SystemCallHandler and InstructionPageFaultHandler *)

usertrap ==
  /\ At("usertrap")
  /\ sstatus' = [sstatus EXCEPT !.SIE = FALSE]
  /\ stvec' = "kernelvec"
  /\ regs' = KernelRegs(regs[TP], regs[SP])
  /\ Jump(CASE scause = "UserEnvCall" -> "syscall"
            [] scause = "InstructionPageFault" -> "instruction_page_fault"
            [] OTHER -> "panicked")
  /\ UNCHANGED << mode, satp, sscratch, sepc, scause, stval, pending, tf, kframe, inner, atTrap >>

\* get_syscall: a7 as a Syscall, SysFork = 0 to SysUptime = 20
IsSyscall(ctx) == ctx.user_regs[A7] \in { << "number", n >> : n \in 0 .. 20 }

NextInstruction_Twice(addr) == << addr[1], addr[2] + 2 >>

\* incr_user_space_pc(4): one instruction on
NextInstruction(addr) == << addr[1], addr[2] + 1 >>

syscall_KeepsLock ==
  /\ At("syscall")
  /\ inner = "free"
  /\ inner' = "write"
  /\ tf' = [tf EXCEPT !.sepc = NextInstruction(tf.sepc)]
  /\ Jump(IF IsSyscall(tf) THEN "usertrapret" ELSE "panicked")
  /\ UNCHANGED << mode, regs, csrs, pending, kframe, atTrap >>

\* The unwrap of an unknown number panics with PCBInner write-locked.
syscall ==
  /\ At("syscall")
  /\ inner = "free"
  /\ inner' = IF IsSyscall(tf) THEN "free" ELSE "write"
  /\ tf' = [tf EXCEPT !.sepc = NextInstruction(tf.sepc)]
  /\ Jump(IF IsSyscall(tf) THEN "usertrapret" ELSE "panicked")
  /\ UNCHANGED << mode, regs, csrs, pending, kframe, atTrap >>

(* translate finds no PTE, or one without X or without U: a panic each.    *)
(* The branch for a page that is executable in user mode is never reached: *)
(* such a page does not fault.                                             *)
instruction_page_fault ==
  /\ At("instruction_page_fault")
  /\ inner = "free"
  /\ ~ UserExecutable(stval)
  /\ inner' = "read"
  /\ panic

-----------------------------------------------------------------------------
(* __kernelvec and kerneltrap *)

kernelvec ==
  /\ At("kernelvec")
  /\ kframe' = regs
  /\ Jump("kerneltrap")
  /\ UNCHANGED << mode, regs, csrs, pending, tf, inner, atTrap >>

\* Neither interrupt is acknowledged: both stay pending.
kerneltrap ==
  /\ At("kerneltrap")
  /\ regs' = Clobbered(regs)
  /\ Jump(IF scause \in {"soft", "external"} THEN "kernelvec_restore" ELSE "panicked")
  /\ UNCHANGED << mode, csrs, pending, tf, kframe, inner, atTrap >>

kernelvec_restore_SkipsTemporaries ==
  /\ At("kernelvec_restore")
  /\ regs' = [r \in Regs |-> IF r \in {RA, SP, 3} THEN kframe[r] ELSE regs[r]]
  /\ sret(sepc)
  /\ UNCHANGED << satp, stvec, sscratch, sepc, scause, stval, pending, tf, kframe, inner, atTrap >>

kernelvec_restore ==
  /\ At("kernelvec_restore")
  /\ regs' = [r \in Regs |-> IF r = TP THEN regs[r] ELSE kframe[r]]
  /\ sret(sepc)
  /\ UNCHANGED << satp, stvec, sscratch, sepc, scause, stval, pending, tf, kframe, inner, atTrap >>

-----------------------------------------------------------------------------

\* what the hart executes
HartStep ==
  \/ TakeInterrupt
  \/ intr_on \/ usertrapret \/ set_sstatus \/ prepare_context \/ userret_on_trampoline
  \/ userret \/ userret_restore
  \/ UserRun \/ UserEcall \/ UserFetchFault \/ UserOtherFault
  \/ uservec \/ uservec_save \/ uservec_fault \/ uservec_wild \/ uservec_switch
  \/ usertrap \/ syscall \/ instruction_page_fault
  \/ kernelvec \/ kerneltrap \/ kernelvec_restore

Next == HartStep \/ timervec \/ ExternalInterrupt

(* The hart keeps executing; ticks and devices owe it nothing. *)
Spec == Init /\ [][Next]_vars /\ WF_vars(HartStep)

-----------------------------------------------------------------------------
(* Properties *)

Values ==
  { zero, hartid, TRAPFRAME_BASE_USER_VA, boot_stack, kernel_stack, user_satp, kernel_satp,
    usertrap_addr }
  \cup ({"kernel", "clobbered"} \X Regs)
  \cup ({"user"} \X (0 .. 32 * MaxPc + 31))
  \cup ({"number"} \X SyscallNumbers)

TypeOK ==
  /\ pc \in Labels \X (0 .. MaxPc)
  /\ mode \in {"U", "S"}
  /\ regs \in [Regs -> Values]
  /\ satp \in {kernel_satp, user_satp}
  /\ stvec \in {"kernelvec", "uservec"}
  /\ sscratch \in Values
  /\ sstatus \in [SIE : BOOLEAN, SPIE : BOOLEAN, SPP : {"U", "S"}]
  /\ pending \subseteq {"soft", "external"}
  /\ tf.user_regs \in [Regs -> Values]
  /\ kframe \in [Regs -> Values]
  /\ inner \in {"free", "read", "write"}

(* Every instruction is fetched from a page the current address space maps *)
(* and the current mode may execute: the two satp switches happen on the   *)
(* trampoline page, which both spaces map (trampoline.S).                  *)
FetchMapped ==
  /\ pc[1] = "user" <=> mode = "U"
  /\ pc[1] = "user" => satp = user_satp
  /\ pc[1] \in KernelText => satp = kernel_satp

(* While the user program runs the way back in is prepared: traps go to    *)
(* uservec, sscratch holds the trapframe, tp the hart id, and no lock of   *)
(* the process is left behind by the kernel.                               *)
WayBackPrepared ==
  mode = "U" =>
    /\ stvec = "uservec"
    /\ sscratch = TRAPFRAME_BASE_USER_VA
    /\ tf.kernel_satp = kernel_satp /\ tf.kernel_sp = kernel_stack
    /\ regs[TP] = hartid
    /\ inner = "free"

(* Compiled kernel code finds its registers as it left them, on a kernel   *)
(* stack and with the hart id in tp, whatever interrupts kernelvec served  *)
(* in between.                                                             *)
KernelContextIntact ==
  pc[1] \in { "usertrapret", "set_sstatus", "prepare_context", "userret_on_trampoline",
              "syscall", "instruction_page_fault" }
    => \E sp \in {boot_stack, kernel_stack} : regs = KernelRegs(hartid, sp)

(* A system call that comes back, which only one with a known number does, *)
(* gives the process its registers back, t6 and the temporaries uservec    *)
(* uses included, and resumes after the ecall.                             *)
(* ra (x1) is left out: see AllRegistersRestored.                          *)
SyscallTransparent ==
  [][mode = "S" /\ mode' = "U" /\ atTrap.cause = "UserEnvCall" =>
       /\ \A r \in Regs \ {RA} : regs'[r] = atTrap.regs[r]
       /\ pc' = << "user", atTrap.pc[2] + 1 >>]_vars

(* A system call with a known number returns to user mode, whatever        *)
(* interrupts arrive: none is enabled on the way.                          *)
SyscallReturns ==
  (mode = "S" /\ atTrap.cause = "UserEnvCall" /\ IsSyscall([user_regs |-> atTrap.regs]))
    ~> mode = "U"

-----------------------------------------------------------------------------
(* What the comments say and the code does not do *)

(* "we need to save all registers, be it caller or callee saved"           *)
(* (context.rs:14): the process gets all of them back.                     *)
AllRegistersRestored ==
  [][mode = "S" /\ mode' = "U" /\ atTrap.cause = "UserEnvCall" =>
       \A r \in Regs : regs'[r] = atTrap.regs[r]]_vars

(* "We are still using the stack and page table from the process's user    *)
(* mode" (trampoline.S:16): uservec is entered with the user page table.   *)
UservecOnUserSpace == pc[1] = "uservec" => satp = user_satp

(* "return to whatever we are doing in the kernel" (kernelvec.S:39): what  *)
(* an interrupt suspended in the kernel gets to execute again.             *)
KernelCodeResumes ==
  pc[1] = "kernelvec" ~> (pc[1] \notin {"kernelvec", "kerneltrap", "kernelvec_restore"}
                          /\ ~ InterruptReady)
=============================================================================

--------------------------- MODULE TrapPathProofs ---------------------------
(***************************************************************************)
(* For any number of system calls with any numbers, and interrupts at any  *)
(* point: code is fetched where it is mapped, the way back from user mode  *)
(* is prepared, kernel code keeps its registers, and a system call gives   *)
(* the program back what it had.                                           *)
(***************************************************************************)
EXTENDS TrapPath, TLAPS

\* compiled code on its way to user mode, and the whole of that way
Leaving == { "usertrapret", "set_sstatus", "prepare_context", "userret_on_trampoline" }
Out == Leaving \cup { "userret", "userret_restore" }

\* an interrupt of the kernel is being served
Serving == { "kernelvec", "kerneltrap", "kernelvec_restore" }

\* the user's state is in the trapframe, the trap is being handled
Handling == { "syscall", "instruction_page_fault" }
Saved == { "uservec_switch", "usertrap" } \cup Handling

(* uservec was entered from user mode.  On the kernel's space it was not,  *)
(* but by an interrupt between the write to stvec and intr_off; the kernel *)
(* does not come back from there.                                          *)
Entered == pc[1] \in { "uservec", "uservec_save" } /\ satp = user_satp

\* variables are the pairs, functions and records they should be
Shapes ==
  /\ pc = << pc[1], pc[2] >> /\ pc[1] \in Labels
  /\ DOMAIN regs = Regs /\ DOMAIN kframe = Regs
  /\ DOMAIN sstatus = { "SIE", "SPIE", "SPP" }
  /\ DOMAIN tf = { "user_regs", "kernel_satp", "kernel_sp", "kernel_hartid", "sepc",
                   "trap_handler" }
  /\ DOMAIN tf.user_regs = Regs

\* what the kernel's part of the trap context, and the address in it, are
Context ==
  /\ tf.kernel_satp = kernel_satp /\ tf.kernel_sp = kernel_stack
  /\ tf.trap_handler = usertrap_addr
  /\ tf.sepc = << "user", tf.sepc[2] >>

\* the trapframe's address is where the next trap from user mode looks for it
Scratch ==
  pc[1] \in { "intr_on", "user", "uservec_switch", "usertrap" } \cup Handling \cup Out \cup Serving
    \/ (Entered /\ pc[1] = "uservec")
    => sscratch = TRAPFRAME_BASE_USER_VA

\* no lock of the process is held between the handlers
Unlocked ==
  pc[1] \in { "intr_on", "user" } \cup Saved \cup Out \cup Serving \/ Entered => inner = "free"

\* where traps go, and where interrupts are off
Vectors ==
  /\ stvec \in { "kernelvec", "uservec" }
  /\ pc[1] \in { "intr_on", "usertrapret" } \cup Handling \cup Serving => stvec = "kernelvec"
  /\ pc[1] \in { "user", "uservec", "uservec_save" } \cup (Out \ {"usertrapret"})
       => stvec = "uservec"
  /\ pc[1] \in { "intr_on", "userret", "userret_restore" } \cup Saved \cup Serving \/ Entered
       => ~ sstatus.SIE

Spaces ==
  /\ FetchMapped /\ mode \in { "U", "S" }
  /\ satp \in { kernel_satp, user_satp }
  /\ pc[1] = "userret" => satp = kernel_satp
  /\ pc[1] \in { "userret_restore", "uservec_switch" } => satp = user_satp

\* the registers that compiled code and the assembly rely on
Registers ==
  /\ pc[1] = "intr_on" => regs = KernelRegs(hartid, boot_stack)
  /\ KernelContextIntact
  /\ pc[1] = "kernelvec" => \E sp \in {boot_stack, kernel_stack} : regs = KernelRegs(hartid, sp)
  /\ pc[1] \in { "kerneltrap", "kernelvec_restore" } =>
       /\ \E sp \in {boot_stack, kernel_stack} : kframe = KernelRegs(hartid, sp)
       /\ regs[TP] = hartid
  /\ pc[1] = "userret" => regs[A0] = user_satp
  /\ pc[1] \in { "userret_on_trampoline", "userret", "userret_restore" } =>
       tf.user_regs[TP] = hartid
  /\ pc[1] \in { "user", "uservec_switch", "usertrap" } \/ Entered => regs[TP] = hartid
  /\ pc[1] = "uservec_save" /\ Entered => regs[T6] = TRAPFRAME_BASE_USER_VA
  /\ pc[1] = "uservec_switch" => regs[T0] = kernel_satp /\ regs[T1] = usertrap_addr
  /\ pc[1] \in { "uservec_switch", "usertrap" } => regs[SP] = kernel_stack

\* where the sret instructions go
Returns ==
  /\ pc[1] \in Serving => sstatus.SPP = "S" /\ sepc = << "usertrapret", sepc[2] >>
  /\ pc[1] \in { "prepare_context", "userret_on_trampoline", "userret", "userret_restore" }
       => sstatus.SPP = "U"

SameRegs == \A r \in Regs : tf.user_regs[r] = atTrap.regs[r]

\* what the program had, on its way through the trapframe
Trapped ==
  /\ pc[1] = "intr_on" => atTrap.cause = "none"
  /\ Entered \/ pc[1] \in Saved =>
       /\ atTrap.cause = scause
       /\ atTrap.pc = << "user", atTrap.pc[2] >>
       /\ atTrap.regs[TP] = hartid
  /\ Entered => sepc = atTrap.pc
  /\ Entered /\ pc[1] = "uservec" => regs = atTrap.regs
  /\ Entered /\ pc[1] = "uservec_save" =>
       sscratch = atTrap.regs[T6] /\ \A r \in 1 .. 30 : regs[r] = atTrap.regs[r]
  /\ pc[1] \in Saved => SameRegs /\ tf.sepc = atTrap.pc
  /\ pc[1] \in Out \cup Serving /\ atTrap.cause = "UserEnvCall" =>
       /\ SameRegs /\ atTrap.regs[TP] = hartid
       /\ tf.sepc = << "user", atTrap.pc[2] + 1 >>

TrapInv ==
  /\ Shapes /\ Context /\ Scratch /\ Unlocked /\ Vectors /\ Spaces /\ Registers /\ Returns
  /\ Trapped

-----------------------------------------------------------------------------

(* The two spaces are different, and usertrap's address is its label. *)
LEMMA Constants ==
  kernel_satp # user_satp /\ usertrap_addr[1] = "usertrap"
BY DEF kernel_satp, user_satp, usertrap_addr

(* tp and sp among the registers of compiled code. *)
LEMMA KernelRegsFacts ==
  ASSUME NEW tp, NEW sp
  PROVE  /\ DOMAIN KernelRegs(tp, sp) = Regs
         /\ KernelRegs(tp, sp)[TP] = tp /\ KernelRegs(tp, sp)[SP] = sp
BY DEF KernelRegs, Regs, TP, SP

(* intr_on: the first way out begins. *)
LEMMA intr_onStep ==
  ASSUME TrapInv, intr_on
  PROVE  TrapInv'
<1> USE DEF TrapInv, intr_on, At, Jump, csrs, Leaving, Out, Serving, Handling, Saved, Entered
<1>1. Shapes'
  BY DEF Shapes, Labels, Trampoline, KernelText
<1>2. (Context /\ Scratch /\ Unlocked /\ Vectors /\ Returns)'
  BY DEF Context, Scratch, Unlocked, Vectors, Returns, Shapes
<1>3. Spaces'
  BY DEF Spaces, FetchMapped, KernelText, Shapes
<1>4. Registers'
  BY DEF Registers, KernelContextIntact, Shapes
<1>5. Trapped'
  BY DEF Trapped, SameRegs, Shapes
<1> QED
  BY <1>1, <1>2, <1>3, <1>4, <1>5

(* usertrapret: from here on interrupts go to uservec. *)
LEMMA usertrapretStep ==
  ASSUME TrapInv, usertrapret
  PROVE  TrapInv'
<1> USE DEF TrapInv, usertrapret, At, Jump, csrs, Leaving, Out, Serving, Handling, Saved, Entered
<1>1. Shapes'
  BY DEF Shapes, Labels, Trampoline, KernelText
<1>2. (Context /\ Scratch /\ Unlocked /\ Vectors /\ Returns)'
  BY DEF Context, Scratch, Unlocked, Vectors, Returns, Shapes
<1>3. Spaces'
  BY DEF Spaces, FetchMapped, KernelText, Shapes
<1>4. Registers'
  BY DEF Registers, KernelContextIntact, Shapes
<1>5. Trapped'
  BY DEF Trapped, SameRegs, Shapes
<1> QED
  BY <1>1, <1>2, <1>3, <1>4, <1>5

(* set_sstatus: sret will go to user mode. *)
LEMMA set_sstatusStep ==
  ASSUME TrapInv, set_sstatus
  PROVE  TrapInv'
<1> USE DEF TrapInv, set_sstatus, At, Jump, csrs, Leaving, Out, Serving, Handling, Saved, Entered
<1>1. Shapes'
  BY DEF Shapes, Labels, Trampoline, KernelText
<1>2. (Context /\ Scratch /\ Unlocked /\ Vectors /\ Returns)'
  BY DEF Context, Scratch, Unlocked, Vectors, Returns, Shapes
<1>3. Spaces'
  BY DEF Spaces, FetchMapped, KernelText, Shapes
<1>4. Registers'
  BY DEF Registers, KernelContextIntact, Shapes
<1>5. Trapped'
  BY DEF Trapped, SameRegs, Shapes
<1> QED
  BY <1>1, <1>2, <1>3, <1>4, <1>5

(* prepare_context: tp is this hart's. *)
LEMMA prepare_contextStep ==
  ASSUME TrapInv, prepare_context
  PROVE  TrapInv'
<1> USE DEF TrapInv, prepare_context, At, Jump, csrs,
            Leaving, Out, Serving, Handling, Saved, Entered
<1>1. Shapes'
  BY DEF Shapes, Labels, Trampoline, KernelText
<1>2. (Context /\ Scratch /\ Unlocked /\ Vectors /\ Returns)'
  BY DEF Context, Scratch, Unlocked, Vectors, Returns, Shapes
<1>3. Spaces'
  BY DEF Spaces, FetchMapped, KernelText, Shapes
<1>4. Registers'
  BY KernelRegsFacts DEF Registers, KernelContextIntact, Shapes, Regs, TP
<1>5. Trapped'
  BY KernelRegsFacts DEF Trapped, SameRegs, Shapes, Registers, KernelContextIntact, Regs, TP
<1> QED
  BY <1>1, <1>2, <1>3, <1>4, <1>5

(* userret_on_trampoline: a0 is the user's space. *)
LEMMA userret_on_trampolineStep ==
  ASSUME TrapInv, userret_on_trampoline
  PROVE  TrapInv'
<1> USE DEF TrapInv, userret_on_trampoline, At, Jump, csrs,
            Leaving, Out, Serving, Handling, Saved, Entered
<1>1. Shapes'
  BY DEF Shapes, Labels, Trampoline, KernelText
<1>2. (Context /\ Scratch /\ Unlocked /\ Vectors /\ Returns)'
  BY DEF Context, Scratch, Unlocked, Vectors, Returns, Shapes
<1>3. Spaces'
  BY DEF Spaces, FetchMapped, KernelText, Shapes
<1>4. Registers'
  BY DEF Registers, KernelContextIntact, Shapes, Regs, A0
<1>5. Trapped'
  BY DEF Trapped, SameRegs, Shapes
<1> QED
  BY <1>1, <1>2, <1>3, <1>4, <1>5

(* userret: the switch to the user's space. *)
LEMMA userretStep ==
  ASSUME TrapInv, userret
  PROVE  TrapInv'
<1> USE DEF TrapInv, userret, At, Jump, csrs, Leaving, Out, Serving, Handling, Saved, Entered
<1>1. Shapes'
  BY DEF Shapes, Labels, Trampoline, KernelText
<1>2. (Context /\ Scratch /\ Unlocked /\ Vectors /\ Returns)'
  BY DEF Context, Scratch, Unlocked, Vectors, Returns, Shapes
<1>3. Spaces'
  BY DEF Spaces, FetchMapped, KernelText, Shapes, Registers
<1>4. Registers'
  BY DEF Registers, KernelContextIntact, Shapes
<1>5. Trapped'
  BY DEF Trapped, SameRegs, Shapes
<1> QED
  BY <1>1, <1>2, <1>3, <1>4, <1>5

(* userret_restore: to user mode. *)
LEMMA userret_restoreStep ==
  ASSUME TrapInv, userret_restore
  PROVE  TrapInv'
<1> USE DEF TrapInv, userret_restore, At, sret, Leaving, Out, Serving, Handling, Saved, Entered
<1>1. Shapes'
  BY DEF Shapes, Labels, Trampoline, KernelText, Context
<1>2. (Context /\ Scratch /\ Unlocked /\ Vectors /\ Returns)'
  BY DEF Context, Scratch, Unlocked, Vectors, Returns, Shapes
<1>3. Spaces'
  BY SMTT(20) DEF Spaces, FetchMapped, KernelText, Shapes, Returns, Context
<1>4. Registers'
  BY SMTT(20) DEF Registers, KernelContextIntact, Shapes, Context, Regs, TP, T6
<1>5. Trapped'
  BY DEF Trapped, SameRegs, Shapes, Context
<1> QED
  BY <1>1, <1>2, <1>3, <1>4, <1>5

(* UserRun: the program keeps tp. *)
LEMMA UserRunStep ==
  ASSUME TrapInv, UserRun
  PROVE  TrapInv'
<1> USE DEF TrapInv, UserRun, At, csrs, Leaving, Out, Serving, Handling, Saved, Entered
<1>1. Shapes'
  BY DEF Shapes, Labels, Trampoline, KernelText
<1>2. (Context /\ Scratch /\ Unlocked /\ Vectors /\ Returns)'
  BY DEF Context, Scratch, Unlocked, Vectors, Returns, Shapes
<1>3. Spaces'
  BY SMTT(20) DEF Spaces, FetchMapped, KernelText, Shapes
<1>4. Registers'
  BY DEF Registers, KernelContextIntact, Shapes, Regs, TP, A7
<1>5. Trapped'
  BY DEF Trapped, SameRegs, Shapes
<1> QED
  BY <1>1, <1>2, <1>3, <1>4, <1>5

(* A trap from user mode finds what it needs. *)
LEMMA UserTrap ==
  ASSUME TrapInv, mode = "U", NEW cause, EnterTrap(cause)
  PROVE  TrapInv'
<1> USE DEF TrapInv, EnterTrap, Jump, Leaving, Out, Serving, Handling, Saved, Entered
<1>1. Shapes'
  BY DEF Shapes, Labels, Trampoline, KernelText, Vectors, Spaces, FetchMapped
<1>2. (Context /\ Scratch /\ Unlocked /\ Vectors /\ Returns)'
  BY DEF Context, Scratch, Unlocked, Vectors, Returns, Shapes, Spaces, FetchMapped
<1>3. Spaces'
  BY DEF Spaces, FetchMapped, KernelText, Shapes, Vectors
<1>4. Registers'
  BY SMTT(20) DEF Registers, KernelContextIntact, Shapes, Vectors, Spaces, FetchMapped
<1>5. Trapped'
  BY DEF Trapped, SameRegs, Shapes, Vectors, Spaces, FetchMapped, Registers
<1> QED
  BY <1>1, <1>2, <1>3, <1>4, <1>5

(* A trap on the kernel's space that goes to uservec is the end. *)
LEMMA LostTrap ==
  ASSUME TrapInv, mode = "S", stvec = "uservec", satp # user_satp, NEW cause, EnterTrap(cause)
  PROVE  TrapInv'
<1> USE DEF TrapInv, EnterTrap, Jump, Leaving, Out, Serving, Handling, Saved, Entered
<1>1. Shapes'
  BY DEF Shapes, Labels, Trampoline, KernelText
<1>2. (Context /\ Scratch /\ Unlocked /\ Vectors /\ Returns)'
  BY DEF Context, Scratch, Unlocked, Vectors, Returns, Shapes
<1>3. Spaces'
  BY DEF Spaces, FetchMapped, KernelText, Shapes
<1>4. Registers'
  BY DEF Registers, KernelContextIntact, Shapes
<1>5. Trapped'
  BY DEF Trapped, SameRegs, Shapes
<1> QED
  BY <1>1, <1>2, <1>3, <1>4, <1>5

(* An interrupt of usertrapret goes to kernelvec and will come back. *)
LEMMA KernelTrap ==
  ASSUME TrapInv, mode = "S", pc[1] = "usertrapret", NEW cause, EnterTrap(cause)
  PROVE  TrapInv'
<1> USE DEF TrapInv, EnterTrap, Jump, Leaving, Out, Serving, Handling, Saved, Entered
<1>1. Shapes'
  BY DEF Shapes, Labels, Trampoline, KernelText, Vectors
<1>2. (Context /\ Scratch /\ Unlocked /\ Vectors /\ Returns)'
  BY DEF Context, Scratch, Unlocked, Vectors, Returns, Shapes
<1>3. Spaces'
  BY DEF Spaces, FetchMapped, KernelText, Shapes, Vectors
<1>4. Registers'
  BY DEF Registers, KernelContextIntact, Shapes, Vectors
<1>5. Trapped'
  BY DEF Trapped, SameRegs, Shapes, Vectors
<1> QED
  BY <1>1, <1>2, <1>3, <1>4, <1>5

(* uservec: t6 is swapped for the trapframe's address. *)
LEMMA uservecStep ==
  ASSUME TrapInv, uservec
  PROVE  TrapInv'
<1> USE DEF TrapInv, uservec, At, Jump, csrs, Leaving, Out, Serving, Handling, Saved, Entered
<1>1. Shapes'
  BY DEF Shapes, Labels, Trampoline, KernelText
<1>2. (Context /\ Scratch /\ Unlocked /\ Vectors /\ Returns)'
  BY DEF Context, Scratch, Unlocked, Vectors, Returns, Shapes
<1>3. Spaces'
  BY DEF Spaces, FetchMapped, KernelText, Shapes
<1>4. Registers'
  BY DEF Registers, KernelContextIntact, Shapes, Scratch, Regs, TP, T6
<1>5. Trapped'
  BY DEF Trapped, SameRegs, Shapes, Regs, T6
<1> QED
  BY <1>1, <1>2, <1>3, <1>4, <1>5

(* uservec_save: everything is saved. *)
LEMMA uservec_saveStep ==
  ASSUME TrapInv, uservec_save
  PROVE  TrapInv'
<1> USE DEF TrapInv, uservec_save, TrapframeInReach, At, Jump, csrs,
            Leaving, Out, Serving, Handling, Saved, Entered
<1>1. Shapes'
  BY DEF Shapes, Labels, Trampoline, KernelText, Context
<1>2. (Context /\ Scratch /\ Unlocked /\ Vectors /\ Returns)'
  BY DEF Context, Scratch, Unlocked, Vectors, Returns, Shapes, Trapped
<1>3. Spaces'
  BY DEF Spaces, FetchMapped, KernelText, Shapes
<1>4. Registers'
  BY SMTT(20) DEF Registers, KernelContextIntact, Shapes, Context, Regs, TP, T0, T1, SP
<1>5. Trapped'
  BY DEF Trapped, SameRegs, Shapes, Regs, T6
<1> QED
  BY <1>1, <1>2, <1>3, <1>4, <1>5

(* uservec_switch: to usertrap on the kernel's space. *)
LEMMA uservec_switchStep ==
  ASSUME TrapInv, uservec_switch
  PROVE  TrapInv'
<1> USE DEF TrapInv, uservec_switch, At, Jump, csrs, Leaving, Out, Serving, Handling, Saved, Entered
<1>1. Shapes'
  BY Constants, SMTT(20) DEF Shapes, Labels, Trampoline, KernelText, Registers
<1>2. (Context /\ Scratch /\ Unlocked /\ Vectors /\ Returns)'
  BY Constants DEF Context, Scratch, Unlocked, Vectors, Returns, Shapes, Registers
<1>3. Spaces'
  BY Constants DEF Spaces, FetchMapped, KernelText, Shapes, Registers
<1>4. Registers'
  BY Constants, SMTT(20) DEF Registers, KernelContextIntact, Shapes
<1>5. Trapped'
  BY Constants DEF Trapped, SameRegs, Shapes, Registers
<1> QED
  BY <1>1, <1>2, <1>3, <1>4, <1>5

(* usertrap: compiled code, by the cause of the trap. *)
LEMMA usertrapStep ==
  ASSUME TrapInv, usertrap
  PROVE  TrapInv'
<1> USE DEF TrapInv, usertrap, At, Jump, csrs, Leaving, Out, Serving, Handling, Saved, Entered
<1>1. Shapes'
  BY KernelRegsFacts DEF Shapes, Labels, Trampoline, KernelText
<1>2. (Context /\ Scratch /\ Unlocked /\ Vectors /\ Returns)'
  BY DEF Context, Scratch, Unlocked, Vectors, Returns, Shapes
<1>3. Spaces'
  BY DEF Spaces, FetchMapped, KernelText, Shapes
<1>4. Registers'
  BY KernelRegsFacts DEF Registers, KernelContextIntact, Shapes
<1>5. Trapped'
  BY DEF Trapped, SameRegs, Shapes
<1> QED
  BY <1>1, <1>2, <1>3, <1>4, <1>5

(* syscall: the lock is free again, or this is a panic. *)
LEMMA syscallStep ==
  ASSUME TrapInv, syscall
  PROVE  TrapInv'
<1> USE DEF TrapInv, syscall, NextInstruction, At, Jump, csrs,
            Leaving, Out, Serving, Handling, Saved, Entered
<1>1. Shapes'
  BY DEF Shapes, Labels, Trampoline, KernelText
<1>2. (Context /\ Scratch /\ Unlocked /\ Vectors /\ Returns)'
  BY DEF Context, Scratch, Unlocked, Vectors, Returns, Shapes
<1>3. Spaces'
  BY DEF Spaces, FetchMapped, KernelText, Shapes
<1>4. Registers'
  BY DEF Registers, KernelContextIntact, Shapes
<1>5. Trapped'
  BY DEF Trapped, SameRegs, Shapes
<1> QED
  BY <1>1, <1>2, <1>3, <1>4, <1>5

(* kernelvec: the registers are pushed. *)
LEMMA kernelvecStep ==
  ASSUME TrapInv, kernelvec
  PROVE  TrapInv'
<1> USE DEF TrapInv, kernelvec, At, Jump, csrs, Leaving, Out, Serving, Handling, Saved, Entered
<1>1. Shapes'
  BY DEF Shapes, Labels, Trampoline, KernelText
<1>2. (Context /\ Scratch /\ Unlocked /\ Vectors /\ Returns)'
  BY DEF Context, Scratch, Unlocked, Vectors, Returns, Shapes
<1>3. Spaces'
  BY DEF Spaces, FetchMapped, KernelText, Shapes
<1>4. Registers'
  BY KernelRegsFacts DEF Registers, KernelContextIntact, Shapes
<1>5. Trapped'
  BY DEF Trapped, SameRegs, Shapes
<1> QED
  BY <1>1, <1>2, <1>3, <1>4, <1>5

(* kerneltrap: tp is left alone. *)
LEMMA kerneltrapStep ==
  ASSUME TrapInv, kerneltrap
  PROVE  TrapInv'
<1> USE DEF TrapInv, kerneltrap, Clobbered, At, Jump, csrs,
            Leaving, Out, Serving, Handling, Saved, Entered
<1>1. Shapes'
  BY DEF Shapes, Labels, Trampoline, KernelText
<1>2. (Context /\ Scratch /\ Unlocked /\ Vectors /\ Returns)'
  BY DEF Context, Scratch, Unlocked, Vectors, Returns, Shapes
<1>3. Spaces'
  BY DEF Spaces, FetchMapped, KernelText, Shapes
<1>4. Registers'
  BY DEF Registers, KernelContextIntact, Shapes, Regs, TP
<1>5. Trapped'
  BY DEF Trapped, SameRegs, Shapes
<1> QED
  BY <1>1, <1>2, <1>3, <1>4, <1>5

(* kernelvec_restore: back to usertrapret. *)
LEMMA kernelvec_restoreStep ==
  ASSUME TrapInv, kernelvec_restore
  PROVE  TrapInv'
<1> USE DEF TrapInv, kernelvec_restore, At, sret, Leaving, Out, Serving, Handling, Saved, Entered
<1>1. Shapes'
  BY DEF Shapes, Labels, Trampoline, KernelText, Returns
<1>2. (Context /\ Scratch /\ Unlocked /\ Vectors /\ Returns)'
  BY DEF Context, Scratch, Unlocked, Vectors, Returns, Shapes
<1>3. Spaces'
  BY DEF Spaces, FetchMapped, KernelText, Shapes, Returns
<1>4. Registers'
  <2>1. PICK sp \in {boot_stack, kernel_stack} : kframe = KernelRegs(hartid, sp)
    BY DEF Registers
  <2>2. \A r \in Regs : regs'[r] = KernelRegs(hartid, sp)[r]
    BY <2>1, KernelRegsFacts DEF Registers, Regs, TP
  <2>3. regs' = KernelRegs(hartid, sp)
    BY <2>2 DEF KernelRegs
  <2>4. pc'[1] = "usertrapret"
    BY SMTT(20) DEF Returns
  <2> QED  BY <2>3, <2>4 DEF Registers, KernelContextIntact
<1>5. Trapped'
  BY DEF Trapped, SameRegs, Shapes, Returns
<1> QED
  BY <1>1, <1>2, <1>3, <1>4, <1>5

(* A hart that panics or runs wild is in the kernel and stays there. *)
LEMMA StopStep ==
  ASSUME TrapInv, instruction_page_fault \/ uservec_wild
  PROVE  TrapInv'
<1> USE DEF TrapInv, instruction_page_fault, uservec_wild, panic, At, Jump, csrs,
            Leaving, Out, Serving, Handling, Saved, Entered
<1>1. Shapes'
  BY DEF Shapes, Labels, Trampoline, KernelText
<1>2. (Context /\ Scratch /\ Unlocked /\ Vectors /\ Returns)'
  BY DEF Context, Scratch, Unlocked, Vectors, Returns, Shapes
<1>3. Spaces'
  BY DEF Spaces, FetchMapped, KernelText, Shapes
<1>4. Registers'
  BY SMTT(20) DEF Registers, KernelContextIntact, Shapes
<1>5. Trapped'
  BY DEF Trapped, SameRegs, Shapes
<1> QED
  BY <1>1, <1>2, <1>3, <1>4, <1>5

(* timervec and ExternalInterrupt change nothing the invariant is about.   *)
LEMMA PendingStep ==
  ASSUME TrapInv, UNCHANGED << pc, mode, regs, csrs, tf, kframe, inner, atTrap >>
  PROVE  TrapInv'
<1> USE DEF csrs, Entered
<1>1. (Shapes /\ Context /\ Scratch /\ Unlocked /\ Vectors /\ Returns)'
  BY SMTT(20) DEF TrapInv, Shapes, Context, Scratch, Unlocked, Vectors, Returns
<1>2. (Spaces /\ Registers /\ Trapped)'
  BY DEF TrapInv, Spaces, FetchMapped, Registers, KernelContextIntact, Trapped, SameRegs
<1> QED
  BY <1>1, <1>2 DEF TrapInv

(* An interrupt is taken from user mode, in usertrapret, after the write   *)
(* to stvec, or where uservec is lost already; elsewhere they are off.     *)
LEMMA InterruptStep ==
  ASSUME TrapInv, TakeInterrupt
  PROVE  TrapInv'
<1>1. PICK i \in pending : EnterTrap(i)
  BY DEF TakeInterrupt, Trap
<1>2. CASE mode = "U"
  BY <1>1, <1>2, UserTrap
<1>3. CASE mode # "U"
  <2>1. mode = "S" /\ sstatus.SIE /\ pc[1] \notin { "panicked", "wild" }
    BY <1>3 DEF TakeInterrupt, InterruptReady, TrapInv, Spaces
  <2>2. \/ pc[1] = "usertrapret"
        \/ pc[1] \in { "set_sstatus", "prepare_context", "userret_on_trampoline" }
        \/ pc[1] \in { "uservec", "uservec_save" } /\ satp # user_satp
    BY <1>3, <2>1 DEF TrapInv, Shapes, Vectors, Spaces, FetchMapped, Labels, Trampoline, KernelText,
                      Saved, Handling, Serving, Entered
  <2>3. pc[1] # "usertrapret" => stvec = "uservec" /\ satp # user_satp
    BY <2>2, Constants DEF TrapInv, Vectors, Spaces, FetchMapped, KernelText, Out, Leaving
  <2> QED  BY <1>1, <2>1, <2>3, KernelTrap, LostTrap
<1> QED
  BY <1>2, <1>3

(* uservec faults only where it was lost already. *)
LEMMA FaultStep ==
  ASSUME TrapInv, uservec_fault
  PROVE  TrapInv'
<1>1. EnterTrap("StorePageFault") /\ pc[1] = "uservec_save"
  BY DEF uservec_fault, Trap, At
<1>2. satp # user_satp
  BY <1>1 DEF uservec_fault, TrapframeInReach, TrapInv, Registers, Entered
<1>3. mode = "S" /\ stvec = "uservec"
  BY <1>1 DEF TrapInv, Spaces, FetchMapped, Vectors
<1> QED
  BY <1>1, <1>2, <1>3, LostTrap

(* The traps the program causes itself. *)
LEMMA ProgramTrapStep ==
  ASSUME TrapInv, UserEcall \/ UserFetchFault \/ UserOtherFault
  PROVE  TrapInv'
<1>1. mode = "U"
  BY DEF UserEcall, UserFetchFault, UserOtherFault, At, TrapInv, Spaces, FetchMapped
<1>2. PICK cause : EnterTrap(cause)
  BY DEF UserEcall, UserFetchFault, UserOtherFault, Trap
<1> QED
  BY <1>1, <1>2, UserTrap

(* The invariant holds at the end of kmain. *)
LEMMA TrapInit == Init => TrapInv
<1> SUFFICES ASSUME Init PROVE TrapInv
  OBVIOUS
<1> USE DEF Init, Leaving, Out, Serving, Handling, Saved, Entered
<1>1. Shapes /\ Context
  BY KernelRegsFacts DEF Shapes, Labels, Trampoline, KernelText, Context, InitialContext
<1>2. Scratch /\ Unlocked /\ Vectors /\ Returns
  BY DEF Scratch, Unlocked, Vectors, Returns
<1>3. Spaces /\ Registers /\ Trapped
  BY DEF Spaces, FetchMapped, KernelText, Registers, KernelContextIntact, Trapped, SameRegs
<1> QED
  BY <1>1, <1>2, <1>3 DEF TrapInv

(* Every step keeps the invariant. *)
LEMMA TrapStep == TrapInv /\ [Next]_vars => TrapInv'
<1> SUFFICES ASSUME TrapInv, [Next]_vars PROVE TrapInv'
  OBVIOUS
<1>1. CASE UNCHANGED vars \/ timervec \/ ExternalInterrupt
  BY <1>1, PendingStep DEF vars, timervec, ExternalInterrupt
<1>2. CASE HartStep
  BY <1>2, InterruptStep, FaultStep, ProgramTrapStep, intr_onStep, usertrapretStep,
     set_sstatusStep, prepare_contextStep, userret_on_trampolineStep, userretStep,
     userret_restoreStep, UserRunStep, uservecStep, uservec_saveStep, uservec_switchStep,
     usertrapStep, syscallStep, kernelvecStep, kerneltrapStep, kernelvec_restoreStep, StopStep
     DEF HartStep
<1> QED
  BY <1>1, <1>2 DEF Next

(* The invariant holds throughout. *)
LEMMA TrapInvariant == Spec => []TrapInv
BY TrapInit, TrapStep, PTL DEF Spec

-----------------------------------------------------------------------------

(* Every instruction is fetched from a page that the current space maps,   *)
(* across both switches of satp (trampoline.S).                            *)
THEOREM FetchesMapped == Spec => []FetchMapped
<1>1. TrapInv => FetchMapped
  BY SMTT(20) DEF TrapInv, Spaces
<1> QED
  BY <1>1, TrapInvariant, PTL

(* Whenever the program runs, its next trap will find uservec, trapframe,  *)
(* hart id, kernel stack and an unlocked PCBInner (usertrapret, userret).  *)
THEOREM TrapsComeBack == Spec => []WayBackPrepared
<1>1. TrapInv => WayBackPrepared
  BY DEF TrapInv, Spaces, FetchMapped, Vectors, Scratch, Context, Registers, Unlocked,
         WayBackPrepared
<1> QED
  BY <1>1, TrapInvariant, PTL

(* Compiled kernel code keeps its registers through any number of          *)
(* interrupts (kernelvec.S, kerneltrap).                                   *)
THEOREM KernelKeepsRegisters == Spec => []KernelContextIntact
<1>1. TrapInv => KernelContextIntact
  BY DEF TrapInv, Registers
<1> QED
  BY <1>1, TrapInvariant, PTL

(* A system call that comes back gives the program all registers but ra    *)
(* back and resumes after the ecall (trampoline.S, syscall.rs), for any    *)
(* number of calls; one with an unknown number panics (syscall.rs:43).     *)
THEOREM SyscallsTransparent == Spec => SyscallTransparent
<1> DEFINE Same == mode = "S" /\ mode' = "U" /\ atTrap.cause = "UserEnvCall" =>
                     /\ \A r \in Regs \ {RA} : regs'[r] = atTrap.regs[r]
                     /\ pc' = << "user", atTrap.pc[2] + 1 >>
<1>1. ASSUME TrapInv, Next, mode = "S", mode' = "U" PROVE userret_restore
  <2>1. HartStep
    BY <1>1 DEF Next, timervec, ExternalInterrupt
  <2>2. ~ kernelvec_restore
    BY <1>1 DEF kernelvec_restore, At, sret, TrapInv, Returns, Serving
  <2>3. ~ UserRun
    BY <1>1 DEF UserRun
  <2>4. ~ (TakeInterrupt \/ UserEcall \/ UserFetchFault \/ UserOtherFault \/ uservec_fault)
    BY <1>1 DEF TakeInterrupt, UserEcall, UserFetchFault, UserOtherFault, uservec_fault, Trap,
                EnterTrap
  <2>5. ~ (intr_on \/ usertrapret \/ set_sstatus \/ prepare_context \/ userret_on_trampoline
           \/ userret)
    BY <1>1 DEF intr_on, usertrapret, set_sstatus, prepare_context, userret_on_trampoline, userret
  <2>6. ~ (uservec \/ uservec_save \/ uservec_wild \/ uservec_switch \/ usertrap \/ syscall
           \/ instruction_page_fault \/ kernelvec \/ kerneltrap)
    BY <1>1, SMTT(20) DEF uservec, uservec_save, uservec_wild, uservec_switch, usertrap, syscall,
                instruction_page_fault, panic, kernelvec, kerneltrap
  <2> QED  BY <2>1, <2>2, <2>3, <2>4, <2>5, <2>6 DEF HartStep
<1>2. ASSUME TrapInv, userret_restore, atTrap.cause = "UserEnvCall"
      PROVE  /\ \A r \in Regs \ {RA} : regs'[r] = atTrap.regs[r]
             /\ pc' = << "user", atTrap.pc[2] + 1 >>
  <2>1. SameRegs /\ tf.sepc = << "user", atTrap.pc[2] + 1 >>
    BY <1>2 DEF userret_restore, At, TrapInv, Trapped, Out
  <2> QED  BY <1>2, <2>1 DEF userret_restore, sret, SameRegs, Regs, RA, T6
<1>3. TrapInv /\ [Next]_vars => [Same]_vars
  BY <1>1, <1>2
<1> QED
  BY <1>3, TrapInvariant, PTL DEF Spec, SyscallTransparent

-----------------------------------------------------------------------------
(* Types *)

\* addresses stay in the program, whose calls come before its last instruction
Addresses ==
  /\ pc[2] \in 0 .. MaxPc /\ sepc[2] \in 0 .. MaxPc /\ tf.sepc[2] \in 0 .. MaxPc
  /\ (Entered \/ pc[1] \in Saved) /\ scause = "UserEnvCall" =>
       atTrap.pc[2] \in Nat /\ atTrap.pc[2] < MaxPc
  /\ pc[1] = "syscall" => scause = "UserEnvCall"

Contents ==
  /\ sscratch \in Values
  /\ regs \in [Regs -> Values] /\ tf.user_regs \in [Regs -> Values] /\ kframe \in [Regs -> Values]

Flags ==
  /\ sstatus \in [SIE : BOOLEAN, SPIE : BOOLEAN, SPP : {"U", "S"}]
  /\ pending \subseteq {"soft", "external"}
  /\ inner \in {"free", "read", "write"}

TypeInv == Addresses /\ Contents /\ Flags

(* The named values are values, and so is what code leaves in registers. *)
LEMMA ValuesNamed ==
  /\ { zero, hartid, TRAPFRAME_BASE_USER_VA, boot_stack, kernel_stack, user_satp, kernel_satp,
       usertrap_addr } \subseteq Values
  /\ \A r \in Regs : << "kernel", r >> \in Values /\ << "clobbered", r >> \in Values
  /\ \A n \in SyscallNumbers : << "number", n >> \in Values
  /\ \A n \in 0 .. MaxPc : \A r \in Regs : UserVal(n, r) \in Values
<1>1. \A n \in 0 .. MaxPc : \A r \in Regs : 32 * n + r \in 0 .. 32 * MaxPc + 31
  BY TrapAssumption DEF Regs
<1>2. \A n \in 0 .. MaxPc : \A r \in Regs : UserVal(n, r) \in Values
  BY <1>1 DEF Values, UserVal
<1> QED
  BY <1>2 DEF Values

(* Every trap, and whether it is a call. *)
LEMMA Traps ==
  ASSUME TrapInv, TypeInv,
         TakeInterrupt \/ UserEcall \/ UserFetchFault \/ UserOtherFault \/ uservec_fault
  PROVE  \E cause : /\ EnterTrap(cause)
                    /\ cause = "UserEnvCall" => mode = "U" /\ pc[2] < MaxPc
<1>1. CASE TakeInterrupt
  BY <1>1 DEF TakeInterrupt, Trap, TypeInv, Flags
<1>2. CASE UserEcall
  BY <1>2 DEF UserEcall, Trap, At, TrapInv, Spaces, FetchMapped
<1>3. CASE UserFetchFault
  <2>1. EnterTrap("InstructionPageFault")
    BY <1>3 DEF UserFetchFault
  <2> QED  BY <2>1
<1>4. CASE UserOtherFault
  BY <1>4 DEF UserOtherFault, Trap
<1>5. CASE uservec_fault
  <2>1. EnterTrap("StorePageFault")
    BY <1>5 DEF uservec_fault, Trap
  <2> QED  BY <2>1
<1> QED
  BY <1>1, <1>2, <1>3, <1>4, <1>5

(* A trap keeps the types: sepc is where it came from. *)
LEMMA TrapTypes ==
  ASSUME TrapInv, TypeInv, NEW cause, EnterTrap(cause),
         cause = "UserEnvCall" => mode = "U" /\ pc[2] < MaxPc
  PROVE  TypeInv'
<1> USE DEF EnterTrap, Jump, TypeInv
<1>1. pc'[2] \in 0 .. MaxPc /\ sepc'[2] \in 0 .. MaxPc /\ tf'.sepc[2] \in 0 .. MaxPc
  BY TrapAssumption DEF Addresses
<1>2. cause = "UserEnvCall" => atTrap'.pc[2] \in Nat /\ atTrap'.pc[2] < MaxPc
  BY DEF Addresses
<1>3. Addresses'
  <2>1. pc'[1] # "syscall"
    BY DEF TrapInv, Vectors
  <2> QED  BY <1>1, <1>2, <2>1 DEF Addresses
<1>4. Contents'
  BY DEF Contents
<1>5. Flags'
  BY DEF Flags, TrapInv, Spaces
<1> QED
  BY <1>3, <1>4, <1>5

(* The steps that leave registers, trap context and sscratch alone. *)
LEMMA ControlTypes ==
  ASSUME TrapInv, TypeInv,
         \/ intr_on \/ usertrapret \/ set_sstatus \/ userret \/ uservec_switch
         \/ uservec_wild \/ instruction_page_fault \/ timervec \/ ExternalInterrupt
         \/ UNCHANGED vars
  PROVE  TypeInv'
<1> USE DEF intr_on, usertrapret, set_sstatus, userret, uservec_switch, uservec_wild,
            instruction_page_fault, timervec, ExternalInterrupt, vars, csrs, TypeInv, Jump, panic
<1>1. /\ UNCHANGED << sscratch, regs, kframe, sepc, scause, atTrap, tf >>
      /\ pc'[2] \in {pc[2], 0}
  <2>1. CASE timervec \/ ExternalInterrupt \/ UNCHANGED vars
    BY <2>1, SMTT(20)
  <2>2. CASE instruction_page_fault \/ uservec_wild \/ intr_on \/ usertrapret
    BY <2>2, SMTT(20)
  <2>3. CASE set_sstatus \/ userret \/ uservec_switch
    BY <2>3
  <2> QED  BY <2>1, <2>2, <2>3, SMTT(20)
<1>2. Contents'
  BY <1>1, SMTT(20) DEF Contents
<1>3. Flags'
  BY ZenonT(40) DEF Flags, TrapInv, Shapes
<1>4. Entered' \/ pc'[1] \in Saved => Entered \/ pc[1] \in Saved
  BY Constants, SMTT(20) DEF Entered, Saved, Handling, At, TrapInv, Registers, Spaces
<1>5. pc'[1] = "syscall" => pc[1] = "syscall"
  BY Constants DEF At, TrapInv, Registers
<1>6. Addresses'
  BY <1>1, <1>4, <1>5, TrapAssumption DEF Addresses
<1> QED
  BY <1>2, <1>3, <1>6, SMTT(20)

(* The way out: the hart id for the program, its space, its registers. *)
LEMMA OutTypes ==
  ASSUME TrapInv, TypeInv, prepare_context \/ userret_on_trampoline \/ userret_restore
  PROVE  TypeInv'
<1> USE DEF prepare_context, userret_on_trampoline, userret_restore, csrs, TypeInv, Jump, sret
<1>1. Contents'
  <2>1. CASE prepare_context
    <3>1. regs[TP] \in Values
      BY DEF Contents, TP, Regs
    <3>2. tf'.user_regs = [tf.user_regs EXCEPT ![TP] = regs[TP]]
      BY <2>1 DEF TrapInv, Shapes
    <3>3. tf'.user_regs \in [Regs -> Values]
      <4> HIDE DEF prepare_context
      <4> QED  BY <3>1, <3>2, Zenon DEF Contents
    <3> QED  BY <2>1, <3>3 DEF Contents
  <2>2. CASE userret_on_trampoline
    BY <2>2, ValuesNamed, Zenon DEF Contents
  <2>3. CASE userret_restore
    <3>1. \A r \in Regs : regs[r] \in Values /\ tf.user_regs[r] \in Values
      BY DEF Contents
    <3> QED  BY <2>3, <3>1 DEF Contents
  <2> QED  BY <2>1, <2>2, <2>3
<1>2. Flags'
  <2>1. CASE prepare_context
    BY <2>1 DEF Flags
  <2>2. CASE userret_on_trampoline
    BY <2>2, Zenon DEF Flags
  <2>3. CASE userret_restore
    BY <2>3 DEF Flags
  <2> QED  BY <2>1, <2>2, <2>3
<1>3. pc'[2] \in 0 .. MaxPc /\ sepc'[2] \in 0 .. MaxPc /\ tf'.sepc[2] \in 0 .. MaxPc
  BY TrapAssumption DEF Addresses, TrapInv, Shapes
<1>4. ~ Entered' /\ pc'[1] \notin Saved /\ pc'[1] # "syscall"
  BY DEF Entered, Saved, Handling, TrapInv, Context
<1> QED
  BY <1>1, <1>2, <1>3, <1>4 DEF Addresses

(* The program's own computations. *)
LEMMA RunTypes ==
  ASSUME TrapInv, TypeInv, UserRun
  PROVE  TypeInv'
<1> USE DEF UserRun, csrs, TypeInv
<1>1. Contents'
  <2>1. regs[TP] \in Values
    BY DEF Contents, TP, Regs
  <2> QED  BY <2>1, ValuesNamed DEF Contents, Addresses
<1>2. Flags' /\ Addresses'
  BY DEF Flags, Addresses, Entered
<1> QED
  BY <1>1, <1>2

(* uservec and its saves. *)
LEMMA InTypes ==
  ASSUME TrapInv, TypeInv, uservec \/ uservec_save
  PROVE  TypeInv'
<1> USE DEF uservec, uservec_save, csrs, TypeInv, Jump
<1>1. \A r \in Regs : regs[r] \in Values
  BY DEF Contents
<1>2. regs[T6] \in Values
  BY <1>1 DEF T6, Regs
<1>3. tf.kernel_satp \in Values /\ tf.trap_handler \in Values /\ tf.kernel_sp \in Values
  BY ValuesNamed DEF TrapInv, Context
<1>4. Contents'
  <2>1. CASE uservec
    BY <1>2, <2>1, Zenon DEF Contents
  <2>2. CASE uservec_save
    <3>1. tf'.user_regs = [r \in Regs |-> IF r \in 1 .. 30 THEN regs[r] ELSE sscratch]
      BY <2>2 DEF TrapInv, Shapes
    <3>2. tf'.user_regs \in [Regs -> Values]
      BY <1>1, <3>1 DEF Contents
    <3>3. regs' \in [Regs -> Values]
      BY <1>3, <2>2, Zenon DEF Contents
    <3> QED  BY <1>2, <2>2, <3>2, <3>3 DEF Contents
  <2> QED  BY <2>1, <2>2
<1>5. tf'.sepc \in {tf.sepc, sepc}
  BY Zenon DEF TrapInv, Shapes
<1>6. pc'[2] \in 0 .. MaxPc /\ sepc'[2] \in 0 .. MaxPc /\ tf'.sepc[2] \in 0 .. MaxPc
  BY <1>5, TrapAssumption DEF Addresses
<1>7. ((Entered' \/ pc'[1] \in Saved) => Entered) /\ pc'[1] # "syscall"
  BY DEF Entered, Saved, Handling, At, TrapframeInReach
<1> QED
  BY <1>4, <1>6, <1>7 DEF Addresses, Flags

(* usertrap sends only calls to the system call handler. *)
LEMMA usertrapTypes ==
  ASSUME TrapInv, TypeInv, usertrap
  PROVE  TypeInv'
<1> USE DEF usertrap, TypeInv, Jump
<1>1. regs[TP] \in Values /\ regs[SP] \in Values
  BY DEF Contents, TP, SP, Regs
<1>2. Contents'
  BY <1>1, ValuesNamed, Zenon DEF Contents, KernelRegs
<1>3. Flags'
  BY Zenon DEF Flags
<1>4. pc'[1] = "syscall" => scause' = "UserEnvCall"
  BY Zenon
<1>5. (Entered' \/ pc'[1] \in Saved) => pc[1] \in Saved
  BY DEF Entered, Saved, Handling, At
<1>6. pc'[2] = 0
  OBVIOUS
<1> QED
  BY <1>2, <1>3, <1>4, <1>5, <1>6, TrapAssumption DEF Addresses

(* A call resumes one instruction on, which the program still has. *)
LEMMA syscallTypes ==
  ASSUME TrapInv, TypeInv, syscall
  PROVE  TypeInv'
<1> USE DEF syscall, csrs, TypeInv, Jump
<1>1. tf'.user_regs = tf.user_regs /\ tf'.sepc = NextInstruction(tf.sepc)
  BY DEF TrapInv, Shapes
<1>2. Contents' /\ Flags'
  BY <1>1 DEF Contents, Flags
<1>3. pc[1] = "syscall" /\ pc[1] \in Saved
  BY DEF At, Saved, Handling
<1>4. tf.sepc = atTrap.pc /\ scause = "UserEnvCall"
  BY <1>3 DEF TrapInv, Trapped, Addresses
<1>5. tf'.sepc[2] \in 0 .. MaxPc
  BY <1>1, <1>3, <1>4, TrapAssumption DEF Addresses, NextInstruction
<1>6. ~ Entered' /\ pc'[1] \notin Saved /\ pc'[1] # "syscall" /\ pc'[2] = 0
  BY DEF Entered, Saved, Handling
<1> QED
  BY <1>2, <1>5, <1>6, TrapAssumption DEF Addresses

(* kernelvec and kerneltrap. *)
LEMMA ServingTypes ==
  ASSUME TrapInv, TypeInv, kernelvec \/ kerneltrap \/ kernelvec_restore
  PROVE  TypeInv'
<1> USE DEF kernelvec, kerneltrap, kernelvec_restore, csrs, TypeInv, Jump, sret
<1>1. \A r \in Regs : regs[r] \in Values /\ kframe[r] \in Values
  BY DEF Contents
<1>2. Contents'
  <2>1. CASE kernelvec
    BY <2>1 DEF Contents
  <2>2. CASE kerneltrap
    BY <1>1, <2>2, ValuesNamed, Zenon DEF Contents, Clobbered
  <2>3. CASE kernelvec_restore
    BY <1>1, <2>3 DEF Contents
  <2> QED  BY <2>1, <2>2, <2>3
<1>3. Flags'
  <2>1. CASE kernelvec
    BY <2>1 DEF Flags
  <2>2. CASE kerneltrap
    BY <2>2 DEF Flags
  <2>3. CASE kernelvec_restore
    BY <2>3 DEF Flags
  <2> QED  BY <2>1, <2>2, <2>3
<1>4. pc'[2] \in 0 .. MaxPc /\ sepc'[2] \in 0 .. MaxPc /\ tf'.sepc[2] \in 0 .. MaxPc
  BY TrapAssumption DEF Addresses
<1>5. ~ Entered' /\ pc'[1] \notin Saved /\ pc'[1] # "syscall"
  BY DEF Entered, Saved, Handling, At, TrapInv, Returns, Serving
<1> QED
  BY <1>2, <1>3, <1>4, <1>5 DEF Addresses

(* Addresses, registers and flags hold what they are declared to hold.     *)
LEMMA TypeInvariant == Spec => [](TrapInv /\ TypeInv)
<1>1. Init => TypeInv
  <2> SUFFICES ASSUME Init PROVE TypeInv
    OBVIOUS
  <2>1. Addresses
    BY TrapAssumption DEF Init, Addresses, InitialContext, zero, Entered, Saved, Handling
  <2>2. \A r \in Regs : regs[r] \in {hartid, boot_stack, << "kernel", r >>}
    BY DEF Init, KernelRegs
  <2>3. \A r \in Regs : regs[r] \in Values
    BY <2>2, ValuesNamed, Zenon
  <2>4. regs \in [Regs -> Values]
    BY <2>3 DEF Init, KernelRegs
  <2>5. tf.user_regs \in [Regs -> Values] /\ sscratch \in Values /\ kframe = regs
    BY ValuesNamed DEF Init, InitialContext
  <2> QED  BY <2>1, <2>4, <2>5, SMTT(20) DEF TypeInv, Contents, Flags, Init
<1>2. TrapInv /\ TypeInv /\ [Next]_vars => TypeInv'
  BY Traps, TrapTypes, ControlTypes, OutTypes, RunTypes, InTypes, usertrapTypes, syscallTypes,
     ServingTypes
     DEF Next, HartStep
<1> QED
  BY <1>1, <1>2, TrapInit, TrapStep, PTL DEF Spec

(* Program counter, registers, CSRs, trap context and lock have their      *)
(* types, for any number of calls: saving and restoring never leaves a     *)
(* register without a value, and no return goes past the program's end     *)
(* (trampoline.S, kernelvec.S, usertrap, syscall).                         *)
THEOREM TrapPathTypes == Spec => []TypeOK
<1>1. ASSUME TrapInv, TypeInv PROVE TypeOK
  <2> USE <1>1
  <2>1. pc \in Labels \X (0 .. MaxPc)
    BY DEF TrapInv, Shapes, TypeInv, Addresses
  <2>2. /\ mode \in {"U", "S"} /\ satp \in {kernel_satp, user_satp}
        /\ stvec \in {"kernelvec", "uservec"}
    BY DEF TrapInv, Spaces, Vectors
  <2>3. /\ regs \in [Regs -> Values] /\ tf.user_regs \in [Regs -> Values]
        /\ kframe \in [Regs -> Values] /\ sscratch \in Values
    BY DEF TypeInv, Contents
  <2> QED  BY <2>1, <2>2, <2>3 DEF TypeOK, TypeInv, Flags
<1> QED
  BY <1>1, TypeInvariant, PTL
=============================================================================

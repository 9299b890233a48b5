---------------------------- MODULE BootProofs -----------------------------
(***************************************************************************)
(* Proofs about Boot for any set of harts and any order of .bss: the other *)
(* harts wait for hart 0, even if late harts zero HART0_STARTED again; no  *)
(* byte is lost on the serial port; the interrupts of the devices reach    *)
(* every hart that has booted; and if no hart is late in zeroing .bss,     *)
(* everything is set up once and stays so.                                 *)
(***************************************************************************)
EXTENDS Boot, Integers, FiniteSetTheorems, TLAPS

-----------------------------------------------------------------------------
(* The interrupt controller: the addresses the driver computes are those   *)
(* of the hart's own S-mode context.                                       *)

\* the states of the controller with every threshold at zero
Device ==
  [ priority  : [Sources -> 0 .. 1],
    enabled   : [Contexts -> SUBSET Sources],
    threshold : [Contexts -> {0}] ]

(* The S-mode and the M-mode context of a hart are contexts, and no two of *)
(* them are the same.                                                      *)
LEMMA ContextsOfHart ==
  /\ \A h \in Harts : h \in 0 .. 7 /\ 2 * h \in Contexts /\ 2 * h + 1 \in Contexts
  /\ \A c \in Contexts : c \in 0 .. 15
  /\ \A h, k \in Harts : 2 * h # 2 * k + 1 /\ (2 * h + 1 = 2 * k + 1 => h = k)
BY PlicAssumption DEF Contexts

(* PLIC_SENABLE(hart) is the enable word of the S-mode context. *)
LEMMA EnableOwnContext ==
  ASSUME NEW p \in Device, NEW h \in Harts, NEW id \in Sources
  PROVE  enable(p, h, id) = [p EXCEPT !.enabled[2 * h + 1] = @ \cup {id}]
<1> DEFINE addr == PLIC_SENABLE(h)
           context == (addr - 8192) \div 128
<1>1. addr = 8192 + 128 * (2 * h + 1)
  BY ContextsOfHart DEF PLIC_SENABLE
<1>2. context = 2 * h + 1
  BY <1>1, ContextsOfHart
<1>3. addr \in { 8192 + 128 * c : c \in Contexts }
  BY <1>1, ContextsOfHart
<1> HIDE DEF addr
<1>4. SetEnableBit(p, addr, id) = [p EXCEPT !.enabled[context] = @ \cup {id}]
  BY <1>3, SMT DEF SetEnableBit
<1> HIDE DEF context
<1>5. SetEnableBit(p, addr, id) = [p EXCEPT !.enabled[2 * h + 1] = @ \cup {id}]
  BY <1>2, <1>4, Zenon
<1> QED
  BY <1>5, Zenon DEF enable, addr

(* set_threshold(0) of a hart leaves every threshold at zero. *)
LEMMA ThresholdStaysZero ==
  ASSUME NEW p \in Device, NEW h \in Harts
  PROVE  set_threshold(p, h, 0) = p
<1> DEFINE addr == PLIC_SPRIORITY(h)
<1>1. addr = 2097152 + 4096 * (2 * h + 1) /\ addr \in Nat /\ addr > 100
  BY ContextsOfHart DEF PLIC_SPRIORITY
<1>2. (addr - 2097152) \div 4096 = 2 * h + 1
  BY <1>1, ContextsOfHart
<1>3. addr \in { 2097152 + 4096 * c : c \in Contexts }
  BY <1>1, ContextsOfHart
<1>4. addr \notin { 4 * id : id \in Sources }
  BY <1>1 DEF Sources, URT0_IRQ, VIRTIO0_IRQ
<1>5. 0 % 8 = 0
  OBVIOUS
<1>6. p = [p EXCEPT !.threshold[2 * h + 1] = 0]
  BY ContextsOfHart DEF Device
<1> HIDE DEF addr
<1>7. WriteWord(p, addr, 0) = [p EXCEPT !.threshold[(addr - 2097152) \div 4096] = 0]
  BY <1>3, <1>4 DEF WriteWord
<1> QED
  BY <1>2, <1>5, <1>6, <1>7 DEF set_threshold, addr

(* set_priority writes a word that is neither a priority nor a threshold. *)
LEMMA SetPriorityChangesNothing ==
  ASSUME NEW p \in Device, NEW h \in Harts, NEW id \in Sources
  PROVE  set_priority(p, h, id, 1) = p
<1> DEFINE addr == PLIC_SPRIORITY(h) + 4 * id
<1>1. addr \in Nat /\ addr > 100
  BY ContextsOfHart DEF PLIC_SPRIORITY, Sources, URT0_IRQ, VIRTIO0_IRQ
<1>2. \A c \in Contexts : addr # 2097152 + 4096 * c
  BY ContextsOfHart DEF PLIC_SPRIORITY, Sources, URT0_IRQ, VIRTIO0_IRQ
<1>3. \A s \in Sources : addr # 4 * s
  BY <1>1 DEF Sources, URT0_IRQ, VIRTIO0_IRQ
<1> HIDE DEF addr
<1>4. WriteWord(p, addr, 1 % 8) = p
  BY <1>2, <1>3 DEF WriteWord
<1> QED
  BY <1>4 DEF set_priority, addr

(* Setting enable bits is a step between states of the controller. *)
LEMMA EnableDevice ==
  ASSUME NEW p \in Device, NEW h \in Harts, NEW id \in Sources
  PROVE  /\ enable(p, h, id) \in Device
         /\ enable(p, h, id).priority = p.priority
         /\ enable(p, h, id).enabled = [p.enabled EXCEPT ![2 * h + 1] = @ \cup {id}]
<1> DEFINE c == 2 * h + 1
           q == [p EXCEPT !.enabled[c] = @ \cup {id}]
<1>1. c \in Contexts
  BY ContextsOfHart
<1>2. enable(p, h, id) = q
  BY EnableOwnContext, ZenonT(40)
<1> HIDE DEF c
<1>3. q \in Device
  BY <1>1 DEF Device
<1>4. q.priority = p.priority /\ q.enabled = [p.enabled EXCEPT ![c] = @ \cup {id}]
  BY <1>1 DEF Device
<1> HIDE DEF q
<1> QED
  BY <1>2, <1>3, <1>4, Zenon DEF c

(* plic::hart_init enables both sources for the S-mode of its hart and     *)
(* changes nothing else: no other hart's context, no priority.             *)
THEOREM HartInitOwnContext ==
  ASSUME NEW p \in Device, NEW h \in Harts
  PROVE  /\ plic_hart_init(p, h) \in Device
         /\ plic_hart_init(p, h).priority = p.priority
         /\ plic_hart_init(p, h).enabled = [p.enabled EXCEPT ![2 * h + 1] = Sources]
<1> DEFINE one == enable(p, h, URT0_IRQ)
           two == enable(one, h, VIRTIO0_IRQ)
           c == 2 * h + 1
<1>0. c \in Contexts /\ URT0_IRQ \in Sources /\ VIRTIO0_IRQ \in Sources
  BY ContextsOfHart DEF Sources
<1>1. one \in Device /\ one.priority = p.priority /\ one.enabled = [p.enabled EXCEPT ![c] = @ \cup {URT0_IRQ}]
  BY <1>0, EnableDevice, SMT
<1> HIDE DEF one
<1>2. two \in Device /\ two.priority = one.priority /\ two.enabled = [one.enabled EXCEPT ![c] = @ \cup {VIRTIO0_IRQ}]
  BY <1>0, <1>1, EnableDevice, SMT
<1> HIDE DEF two
<1>3. set_threshold(two, h, 0) = two
  BY <1>2, ThresholdStaysZero
<1>4. set_priorities(two, h) = two
  BY <1>0, <1>2, SetPriorityChangesNothing, Zenon DEF set_priorities
<1>5. plic_hart_init(p, h) = two
  BY <1>3, <1>4, Zenon DEF plic_hart_init, enable_sources, one, two
<1>6. two.enabled = [p.enabled EXCEPT ![c] = Sources]
  <2>1. p.enabled \in [Contexts -> SUBSET Sources]
    BY DEF Device
  <2>2. one.enabled[c] = p.enabled[c] \cup {URT0_IRQ} /\ p.enabled[c] \subseteq Sources
    BY <1>0, <1>1, <2>1
  <2>3. one.enabled[c] \cup {VIRTIO0_IRQ} = Sources
    BY <2>2 DEF Sources
  <2> HIDE DEF c
  <2> QED  BY <1>0, <1>1, <1>2, <2>1, <2>3, Zenon
<1> QED
  BY <1>1, <1>2, <1>5, <1>6

(* plic::init gives both sources priority one and changes nothing else. *)
LEMMA InitPriorities ==
  ASSUME NEW p \in Device
  PROVE  /\ plic_init(p) \in Device
         /\ plic_init(p).enabled = p.enabled
         /\ \A id \in Sources : plic_init(p).priority[id] = 1
<1>1. ASSUME NEW d \in Device, NEW id \in Sources
      PROVE  init_source(d, id) = [d EXCEPT !.priority[id] = 1]
  <2>1. 4 * id \in { 4 * s : s \in Sources } /\ (4 * id) \div 4 = id
    BY DEF Sources, URT0_IRQ, VIRTIO0_IRQ
  <2>2. WriteWord(d, 4 * id, 1) = [d EXCEPT !.priority[(4 * id) \div 4] = 1]
    <3>1. 4 * id \notin { 2097152 + 4096 * c : c \in Contexts }
      BY ContextsOfHart DEF Sources, URT0_IRQ, VIRTIO0_IRQ
    <3> QED  BY <2>1, <3>1, SMT DEF WriteWord
  <2> QED  BY <2>1, <2>2, Zenon DEF init_source
<1> DEFINE one == [p EXCEPT !.priority[URT0_IRQ] = 1]
           two == [one EXCEPT !.priority[VIRTIO0_IRQ] = 1]
<1>2. URT0_IRQ \in Sources /\ VIRTIO0_IRQ \in Sources
  BY DEF Sources
<1>3. one \in Device /\ one.enabled = p.enabled /\ one.priority = [p.priority EXCEPT ![URT0_IRQ] = 1]
  BY <1>2 DEF Device
<1>4. plic_init(p) = init_source(one, VIRTIO0_IRQ)
  BY <1>1, <1>2, Zenon DEF plic_init
<1> HIDE DEF one
<1>5. plic_init(p) = two
  BY <1>1, <1>2, <1>3, <1>4, Zenon
<1>6. two \in Device /\ two.enabled = p.enabled /\ two.priority = [one.priority EXCEPT ![VIRTIO0_IRQ] = 1]
  BY <1>2, <1>3 DEF Device
<1> HIDE DEF two
<1>7. \A id \in Sources : two.priority[id] = 1
  BY <1>2, <1>3, <1>6 DEF Device, Sources
<1> QED
  BY <1>5, <1>6, <1>7

-----------------------------------------------------------------------------
(* Types *)

\* TypeOK without the port
BootTypes ==
  /\ pc \in [Harts -> Unstarted \cup Initialising \cup Booted \cup
               { "hart_booting", "alloc_error", "panic", "abort", "fault", "tick" }]
  /\ at \in [Harts -> 1 .. Len(Bss) + 1]
  /\ set \subseteq Parts
  /\ scratch \subseteq Harts /\ sie \subseteq Harts
  /\ spaces \in 0 .. MANY
  /\ {info_lock, uart_lock} \subseteq Harts \cup {NoHart}
  /\ io \in [Harts -> { "idle", "info", "_print", "put", "write_thr" }]
  /\ left \in [Harts -> 0 .. LINE]

(* A line is followed by the rest of what the hart was at. *)
LEMMA AfterLine ==
  /\ After["hart_booting"] = "hart_init" /\ After["make_another"] = "lock_table"
  /\ After["alloc_error"] = "panic" /\ After["panic"] = "abort"
BY DEF After

(* What printing changes besides the port and the locks: the hart stays    *)
(* where it is, or goes on after the last byte.                            *)
LEMMA PrintMoves ==
  ASSUME NEW h \in Harts, PrintLine(h)
  PROVE  /\ UNCHANGED << at, set, scratch, spaces, sie, plic >>
         /\ pc[h] \in Lines
         /\ \/ UNCHANGED pc
            \/ io[h] = "write_thr" /\ pc' = [pc EXCEPT ![h] = After[pc[h]]]
<1> USE DEF PrintLine, PrintStep, memory
<1>1. CASE info(h) \/ _print(h) \/ put(h)
  BY <1>1 DEF info, _print, put
<1>2. CASE write_thr(h)
  BY <1>2, AfterLine DEF write_thr, EndLine, Say
<1> QED
  BY <1>1, <1>2

(* Every step of printing keeps the types. *)
LEMMA TypesPrint ==
  ASSUME BootTypes, NEW h \in Harts, PrintLine(h)
  PROVE  BootTypes'
<1>0. LINE \in Nat \ {0}
  BY BootAssumption, SMTT(20)
<1>1. /\ UNCHANGED << at, set, scratch, spaces, sie >>
      /\ pc' \in [Harts -> Unstarted \cup Initialising \cup Booted \cup
                    { "hart_booting", "alloc_error", "panic", "abort", "fault", "tick" }]
  <2>1. pc[h] \in Lines => After[pc[h]] \in { "hart_init", "lock_table", "panic", "abort" }
    BY AfterLine DEF Lines
  <2> QED  BY <2>1, PrintMoves, SMTT(20) DEF BootTypes, Initialising, Booted
<1>2. {info_lock, uart_lock}' \subseteq Harts \cup {NoHart}
  BY SMTT(20) DEF BootTypes, PrintLine, info, _print, put, write_thr, EndLine, locks, PrintStep
<1>3. io' \in [Harts -> { "idle", "info", "_print", "put", "write_thr" }]
  <2>1. CASE info(h) \/ _print(h) \/ put(h)
    BY <2>1 DEF BootTypes, info, _print, put, PrintStep
  <2>2. CASE write_thr(h)
    <3>1. \E step \in { "idle", "put", "info" } : io' = [io EXCEPT ![h] = step]
      BY <2>2, Zenon DEF write_thr, EndLine, Say
    <3> QED  BY <3>1, Zenon DEF BootTypes
  <2> QED  BY <2>1, <2>2 DEF PrintLine
<1>4. left' \in [Harts -> 0 .. LINE]
  <2>1. CASE info(h) \/ _print(h) \/ put(h)
    BY <2>1 DEF BootTypes, info, _print, put, PrintStep
  <2>2. CASE write_thr(h)
    BY <1>0, <2>2, SMTT(20) DEF BootTypes, write_thr, EndLine, Say
  <2> QED  BY <2>1, <2>2 DEF PrintLine
<1> QED
  BY <1>1, <1>2, <1>3, <1>4, Zenon DEF BootTypes

(* The types of the memory of .bss, the locks and the lines are kept by    *)
(* every step of a hart.                                                   *)
LEMMA TypesHartStep ==
  ASSUME BootTypes, NEW h \in Harts, HartStep(h) \/ Interrupt(h)
  PROVE  BootTypes'
<1> USE DEF Goto, memory, locks, print, UnchangedDevices
<1>0. Len(Bss) \in Nat /\ LINE \in Nat \ {0}
  BY BootAssumption, SMTT(20)
<1>1. CASE ClearBss(h)
  <2>1. at' \in [Harts -> 1 .. Len(Bss) + 1]
    BY <1>0, <1>1, SMTT(20) DEF ClearBss, BootTypes
  <2>2. set' \subseteq Parts /\ scratch' \subseteq Harts
    BY <1>1, Zenon DEF ClearBss, Zero, BootTypes
  <2>3. {info_lock, uart_lock}' \subseteq Harts \cup {NoHart}
    BY <1>1, SMTT(20) DEF ClearBss, Zero, BootTypes
  <2> QED  BY <1>1, <2>1, <2>2, <2>3 DEF ClearBss, BootTypes
<1>2. ASSUME NEW to \in Unstarted \cup Initialising \cup Booted \cup
                          { "hart_booting", "alloc_error", "panic", "abort", "fault", "tick" },
             pc' = [pc EXCEPT ![h] = to], UNCHANGED << at, locks >>,
             set' \subseteq Parts, scratch' \subseteq Harts, sie' \subseteq Harts,
             spaces' \in 0 .. MANY,
             \/ UNCHANGED print
             \/ io' = [io EXCEPT ![h] = "idle"] /\ left' = [left EXCEPT ![h] = 0]
             \/ io' = [io EXCEPT ![h] = IF to = "panic" THEN "put" ELSE "info"]
                /\ left' = [left EXCEPT ![h] = LINE]
      PROVE  BootTypes'
  <2>1. pc' \in [Harts -> Unstarted \cup Initialising \cup Booted \cup
                    { "hart_booting", "alloc_error", "panic", "abort", "fault", "tick" }]
    BY <1>2, Zenon DEF BootTypes
  <2>2. io' \in [Harts -> { "idle", "info", "_print", "put", "write_thr" }]
    BY <1>2 DEF BootTypes
  <2>3. left' \in [Harts -> 0 .. LINE]
    BY <1>0, <1>2 DEF BootTypes
  <2> QED  BY <1>2, <2>1, <2>2, <2>3 DEF BootTypes
<1>3. CASE CallKstart(h) \/ timer_init(h) \/ uart_init(h)
  <2>1. CASE CallKstart(h)
    BY <1>2, <2>1 DEF CallKstart, BootTypes, Unstarted
  <2>2. CASE timer_init(h)
    BY <1>2, <2>2 DEF timer_init, BootTypes, Parts, Unstarted
  <2>3. CASE uart_init(h)
    BY <1>2, <2>3 DEF uart_init, BootTypes, Initialising
  <2> QED  BY <1>3, <2>1, <2>2, <2>3
<1>4. CASE Interrupt(h) \/ LoadZeroes(h)
  BY <1>2, <1>4, SMTT(20) DEF Interrupt, timervec_fault, tick, LoadZeroes, TrapForEver, BootTypes
<1>5. CASE WaitForHart0(h) \/ handle_alloc_error(h) \/ UsertrapretPanic(h)
  BY <1>2, <1>5, SMTT(20) DEF WaitForHart0, handle_alloc_error, UsertrapretPanic, Say, BootTypes
<1>6. ASSUME NEW parts, KernelSpace(parts), parts \subseteq Parts
      PROVE  set' \subseteq Parts /\ spaces' \in 0 .. MANY /\ UNCHANGED << at, scratch >>
  BY <1>6 DEF KernelSpace, BootTypes, Parts, MANY
<1>7. {} \subseteq Parts /\ {"PROCESS_MANAGER"} \subseteq Parts
  BY DEF Parts
<1>8. CASE AllocatorInit(h) \/ StartOthers(h)
  <2>1. CASE AllocatorInit(h)
    BY <1>2, <2>1 DEF AllocatorInit, BootTypes, Parts, Initialising
  <2>2. CASE StartOthers(h)
    BY <1>2, <2>2 DEF StartOthers, BootTypes, Parts, Booted
  <2> QED  BY <1>8, <2>1, <2>2
<1>9. CASE mm_init(h) \/ hart_init(h) \/ process_init(h)
  BY <1>2, <1>6, <1>7, <1>9, SMTT(20) DEF mm_init, hart_init, process_init, BootTypes, Initialising
<1>10. CASE InterruptInit(h) \/ InterruptHartInit(h)
  BY <1>2, <1>10, SMTT(20) DEF InterruptInit, InterruptHartInit, BootTypes, Initialising, Booted
<1>11. CASE lock_space(h)
  <2>1. set' \subseteq Parts /\ spaces' \in 0 .. MANY /\ UNCHANGED << at, scratch >>
    BY <1>6, <1>7, <1>11 DEF lock_space
  <2> QED  BY <1>2, <1>11, <2>1 DEF lock_space, Say, BootTypes, Booted
<1>12. CASE LockTable(h) \/ usertrapret(h)
  BY <1>2, <1>6, <1>7, <1>12, SMTT(20) DEF LockTable, usertrapret, BootTypes, Booted
<1>13. CASE PrintLine(h)
  BY <1>13, TypesPrint
<1> QED
  BY <1>1, <1>3, <1>4, <1>5, <1>8, <1>9, <1>10, <1>11, <1>12, <1>13, Zenon
     DEF HartStep, Start, Initialise, Leave

(* Initially the types hold. *)
LEMMA TypesInit == Init => BootTypes
BY BootAssumption, SMTT(20) DEF Init, BootTypes, Unstarted, MANY

(* Every step of the system keeps them. *)
LEMMA TypesStep == BootTypes /\ [Next]_vars => BootTypes'
<1>1. BootTypes /\ (transmit \/ UNCHANGED vars) => BootTypes'
  BY DEF transmit, vars, memory, locks, print, BootTypes
<1> QED
  BY <1>1, TypesHartStep DEF Next

-----------------------------------------------------------------------------
(* The flag *)

\* where a hart other than hart 0 is before it has seen HART0_STARTED
Waiting == Unstarted \cup { "fault" }

\* hart 0 is through its initialisation, whatever became of it since
Through == pc[BootHart] \notin Unstarted \cup Initialising /\ spaces > 0

\* where a hart may be with interrupts on
Interruptible == { "usertrapret", "alloc_error", "panic", "abort" }

\* hart 0 between mm::init and the end of its initialisation
Spaced == Initialising \ { "allocator_init", "make_kernel" }

(* The flag, as long as it is set, and any hart that has seen it, say that *)
(* hart 0 is through.  Zeroing .bss only ever takes the flag away, and     *)
(* from none of the places it sends hart 0 to does hart 0 come back.       *)
FlagInv ==
  /\ BootTypes
  /\ \A h \in sie : pc[h] \in Interruptible
  /\ pc[BootHart] # "hart_booting"
  /\ "KERNEL_ADDRESS_SPACE" \in set \/ pc[BootHart] \in Spaced => spaces > 0
  /\ "HART0_STARTED" \in set => Through
  /\ \A h \in Harts \ {BootHart} : pc[h] \notin Waiting => Through

(* Initially no hart has left _start. *)
LEMMA FlagInit == Init => FlagInv
<1> SUFFICES ASSUME Init PROVE FlagInv
  OBVIOUS
<1>1. BootTypes
  BY TypesInit
<1>2. BootHart \in Harts /\ set = {} /\ sie = {} /\ \A h \in Harts : pc[h] = "_start"
  BY PlicAssumption DEF Init, BootHart
<1> QED
  BY <1>1, <1>2 DEF FlagInv, Waiting, Unstarted, Spaced, Initialising

\* what a step of hart h does that keeps hart 0 from going back, and the other
\* harts from going on before hart 0 is through
Onward(h) ==
  /\ pc' = [pc EXCEPT ![h] = pc'[h]]
  /\ spaces' \in Nat /\ spaces' >= spaces
  /\ sie' \subseteq sie \cup {h} /\ (h \in sie' => pc'[h] \in Interruptible)
  /\ "KERNEL_ADDRESS_SPACE" \in set' => spaces' > 0
  /\ "HART0_STARTED" \in set' => "HART0_STARTED" \in set \/ Through'
  /\ h # BootHart => pc'[h] \in Waiting \/ Through
  /\ h = BootHart => /\ pc'[h] # "hart_booting"
                     /\ pc'[h] \in Spaced => spaces' > 0
                     /\ Through => pc'[h] \notin Unstarted \cup Initialising

(* Such a step keeps FlagInv. *)
LEMMA FlagKept ==
  ASSUME FlagInv, BootTypes', NEW h \in Harts, Onward(h)
  PROVE  FlagInv'
<1> USE DEF Onward
<1>1. BootHart \in Harts /\ DOMAIN pc = Harts /\ spaces \in Nat /\ sie \subseteq Harts
  BY PlicAssumption DEF FlagInv, BootTypes, BootHart, MANY
<1>2. Through => Through'
  BY <1>1 DEF Through
<1>3. \A k \in Harts \ {BootHart} : pc'[k] \notin Waiting => Through'
  BY <1>1, <1>2, SMTT(20) DEF FlagInv
<1>4. pc'[BootHart] # "hart_booting" /\ \A k \in sie' : pc'[k] \in Interruptible
  BY <1>1 DEF FlagInv
<1>5. "KERNEL_ADDRESS_SPACE" \in set' \/ pc'[BootHart] \in Spaced => spaces' > 0
  BY <1>1 DEF FlagInv
<1> HIDE DEF Through
<1>6. "HART0_STARTED" \in set' => Through'
  BY <1>2 DEF FlagInv
<1> QED
  BY <1>3, <1>4, <1>5, <1>6, Zenon DEF FlagInv, Waiting, Interruptible, Spaced, Unstarted, Initialising

(* Making a kernel space adds to the spaces and to the parts that are set. *)
LEMMA KernelSpaceMakes ==
  ASSUME BootTypes, "KERNEL_ADDRESS_SPACE" \in set => spaces > 0, NEW parts, KernelSpace(parts)
  PROVE  /\ spaces' \in Nat /\ spaces' >= spaces /\ spaces' > 0
         /\ set' = set \cup {"KERNEL_ADDRESS_SPACE"} \cup parts
         /\ UNCHANGED scratch
BY SMTT(20) DEF BootTypes, KernelSpace, MANY

(* Every step of a hart keeps FlagInv. *)
LEMMA FlagHartStep ==
  ASSUME FlagInv, NEW h \in Harts, HartStep(h) \/ Interrupt(h)
  PROVE  FlagInv'
<1> USE DEF Goto, memory, UnchangedDevices
<1>0. /\ BootTypes /\ BootTypes' /\ DOMAIN pc = Harts /\ pc = [pc EXCEPT ![h] = pc[h]]
      /\ spaces \in Nat
      /\ "KERNEL_ADDRESS_SPACE" \in set => spaces > 0
      /\ "HART0_STARTED" \in set => Through
      /\ h # BootHart /\ pc[h] \notin Waiting => Through
      /\ h = BootHart /\ pc[h] \in Unstarted \cup Initialising => ~Through
      /\ h = BootHart /\ pc[h] \in Spaced => spaces > 0
      /\ h = BootHart => pc[h] # "hart_booting"
      /\ h \in sie => pc[h] \in Interruptible
  <2>1. BootTypes /\ BootTypes'
    BY TypesHartStep DEF FlagInv
  <2>2. DOMAIN pc = Harts /\ pc = [pc EXCEPT ![h] = pc[h]] /\ spaces \in Nat
    BY <2>1 DEF BootTypes, MANY
  <2>3. h = BootHart /\ pc[h] \in Unstarted \cup Initialising => ~Through
    BY DEF Through
  <2> QED  BY <2>1, <2>2, <2>3 DEF FlagInv
<1>1. CASE ClearBss(h)
  <2>1. UNCHANGED << pc, spaces, sie >> /\ set' \subseteq set
    BY <1>1 DEF ClearBss, Zero
  <2> QED  BY <1>0, <2>1 DEF FlagInv, Waiting, Interruptible, Spaced, Unstarted, Initialising, Through
<1>2. SUFFICES ASSUME ~ClearBss(h) PROVE Onward(h)
  BY <1>0, <1>1, FlagKept
<1> USE <1>0 DEF Onward, Interruptible
<1>3. CASE CallKstart(h) \/ timer_init(h) \/ uart_init(h)
  BY <1>3 DEF CallKstart, timer_init, uart_init, Waiting, Spaced, Unstarted, Initialising
<1>4. CASE Interrupt(h) \/ LoadZeroes(h)
  BY <1>4 DEF Interrupt, timervec_fault, tick, LoadZeroes, TrapForEver, Waiting, Spaced, Unstarted, Initialising
<1>5. CASE WaitForHart0(h)
  BY <1>5 DEF WaitForHart0, Say, Waiting, Unstarted
<1>6. CASE AllocatorInit(h) \/ InterruptInit(h) \/ InterruptHartInit(h)
  BY <1>6 DEF AllocatorInit, InterruptInit, InterruptHartInit, Waiting, Spaced, Unstarted, Initialising
<1>7. CASE mm_init(h) \/ hart_init(h) \/ process_init(h)
  <2>1. /\ spaces' \in Nat /\ spaces' >= spaces /\ spaces' > 0
        /\ "HART0_STARTED" \in set' => "HART0_STARTED" \in set
    BY <1>7, KernelSpaceMakes DEF mm_init, hart_init, process_init
  <2> QED
    BY <1>7, <2>1 DEF mm_init, hart_init, process_init, Waiting, Spaced, Unstarted, Initialising
<1>8. CASE StartOthers(h)
  <2>1. Through'
    BY <1>8, PlicAssumption DEF StartOthers, Through, Spaced, Initialising, Unstarted, Waiting, BootHart
  <2> QED
    BY <1>8, <2>1 DEF StartOthers, Waiting, Spaced, Unstarted, Initialising
<1>9. CASE lock_space(h) \/ usertrapret(h)
  <2>1. /\ spaces' \in Nat /\ spaces' >= spaces /\ spaces' > 0
        /\ "HART0_STARTED" \in set' => "HART0_STARTED" \in set
    BY <1>9, KernelSpaceMakes DEF lock_space, usertrapret
  <2> QED
    BY <1>9, <2>1 DEF lock_space, usertrapret, Say, Waiting, Spaced, Unstarted, Initialising
<1>10. CASE LockTable(h) \/ UsertrapretPanic(h) \/ handle_alloc_error(h)
  BY <1>10 DEF LockTable, UsertrapretPanic, handle_alloc_error, Say, Waiting, Spaced, Unstarted, Initialising
<1>11. CASE PrintLine(h)
  <2>1. UNCHANGED << set, spaces, sie >> /\ pc[h] \in Lines
    BY <1>11, PrintMoves
  <2>2. pc' = [pc EXCEPT ![h] = pc'[h]] /\ (pc'[h] = pc[h] \/ pc'[h] = After[pc[h]])
    BY <1>11, PrintMoves
  <2>3. /\ pc[h] \notin Waiting /\ pc'[h] \notin Waiting
        /\ pc[h] \in Interruptible => pc'[h] \in Interruptible
        /\ h = BootHart => pc'[h] \notin Unstarted \cup Initialising \cup { "hart_booting" }
    BY <2>1, <2>2, AfterLine DEF Lines, Waiting, Unstarted, Initialising
  <2> QED  BY <2>1, <2>2, <2>3, SMTT(20) DEF Spaced
<1> QED
  BY <1>2, <1>3, <1>4, <1>5, <1>6, <1>7, <1>8, <1>9, <1>10, <1>11, Zenon
     DEF HartStep, Start, Initialise, Leave

(* So does every step of the system. *)
LEMMA FlagStep == FlagInv /\ [Next]_vars => FlagInv'
<1> SUFFICES ASSUME FlagInv, [Next]_vars PROVE FlagInv'
  OBVIOUS
<1>1. CASE transmit \/ UNCHANGED vars
  <2>1. UNCHANGED << pc, set, spaces, sie >> /\ BootTypes'
    BY <1>1, TypesStep, SMTT(20) DEF transmit, vars, memory, FlagInv
  <2> QED  BY <2>1, SMTT(20) DEF FlagInv, Through
<1>2. ASSUME NEW h \in Harts, HartStep(h) \/ Interrupt(h) PROVE FlagInv'
  BY <1>2, FlagHartStep
<1> QED
  BY <1>1, <1>2, SMTT(20) DEF Next

-----------------------------------------------------------------------------
(* The serial port *)

\* the harts between their look at LSR and their write to THR
Writers == { h \in Harts : io[h] = "write_thr" }

\* the registers as Uart::init leaves them
Ready == uart.lcr = 3 /\ uart.fcr = 1 /\ uart.ier = 1 /\ uart.dll = 80 /\ uart.dlm = 2

\* the states of the port in which nothing was lost
Port ==
  [lcr : Nat, fcr : Nat, ier : Nat, dll : Nat, dlm : Nat, fifo : Nat, lost : {FALSE}]

(* No lock is mentioned.  A hart goes on to write only when it has found   *)
(* the FIFO empty, so writers and bytes together never outnumber the       *)
(* harts; and whoever may print has come after uart::init, by itself or by *)
(* way of HART0_STARTED.                                                   *)
PortInv ==
  /\ FlagInv
  /\ uart \in Port
  /\ Cardinality(Writers) + uart.fifo <= Cardinality(Harts)
  /\ set \cap {"heap", "HART0_STARTED"} # {} => Ready
  /\ \A h \in Harts : pc[h] \notin Waiting => Ready

(* There are finitely many harts, and so are the writers. *)
LEMMA WritersFinite ==
  /\ IsFiniteSet(Harts) /\ Cardinality(Harts) \in Nat
  /\ IsFiniteSet(Writers) /\ Cardinality(Writers) \in Nat
<1>1. IsFiniteSet(0 .. 7)
  <2>1. 0 \in Int /\ 7 \in Int
    OBVIOUS
  <2> QED  BY <2>1, FS_Interval, Zenon
<1>2. IsFiniteSet(Harts)
  BY <1>1, FS_Subset, PlicAssumption, Zenon
<1>3. IsFiniteSet(Writers)
  BY <1>2, FS_Subset DEF Writers
<1> QED
  BY <1>2, <1>3, FS_CardinalityType

(* A write to LCR changes LCR alone. *)
LEMMA WroteLCR ==
  ASSUME NEW u \in Port, NEW v \in Nat
  PROVE  LET w == WriteRegister(u, LCR, v) IN
         /\ w \in Port /\ w.lcr = v
         /\ w.fcr = u.fcr /\ w.ier = u.ier /\ w.dll = u.dll /\ w.dlm = u.dlm /\ w.fifo = u.fifo
<1>1. WriteRegister(u, LCR, v) = [u EXCEPT !.lcr = v]
  BY DEF WriteRegister, THR, IER, FCR, LCR
<1> DEFINE w == [u EXCEPT !.lcr = v]
<1>2. /\ w \in Port /\ w.lcr = v
      /\ w.fcr = u.fcr /\ w.ier = u.ier /\ w.dll = u.dll /\ w.dlm = u.dlm /\ w.fifo = u.fifo
  BY Zenon DEF Port
<1> QED
  BY <1>1, <1>2, Zenon

(* A write to FCR changes FCR alone. *)
LEMMA WroteFCR ==
  ASSUME NEW u \in Port, NEW v \in Nat
  PROVE  LET w == WriteRegister(u, FCR, v) IN
         /\ w \in Port /\ w.fcr = v
         /\ w.lcr = u.lcr /\ w.ier = u.ier /\ w.dll = u.dll /\ w.dlm = u.dlm /\ w.fifo = u.fifo
<1>1. WriteRegister(u, FCR, v) = [u EXCEPT !.fcr = v]
  BY DEF WriteRegister, THR, IER, FCR, LCR
<1> DEFINE w == [u EXCEPT !.fcr = v]
<1>2. /\ w \in Port /\ w.fcr = v
      /\ w.lcr = u.lcr /\ w.ier = u.ier /\ w.dll = u.dll /\ w.dlm = u.dlm /\ w.fifo = u.fifo
  BY Zenon DEF Port
<1> QED
  BY <1>1, <1>2, Zenon

(* With the latch closed, a write to IER changes IER alone. *)
LEMMA WroteIER ==
  ASSUME NEW u \in Port, NEW v \in Nat, u.lcr = 3
  PROVE  LET w == WriteRegister(u, IER, v) IN
         /\ w \in Port /\ w.ier = v
         /\ w.lcr = u.lcr /\ w.fcr = u.fcr /\ w.dll = u.dll /\ w.dlm = u.dlm /\ w.fifo = u.fifo
<1>0. ~ dlab(u)
  BY DEF dlab
<1>1. WriteRegister(u, IER, v) = [u EXCEPT !.ier = v]
  BY <1>0 DEF WriteRegister, THR, IER, FCR, LCR
<1> DEFINE w == [u EXCEPT !.ier = v]
<1>2. /\ w \in Port /\ w.ier = v
      /\ w.lcr = u.lcr /\ w.fcr = u.fcr /\ w.dll = u.dll /\ w.dlm = u.dlm /\ w.fifo = u.fifo
  BY Zenon DEF Port
<1> QED
  BY <1>1, <1>2, Zenon

(* With the latch open, a write to offset 0 is to the divisor and sends    *)
(* nothing.                                                                *)
LEMMA WroteDLL ==
  ASSUME NEW u \in Port, NEW v \in Nat, u.lcr = 131
  PROVE  LET w == WriteRegister(u, THR, v) IN
         /\ w \in Port /\ w.dll = v
         /\ w.lcr = u.lcr /\ w.fcr = u.fcr /\ w.ier = u.ier /\ w.dlm = u.dlm /\ w.fifo = u.fifo
<1>0. dlab(u)
  BY DEF dlab
<1>1. WriteRegister(u, THR, v) = [u EXCEPT !.dll = v]
  BY <1>0 DEF WriteRegister, THR, IER, FCR, LCR
<1> DEFINE w == [u EXCEPT !.dll = v]
<1>2. /\ w \in Port /\ w.dll = v
      /\ w.lcr = u.lcr /\ w.fcr = u.fcr /\ w.ier = u.ier /\ w.dlm = u.dlm /\ w.fifo = u.fifo
  BY Zenon DEF Port
<1> QED
  BY <1>1, <1>2, Zenon

(* With the latch open, a write to offset 1 is to the divisor. *)
LEMMA WroteDLM ==
  ASSUME NEW u \in Port, NEW v \in Nat, u.lcr = 131
  PROVE  LET w == WriteRegister(u, IER, v) IN
         /\ w \in Port /\ w.dlm = v
         /\ w.lcr = u.lcr /\ w.fcr = u.fcr /\ w.ier = u.ier /\ w.dll = u.dll /\ w.fifo = u.fifo
<1>0. dlab(u)
  BY DEF dlab
<1>1. WriteRegister(u, IER, v) = [u EXCEPT !.dlm = v]
  BY <1>0 DEF WriteRegister, THR, IER, FCR, LCR
<1> DEFINE w == [u EXCEPT !.dlm = v]
<1>2. /\ w \in Port /\ w.dlm = v
      /\ w.lcr = u.lcr /\ w.fcr = u.fcr /\ w.ier = u.ier /\ w.dll = u.dll /\ w.fifo = u.fifo
  BY Zenon DEF Port
<1> QED
  BY <1>1, <1>2, Zenon

(* Uart::init ends with the latch closed and the FIFO on, and transmits    *)
(* nothing.                                                                *)
LEMMA UartInitReady ==
  ASSUME NEW u \in Port
  PROVE  LET w == Uart_init(u) IN
         /\ w \in Port /\ w.lcr = 3 /\ w.fcr = 1 /\ w.ier = 1 /\ w.dll = 80 /\ w.dlm = 2
         /\ w.fifo = u.fifo
<1> DEFINE word == SetWordLength(u)
           fifo == EnableFifo(word)
           intr == EnableInterrupts(fifo)
           open == OpenLatch(intr)
           low  == SetDivisorLeast(open)
           high == SetDivisorMost(low)
           done == SetWordLength(high)
<1>0. Uart_init(u) = done
  BY DEF Uart_init
<1> HIDE DEF done, high, low, open, intr, fifo, word
<1>1. word \in Port /\ word.lcr = 3 /\ word.fifo = u.fifo
  BY WroteLCR DEF word, SetWordLength
<1>2. fifo \in Port /\ fifo.lcr = 3 /\ fifo.fcr = 1 /\ fifo.fifo = u.fifo
  BY <1>1, WroteFCR DEF fifo, EnableFifo
<1>3. intr \in Port /\ intr.fcr = 1 /\ intr.ier = 1 /\ intr.fifo = u.fifo
  BY <1>2, WroteIER DEF intr, EnableInterrupts
<1>4. open \in Port /\ open.lcr = 131 /\ open.fcr = 1 /\ open.ier = 1 /\ open.fifo = u.fifo
  BY <1>3, WroteLCR DEF open, OpenLatch
<1>5. /\ low \in Port /\ low.lcr = 131 /\ low.fcr = 1 /\ low.ier = 1 /\ low.dll = 80
      /\ low.fifo = u.fifo
  BY <1>4, WroteDLL DEF low, SetDivisorLeast, divisor
<1>6. /\ high \in Port /\ high.fcr = 1 /\ high.ier = 1 /\ high.dll = 80 /\ high.dlm = 2
      /\ high.fifo = u.fifo
  BY <1>5, WroteDLM DEF high, SetDivisorMost, divisor
<1>7. /\ done \in Port /\ done.lcr = 3 /\ done.fcr = 1 /\ done.ier = 1 /\ done.dll = 80
      /\ done.dlm = 2 /\ done.fifo = u.fifo
  <2>1. 3 \in Nat /\ high \in Port
    BY <1>6
  <2>2. /\ done \in Port /\ done.lcr = 3 /\ done.fcr = high.fcr /\ done.ier = high.ier
        /\ done.dll = high.dll /\ done.dlm = high.dlm /\ done.fifo = high.fifo
    BY <2>1, WroteLCR, Zenon DEF done, SetWordLength
  <2> QED  BY <1>6, <2>2
<1> QED
  BY <1>0, <1>7

(* A step after which no hart has begun to write, and the FIFO holds no    *)
(* more bytes, keeps the count.                                            *)
LEMMA CountKept ==
  ASSUME PortInv, Writers' \subseteq Writers, uart'.fifo \in Nat, uart'.fifo <= uart.fifo
  PROVE  Cardinality(Writers)' + uart'.fifo <= Cardinality(Harts)
<1>1. Cardinality(Writers') <= Cardinality(Writers) /\ Cardinality(Writers') \in Nat
  BY WritersFinite, FS_Subset, FS_CardinalityType
<1>2. uart.fifo \in Nat
  BY DEF PortInv, Port
<1> QED
  BY <1>1, <1>2, WritersFinite DEF PortInv

(* A change of the FIFO leaves the other registers as they are. *)
LEMMA FifoChanged ==
  ASSUME uart \in Port, NEW n \in Nat, uart' = [uart EXCEPT !.fifo = n]
  PROVE  uart' \in Port /\ uart'.fifo = n /\ (Ready => Ready')
<1>1. uart' \in Port
  BY Zenon DEF Port
<1>2. uart'.fifo = n
  BY DEF Port
<1>3. Ready => Ready'
  BY DEF Port, Ready
<1> QED
  BY <1>1, <1>2, <1>3

(* The write of a hart that has found the FIFO empty is not lost. *)
LEMMA WriteKept ==
  ASSUME PortInv, Ready, NEW h \in Writers, uart' = WriteTHR(uart), Writers' = Writers \ {h}
  PROVE  /\ uart' = [uart EXCEPT !.fifo = @ + 1]
         /\ Cardinality(Writers)' + uart'.fifo <= Cardinality(Harts)
<1>1. Cardinality(Writers') = Cardinality(Writers) - 1
  BY WritersFinite, FS_RemoveElement, Zenon
<1>2. Cardinality(Writers') \in Nat
  BY WritersFinite, FS_Subset, FS_CardinalityType
<1>0. uart.fifo \in Nat
  BY DEF PortInv, Port
<1>3. uart.fifo < FIFO_DEPTH
  BY <1>0, <1>1, <1>2, WritersFinite, BootAssumption, UartAssumption DEF PortInv
<1>5. uart' = [uart EXCEPT !.fifo = @ + 1]
  BY <1>0, <1>3 DEF WriteTHR, Transmit, Capacity, dlab, Ready
<1>6. uart'.fifo = uart.fifo + 1
  BY <1>5 DEF PortInv, Port
<1> QED
  BY <1>0, <1>1, <1>2, <1>5, <1>6, WritersFinite DEF PortInv

\* what a step of hart h does that leaves the port alone, and in which the hart
\* does not begin to write or get past uart::init on its own
Quiet(h) ==
  /\ UNCHANGED uart
  /\ pc' = [pc EXCEPT ![h] = pc'[h]] /\ (pc'[h] \notin Waiting => Ready)
  /\ io' = [io EXCEPT ![h] = io'[h]] /\ (io'[h] = "write_thr" => UNCHANGED io)
  /\ set' \cap {"heap", "HART0_STARTED"} # {} => Ready

(* Such a step keeps PortInv. *)
LEMMA PortQuiet ==
  ASSUME PortInv, FlagInv', NEW h \in Harts, Quiet(h)
  PROVE  PortInv'
<1> USE DEF Quiet
<1>0. DOMAIN io = Harts /\ DOMAIN pc = Harts
  BY DEF PortInv, FlagInv, BootTypes
<1>1. uart'.fifo \in Nat /\ uart'.fifo <= uart.fifo
  BY DEF PortInv, Port
<1>2. Writers' \subseteq Writers
  BY <1>0 DEF Writers
<1>3. Cardinality(Writers)' + uart'.fifo <= Cardinality(Harts)
  BY <1>1, <1>2, CountKept, SMTT(30)
<1>4. \A k \in Harts : pc'[k] \notin Waiting => Ready
  BY <1>0 DEF PortInv
<1> QED
  BY <1>3, <1>4 DEF PortInv, Ready, Waiting, Unstarted

(* Initially nothing has been written and nobody prints. *)
LEMMA PortInit == Init => PortInv
<1> SUFFICES ASSUME Init PROVE PortInv
  OBVIOUS
<1>1. Writers = {} /\ FlagInv
  BY FlagInit DEF Init, Writers
<1>2. Cardinality(Writers) = 0
  BY <1>1, FS_EmptySet
<1>3. uart \in Port /\ uart.fifo = 0
  BY DEF Init, PowerOn, Port
<1> QED
  BY <1>1, <1>2, <1>3, WritersFinite DEF Init, PortInv, Waiting, Unstarted

(* Every step of a hart keeps PortInv. *)
LEMMA PortHartStep ==
  ASSUME PortInv, NEW h \in Harts, HartStep(h) \/ Interrupt(h)
  PROVE  PortInv'
<1> USE DEF Goto, memory, UnchangedDevices, print
<1>0. /\ FlagInv' /\ pc = [pc EXCEPT ![h] = pc[h]] /\ io = [io EXCEPT ![h] = io[h]]
      /\ DOMAIN pc = Harts /\ DOMAIN io = Harts
      /\ pc[h] \notin Waiting => Ready
      /\ h \in sie => pc[h] \notin Waiting
      /\ set \cap {"heap", "HART0_STARTED"} # {} => Ready
  <2>1. \A k \in Interruptible : k \notin Waiting
    BY DEF Interruptible, Waiting, Unstarted
  <2> QED  BY <2>1, FlagHartStep DEF PortInv, FlagInv, BootTypes
<1>1. CASE uart_init(h)
  <2>1. /\ pc' = [pc EXCEPT ![h] = "allocator_init"] /\ uart' = Uart_init(uart)
        /\ UNCHANGED << set, io >>
    BY <1>1 DEF uart_init
  <2>2. uart' \in Port /\ Ready' /\ uart'.fifo = uart.fifo /\ uart'.fifo \in Nat
    BY <2>1, UartInitReady, ZenonT(40) DEF PortInv, Ready, Port
  <2>3. Writers' \subseteq Writers
    BY <2>1 DEF Writers
  <2>4. Cardinality(Writers)' + uart'.fifo <= Cardinality(Harts)
    BY <2>2, <2>3, CountKept
  <2> QED  BY <1>0, <2>1, <2>2, <2>4 DEF PortInv
<1>2. CASE put(h)
  <2>1. /\ UNCHANGED << uart, set, pc >> /\ uart.fifo = 0 /\ Ready
    BY <1>0, <1>2 DEF put, PrintStep, tx_idle, Waiting, Unstarted, Lines
  <2>2. Cardinality(Writers)' <= Cardinality(Harts) /\ Cardinality(Writers)' \in Nat
    <3>1. Writers' \subseteq Harts
      BY DEF Writers
    <3> QED  BY <3>1, WritersFinite, FS_Subset, FS_CardinalityType
  <2> QED  BY <1>0, <2>1, <2>2, WritersFinite, SMTT(20) DEF PortInv, Ready
<1>3. CASE write_thr(h)
  <2>1. UNCHANGED set /\ uart' = WriteTHR(uart) /\ h \in Writers /\ Ready
    BY <1>0, <1>3 DEF write_thr, Writers, Waiting, Unstarted, Lines
  <2>2. \E step \in { "idle", "put", "info" } : io' = [io EXCEPT ![h] = step]
    BY <1>3, Zenon DEF write_thr, EndLine, Say
  <2>3. Writers' = Writers \ {h}
    BY <1>0, <2>2 DEF Writers
  <2>4. /\ uart' = [uart EXCEPT !.fifo = @ + 1]
        /\ Cardinality(Writers)' + uart'.fifo <= Cardinality(Harts)
    BY <2>1, <2>3, WriteKept
  <2>5. uart' \in Port /\ Ready'
    <3>1. uart.fifo \in Nat /\ uart \in Port
      BY Zenon DEF PortInv, Port
    <3>2. uart.fifo + 1 \in Nat
      BY <3>1
    <3> QED  BY <2>1, <2>4, <3>1, <3>2, FifoChanged, SMTT(20)
  <2> QED  BY <1>0, <2>1, <2>4, <2>5, SMTT(20) DEF PortInv
<1>4. SUFFICES ASSUME ~uart_init(h), ~put(h), ~write_thr(h) PROVE Quiet(h)
  BY <1>0, <1>1, <1>2, <1>3, PortQuiet, SMTT(30)
<1> USE <1>0 DEF Quiet
<1>5. CASE ClearBss(h)
  BY <1>5 DEF ClearBss, Zero
<1>6. CASE CallKstart(h) \/ timer_init(h)
  BY <1>6 DEF CallKstart, timer_init, Waiting, Unstarted
<1>7. CASE Interrupt(h) \/ LoadZeroes(h)
  BY <1>7 DEF Interrupt, timervec_fault, tick, LoadZeroes, TrapForEver, Waiting
<1>8. CASE WaitForHart0(h)
  BY <1>8 DEF WaitForHart0, Say
<1>9. CASE AllocatorInit(h) \/ StartOthers(h) \/ InterruptInit(h) \/ InterruptHartInit(h)
  BY <1>9 DEF AllocatorInit, StartOthers, InterruptInit, InterruptHartInit, Waiting, Unstarted
<1>10. CASE mm_init(h) \/ hart_init(h) \/ process_init(h)
  BY <1>10 DEF mm_init, hart_init, process_init, KernelSpace, Waiting, Unstarted
<1>11. CASE lock_space(h) \/ LockTable(h) \/ usertrapret(h)
  BY <1>11 DEF lock_space, LockTable, usertrapret, KernelSpace, Say, Waiting, Unstarted
<1>12. CASE UsertrapretPanic(h) \/ handle_alloc_error(h)
  BY <1>12 DEF UsertrapretPanic, handle_alloc_error, Say, Waiting, Unstarted
<1>13. CASE info(h) \/ _print(h)
  BY <1>13 DEF info, _print, PrintStep, Lines, Waiting, Unstarted
<1> QED
  BY <1>4, <1>5, <1>6, <1>7, <1>8, <1>9, <1>10, <1>11, <1>12, <1>13, ZenonT(40)
     DEF HartStep, Start, Initialise, Leave, PrintLine

(* So does every step of the system. *)
LEMMA PortStep == PortInv /\ [Next]_vars => PortInv'
<1> SUFFICES ASSUME PortInv, [Next]_vars PROVE PortInv'
  OBVIOUS
<1>0. FlagInv'
  BY FlagStep DEF PortInv
<1>1. CASE transmit
  <2>1. /\ uart' = [uart EXCEPT !.fifo = @ - 1] /\ uart.fifo \in Nat \ {0}
        /\ UNCHANGED << pc, set, io >>
    <3>1. uart.fifo \in Nat
      BY DEF PortInv, Port
    <3> QED  BY <3>1, <1>1 DEF transmit, memory, print
  <2>2. uart' \in Port /\ uart'.fifo <= uart.fifo /\ uart'.fifo \in Nat /\ (Ready => Ready')
    <3>1. uart.fifo - 1 \in Nat /\ uart.fifo - 1 <= uart.fifo /\ uart \in Port
      BY <2>1 DEF PortInv
    <3> QED  BY <2>1, <3>1, FifoChanged
  <2>3. Writers' \subseteq Writers
    BY <2>1 DEF Writers
  <2>4. Cardinality(Writers)' + uart'.fifo <= Cardinality(Harts)
    BY <2>2, <2>3, CountKept, SMTT(20)
  <2> QED  BY <1>0, <2>1, <2>2, <2>4 DEF PortInv, Waiting, Unstarted
<1>2. ASSUME NEW h \in Harts, HartStep(h) \/ Interrupt(h) PROVE PortInv'
  BY <1>2, PortHartStep
<1>3. CASE UNCHANGED vars
  <2>1. UNCHANGED << uart, pc, set, io >>
    BY <1>3 DEF vars, memory, print
  <2>2. UNCHANGED Writers
    BY <2>1 DEF Writers
  <2> QED  BY <1>0, <2>1, <2>2 DEF PortInv, Ready
<1> QED
  BY <1>1, <1>2, <1>3, SMTT(20) DEF Next

(* What uart::init has set up is what is relied on. *)
LEMMA ReadyConfigured == Ready => Configured(uart)
BY DEF Ready, Configured, dlab, divisor

(* No byte is lost and the port stays configured, for any number of harts  *)
(* that the FIFO has room for, whatever becomes of the print locks.        *)
THEOREM NothingLost == Spec => []NoByteLost
<1>1. PortInv => NoByteLost
  <2>1. PortInv => uart.lost = FALSE
    BY Zenon DEF PortInv, Port
  <2> QED  BY <2>1, ReadyConfigured DEF PortInv, NoByteLost
<1> QED
  BY <1>1, PortInit, PortStep, PTL DEF Spec

(* What a hart has left to print never runs below zero, the FIFO never     *)
(* holds more than it has room for, and the rest keeps its type.           *)
THEOREM BootTypesKept == Spec => []TypeOK
<1>1. PortInv => TypeOK
  <2> SUFFICES ASSUME PortInv PROVE TypeOK
    OBVIOUS
  <2>1. uart.fifo \in Nat
    BY DEF PortInv, Port
  <2>2. uart.fifo \in 0 .. FIFO_DEPTH
    BY <2>1, WritersFinite, BootAssumption, UartAssumption, SMTT(20) DEF PortInv
  <2> QED  BY <2>2 DEF TypeOK, BootTypes, PortInv, FlagInv
<1> QED
  BY <1>1, PortInit, PortStep, PTL DEF Spec

-----------------------------------------------------------------------------
(* The interrupt controller *)

\* the labels after plic::hart_init, and with it those after plic::init
Enabled == Booted \cup { "process_init", "start_others" }
Prioritised == Enabled \cup { "plic_hart_init" }

Priorities == \A id \in Sources : plic.priority[id] = 1

\* the sources are on their way to hart 0
Signalled == Priorities /\ plic.enabled[2 * BootHart + 1] = Sources

(* The priorities are set, and hart 0's context is enabled, before hart 0  *)
(* starts the others; and hart_init adds to its own S-mode context.        *)
InterruptInv ==
  /\ FlagInv
  /\ plic \in Device
  /\ "HART0_STARTED" \in set => Signalled
  /\ \A h \in Harts \ {BootHart} : pc[h] \notin Waiting => Signalled
  /\ \A h \in Harts : pc[h] \in Prioritised => Priorities
  /\ \A h \in Harts : plic.enabled[2 * h] = {}
  /\ \A h \in Harts : pc[h] \in Enabled => plic.enabled[2 * h + 1] = Sources

\* what a step of hart h does that leaves the controller alone, and does not
\* take the hart past plic::init or plic::hart_init
Apart(h) ==
  /\ UNCHANGED plic
  /\ pc' = [pc EXCEPT ![h] = pc'[h]]
  /\ "HART0_STARTED" \in set' => Signalled
  /\ h # BootHart /\ pc'[h] \notin Waiting => Signalled
  /\ pc'[h] \in Prioritised => Priorities
  /\ pc'[h] \in Enabled => plic.enabled[2 * h + 1] = Sources

(* Such a step keeps InterruptInv. *)
LEMMA InterruptQuiet ==
  ASSUME InterruptInv, FlagInv', NEW h \in Harts, Apart(h)
  PROVE  InterruptInv'
<1>1. DOMAIN pc = Harts
  BY DEF InterruptInv, FlagInv, BootTypes
<1>2. (Signalled => Signalled') /\ (Priorities => Priorities')
  BY DEF Apart, Signalled, Priorities
<1> HIDE DEF Signalled, Priorities
<1> QED
  BY <1>1, <1>2, SMTT(20) DEF InterruptInv, Apart

(* Initially the controller is reset and nobody is past anything. *)
LEMMA InterruptInit0 == Init => InterruptInv
<1> SUFFICES ASSUME Init PROVE InterruptInv
  OBVIOUS
<1>1. plic \in Device
  BY DEF Init, Reset, Device
<1>2. \A h \in Harts : plic.enabled[2 * h] = {}
  BY ContextsOfHart DEF Init, Reset
<1>3. FlagInv /\ set = {} /\ \A h \in Harts : pc[h] = "_start"
  BY FlagInit DEF Init
<1> QED
  BY <1>1, <1>2, <1>3, SMTT(20)
     DEF InterruptInv, Waiting, Unstarted, Enabled, Prioritised, Booted

(* Every step of a hart keeps InterruptInv. *)
LEMMA InterruptHartStep ==
  ASSUME InterruptInv, NEW h \in Harts, HartStep(h) \/ Interrupt(h)
  PROVE  InterruptInv'
<1> USE DEF Goto, memory, UnchangedDevices
<1>0. /\ FlagInv' /\ DOMAIN pc = Harts /\ pc = [pc EXCEPT ![h] = pc[h]]
      /\ "HART0_STARTED" \in set => Signalled
      /\ h # BootHart /\ pc[h] \notin Waiting => Signalled
      /\ Signalled => Priorities
      /\ pc[h] \in Prioritised => Priorities
      /\ pc[h] \in Enabled => plic.enabled[2 * h + 1] = Sources
      /\ h = BootHart /\ pc[h] = "start_others" => Signalled
      /\ h = BootHart => pc[h] # "hart_booting"
      /\ h \in sie => pc[h] \notin Waiting
  <2>1. FlagInv' /\ DOMAIN pc = Harts /\ pc = [pc EXCEPT ![h] = pc[h]]
    BY FlagHartStep DEF InterruptInv, FlagInv, BootTypes
  <2>2. /\ h = BootHart => pc[h] # "hart_booting"
        /\ h \in sie => pc[h] \notin Waiting
    BY DEF InterruptInv, FlagInv, Interruptible, Waiting, Unstarted
  <2>3. /\ h = BootHart /\ pc[h] = "start_others" => Signalled
        /\ Signalled => Priorities
    BY DEF InterruptInv, Signalled, Prioritised, Enabled
  <2> QED  BY <2>1, <2>2, <2>3, SMTT(30) DEF InterruptInv
<1>1. CASE InterruptInit(h)
  <2>1. /\ plic' = plic_init(plic) /\ UNCHANGED set /\ pc[h] = "plic_init"
        /\ pc' = [pc EXCEPT ![h] = "plic_hart_init"]
    BY <1>1 DEF InterruptInit
  <2>2. plic' \in Device /\ plic'.enabled = plic.enabled /\ Priorities'
    BY <2>1, InitPriorities, SMTT(20) DEF InterruptInv, Priorities
  <2>3. (Signalled => Signalled') /\ (h # BootHart => Signalled)
    BY <1>0, <2>1, <2>2, SMTT(30) DEF Signalled, Waiting, Unstarted
  <2> QED
    BY <1>0, <2>1, <2>2, <2>3 DEF InterruptInv, Enabled, Booted
<1>2. CASE InterruptHartInit(h)
  <2>1. /\ plic' = plic_hart_init(plic, h) /\ UNCHANGED set /\ pc[h] = "plic_hart_init"
        /\ pc' = [pc EXCEPT ![h] = IF h = BootHart THEN "process_init" ELSE "lock_space"]
    BY <1>2 DEF InterruptHartInit
  <2>2. /\ plic' \in Device /\ plic'.priority = plic.priority
        /\ plic'.enabled = [plic.enabled EXCEPT ![2 * h + 1] = Sources]
    BY <2>1, HartInitOwnContext DEF InterruptInv
  <2>3. plic.enabled \in [Contexts -> SUBSET Sources]
    BY DEF InterruptInv, Device
  <2>4. Priorities /\ Priorities'
    BY <2>1, <2>2, SMTT(20) DEF InterruptInv, Priorities, Prioritised
  <2>5. \A k \in Harts : /\ plic'.enabled[2 * k] = plic.enabled[2 * k]
                         /\ plic'.enabled[2 * k + 1] = IF k = h THEN Sources
                                                        ELSE plic.enabled[2 * k + 1]
    BY <2>2, <2>3, ContextsOfHart
  <2>6. (Signalled => Signalled') /\ (h # BootHart => Signalled)
    BY <1>0, <2>1, <2>4, <2>5, PlicAssumption, SMTT(30) DEF Signalled, Waiting, Unstarted, BootHart
  <2>7. \A k \in Harts : pc'[k] \in Enabled => plic'.enabled[2 * k + 1] = Sources
    BY <1>0, <2>1, <2>5 DEF InterruptInv
  <2>8. \A k \in Harts \ {BootHart} : pc'[k] \notin Waiting => Signalled'
    BY <1>0, <2>1, <2>6 DEF InterruptInv
  <2> HIDE DEF Signalled, Priorities
  <2> QED
    BY <1>0, <2>1, <2>2, <2>4, <2>5, <2>6, <2>7, <2>8, SMTT(20) DEF InterruptInv
<1>3. SUFFICES ASSUME ~InterruptInit(h), ~InterruptHartInit(h) PROVE Apart(h)
  BY <1>0, <1>1, <1>2, InterruptQuiet, SMTT(30)
<1> USE <1>0 DEF Apart, Prioritised, Enabled, Booted
<1>4. CASE ClearBss(h)
  BY <1>4 DEF ClearBss, Zero
<1>5. CASE CallKstart(h) \/ timer_init(h) \/ uart_init(h)
  BY <1>5, SMTT(30) DEF CallKstart, timer_init, uart_init, Waiting, Unstarted
<1>6. CASE Interrupt(h) \/ LoadZeroes(h)
  BY <1>6 DEF Interrupt, timervec_fault, tick, LoadZeroes, TrapForEver, Waiting
<1>7. CASE WaitForHart0(h)
  BY <1>7 DEF WaitForHart0, Say
<1>8. CASE AllocatorInit(h) \/ StartOthers(h)
  BY <1>8 DEF AllocatorInit, StartOthers, Waiting, Unstarted
<1>9. CASE mm_init(h) \/ hart_init(h) \/ process_init(h)
  BY <1>9, SMTT(30) DEF mm_init, hart_init, process_init, KernelSpace, Waiting, Unstarted
<1>10. CASE lock_space(h) \/ LockTable(h) \/ usertrapret(h)
  BY <1>10, SMTT(30) DEF lock_space, LockTable, usertrapret, KernelSpace, Say, Waiting, Unstarted
<1>11. CASE UsertrapretPanic(h) \/ handle_alloc_error(h)
  BY <1>11 DEF UsertrapretPanic, handle_alloc_error, Say, Waiting, Unstarted
<1>12. CASE PrintLine(h)
  <2>1. UNCHANGED << set, plic >> /\ pc[h] \in Lines /\ pc' = [pc EXCEPT ![h] = pc'[h]]
        /\ (pc'[h] = pc[h] \/ pc'[h] = After[pc[h]])
    BY <1>12, PrintMoves, SMTT(30)
  <2> QED  BY <2>1, AfterLine DEF Lines, Waiting, Unstarted
<1> QED
  BY <1>3, <1>4, <1>5, <1>6, <1>7, <1>8, <1>9, <1>10, <1>11, <1>12, ZenonT(40)
     DEF HartStep, Start, Initialise, Leave

(* So does every step of the system. *)
LEMMA InterruptStep == InterruptInv /\ [Next]_vars => InterruptInv'
<1> SUFFICES ASSUME InterruptInv, [Next]_vars PROVE InterruptInv'
  OBVIOUS
<1>1. CASE transmit \/ UNCHANGED vars
  <2>1. UNCHANGED << plic, pc, set >> /\ FlagInv'
    BY <1>1, FlagStep, SMTT(20) DEF transmit, vars, memory, InterruptInv
  <2> QED  BY <2>1 DEF InterruptInv, Priorities, Signalled
<1>2. ASSUME NEW h \in Harts, HartStep(h) \/ Interrupt(h) PROVE InterruptInv'
  BY <1>2, InterruptHartStep
<1> QED
  BY <1>1, <1>2, SMTT(20) DEF Next

(* What is enabled in an S-mode context and has a priority is signalled. *)
LEMMA EnabledSignals ==
  ASSUME InterruptInv, NEW h \in Harts, NEW id \in Sources, Priorities,
         plic.enabled[2 * h + 1] = Sources
  PROVE  Signals(plic, id, 2 * h + 1)
<1>1. plic.threshold[2 * h + 1] = 0
  BY ContextsOfHart, SMTT(20) DEF InterruptInv, Device
<1> QED
  BY <1>1, SMTT(20) DEF Signals, Priorities

(* The interrupts of the serial port and the disk reach every hart that    *)
(* has booted, and no machine mode, for any set of up to eight harts.      *)
THEOREM BootedHartsInterruptible == Spec => []InterruptsReach
<1>1. InterruptInv => InterruptsReach
  <2> SUFFICES ASSUME InterruptInv, NEW h \in Harts, NEW id \in Sources
               PROVE  /\ pc[h] \in Booted => Signals(plic, id, 2 * h + 1)
                      /\ ~ Signals(plic, id, 2 * h)
    BY DEF InterruptsReach
  <2>1. plic.enabled[2 * h] = {}
    BY DEF InterruptInv
  <2>2. pc[h] \in Booted => Priorities /\ plic.enabled[2 * h + 1] = Sources
    BY DEF InterruptInv, Prioritised, Enabled
  <2> QED  BY <2>1, <2>2, EnabledSignals, SMTT(20) DEF Signals
<1> QED
  BY <1>1, InterruptInit0, InterruptStep, PTL DEF Spec

(* HART0_STARTED holds the other harts back until hart 0 is through: a     *)
(* hart past the wait finds the port set up, a kernel space made and the   *)
(* devices' interrupts on their way to hart 0, for any number of harts,    *)
(* any layout of .bss, and whatever becomes of hart 0 after that.          *)
THEOREM OthersWait == Spec => []OthersWaitForHart0
<1>1. PortInv /\ InterruptInv => OthersWaitForHart0
  <2> SUFFICES ASSUME PortInv, InterruptInv, NEW h \in Harts \ {BootHart}, pc[h] \notin Waiting
               PROVE  /\ pc[BootHart] \notin Unstarted \cup Initialising
                      /\ Configured(uart) /\ spaces > 0
                      /\ \A id \in Sources : Signals(plic, id, 2 * BootHart + 1)
    BY DEF OthersWaitForHart0, Waiting
  <2>1. Through
    BY DEF PortInv, FlagInv
  <2>2. Configured(uart)
    BY ReadyConfigured DEF PortInv
  <2>3. BootHart \in Harts /\ Signalled
    BY PlicAssumption DEF InterruptInv, BootHart
  <2>4. \A id \in Sources : Signals(plic, id, 2 * BootHart + 1)
    BY <2>3, EnabledSignals DEF Signalled
  <2> QED  BY <2>1, <2>2, <2>4 DEF Through
<1> QED
  BY <1>1, PortInit, PortStep, InterruptInit0, InterruptStep, PTL DEF Spec

-----------------------------------------------------------------------------
(* The initialisation, if no hart is late in zeroing .bss *)

\* hart 0 before allocator::init, before mm::init, before process::init and
\* before setting HART0_STARTED
Early == Unstarted \cup { "allocator_init" }
Spaceless == Early \cup { "make_kernel" }
Unmanaged == Spaceless \cup { "hart_init", "plic_init", "plic_hart_init", "process_init" }
Unready == Unmanaged \cup { "start_others" }

\* what only hart 0 does
Hart0Only == { "allocator_init", "make_kernel", "plic_init", "process_init", "start_others" }

\* what hart 0 has set by the time it is at a label
SetBefore(label) ==
  /\ label \in Early \/ "heap" \in set
  /\ label \in Spaceless \/ "KERNEL_ADDRESS_SPACE" \in set
  /\ label \in Unmanaged \/ "PROCESS_MANAGER" \in set
  /\ label \in Unready \/ "HART0_STARTED" \in set

(* As long as a hart may still zero a part, nothing is set; after that     *)
(* every part is set when hart 0 comes past its initialisation, and stays  *)
(* so.  No hart's timer finds its scratch area zeroed.                     *)
TimelyInv ==
  /\ FlagInv
  /\ "locks" \notin set
  /\ spaces = IF "KERNEL_ADDRESS_SPACE" \in set THEN 1 ELSE 0
  /\ (\A h \in Harts : pc[h] \in { "_start", "kstart" }) => set = {}
  /\ \A h \in Harts : pc[h] \notin { "_start", "kstart" } =>
       h \in scratch /\ "TIMER_SCRATCHES" \in set /\ pc[h] \notin { "fault", "alloc_error" }
  /\ \A h \in Harts \ {BootHart} : pc[h] \notin Hart0Only
  /\ SetBefore(pc[BootHart])

\* what a step of hart h does that zeroes nothing
Keeps(h) ==
  /\ pc' = [pc EXCEPT ![h] = pc'[h]]
  /\ pc[h] \notin { "_start", "kstart" }
  /\ pc'[h] \notin { "_start", "kstart", "fault", "alloc_error" }
  /\ set \subseteq set' /\ "locks" \notin set' /\ UNCHANGED scratch
  /\ spaces' = IF "KERNEL_ADDRESS_SPACE" \in set' THEN 1 ELSE 0
  /\ h # BootHart => pc'[h] \notin Hart0Only
  /\ h = BootHart => SetBefore(pc[h])'

(* Such a step keeps TimelyInv. *)
LEMMA TimelyKept ==
  ASSUME TimelyInv, FlagInv', NEW h \in Harts, Keeps(h)
  PROVE  TimelyInv'
<1> USE DEF Keeps
<1>1. BootHart \in Harts /\ DOMAIN pc = Harts
  BY PlicAssumption DEF TimelyInv, FlagInv, BootTypes, BootHart
<1>2. SetBefore(pc[BootHart])'
  BY <1>1 DEF TimelyInv, SetBefore
<1>3. \A k \in Harts \ {BootHart} : pc'[k] \notin Hart0Only
  BY <1>1 DEF TimelyInv
<1>4. \A k \in Harts : pc'[k] \notin { "_start", "kstart" } =>
        k \in scratch' /\ "TIMER_SCRATCHES" \in set' /\ pc'[k] \notin { "fault", "alloc_error" }
  BY <1>1 DEF TimelyInv
<1>5. ~(\A k \in Harts : pc'[k] \in { "_start", "kstart" })
  BY <1>1
<1> HIDE DEF SetBefore
<1> QED
  BY <1>2, <1>3, <1>4, <1>5, SMTT(30) DEF TimelyInv, Hart0Only

(* Every step of a hart keeps TimelyInv, if no hart is late in zeroing.    *)
LEMMA TimelyHartStep ==
  ASSUME TimelyInv, NoLateClear, NEW h \in Harts, HartStep(h) \/ Interrupt(h)
  PROVE  TimelyInv'
<1> USE DEF Goto, memory, UnchangedDevices
<1>1. FlagInv'
  BY FlagHartStep DEF TimelyInv
<1>2. /\ BootHart \in Harts /\ DOMAIN pc = Harts /\ pc = [pc EXCEPT ![h] = pc[h]]
      /\ h \in sie => pc[h] \in Interruptible
      /\ h = BootHart => SetBefore(pc[h]) /\ pc[h] # "hart_booting"
      /\ h # BootHart => pc[h] \notin Hart0Only
      /\ "locks" \notin set
      /\ spaces = IF "KERNEL_ADDRESS_SPACE" \in set THEN 1 ELSE 0
      /\ pc[h] \notin { "_start", "kstart" } =>
           h \in scratch /\ pc[h] \notin { "fault", "alloc_error" }
  BY PlicAssumption DEF TimelyInv, FlagInv, BootTypes, BootHart
<1>3. h # BootHart /\ pc[h] \notin Waiting => Parts \ {"locks"} \subseteq set
  <2>1. h # BootHart /\ pc[h] \notin Waiting => Through /\ pc[h] \notin { "_start", "kstart" }
    BY DEF TimelyInv, FlagInv, Waiting, Unstarted
  <2> QED
    BY <2>1 DEF TimelyInv, SetBefore, Through, Parts, Initialising, Early, Spaceless, Unmanaged, Unready
<1>4. CASE ClearBss(h)
  <2>1. pc' = pc /\ set = {} /\ set' = {} /\ UNCHANGED spaces
    BY <1>4 DEF ClearBss, Zero, NoLateClear, TimelyInv
  <2>2. \A k \in Harts : pc[k] \in { "_start", "kstart" }
    BY <1>4, SMTT(20) DEF ClearBss, NoLateClear
  <2> QED
    BY <1>1, <1>2, <2>1, <2>2, SMTT(20) DEF TimelyInv, SetBefore
<1>5. CASE CallKstart(h)
  BY <1>1, <1>2, <1>5, SMTT(20)
     DEF CallKstart, TimelyInv, SetBefore, Hart0Only, Early, Spaceless, Unmanaged, Unready, Unstarted
<1>6. CASE timer_init(h)
  BY <1>1, <1>2, <1>6, SMTT(20)
     DEF timer_init, TimelyInv, SetBefore, Hart0Only, Early, Spaceless, Unmanaged, Unready, Unstarted
<1>7. SUFFICES ASSUME ~ClearBss(h), ~CallKstart(h), ~timer_init(h) PROVE Keeps(h)
  BY <1>1, <1>4, <1>5, <1>6, TimelyKept, SMTT(30)
<1> USE <1>2, <1>3 DEF Keeps, SetBefore, Hart0Only, Early, Spaceless, Unmanaged, Unready, Unstarted
<1>8. CASE uart_init(h)
  BY <1>8 DEF uart_init
<1>9. CASE WaitForHart0(h)
  BY <1>9, SMTT(30) DEF WaitForHart0, Say
<1>10. CASE AllocatorInit(h) \/ StartOthers(h)
  BY <1>10, SMTT(30) DEF AllocatorInit, StartOthers
<1>11. CASE InterruptInit(h) \/ InterruptHartInit(h)
  BY <1>11 DEF InterruptInit, InterruptHartInit
<1>12. CASE mm_init(h)
  BY <1>12, SMTT(30) DEF mm_init, KernelSpace
<1>13. CASE hart_init(h)
  BY <1>13 DEF hart_init, KernelSpace, Waiting, Parts
<1>14. CASE process_init(h)
  BY <1>14, SMTT(30) DEF process_init, KernelSpace
<1>15. CASE lock_space(h) \/ usertrapret(h)
  BY <1>15, SMTT(30) DEF lock_space, usertrapret, KernelSpace, Say, Waiting, Parts
<1>16. CASE LockTable(h) \/ UsertrapretPanic(h)
  BY <1>16 DEF LockTable, UsertrapretPanic, Say
<1>17. CASE handle_alloc_error(h) \/ LoadZeroes(h)
  BY <1>17, SMTT(30) DEF handle_alloc_error, LoadZeroes, Waiting, Parts
<1>18. CASE Interrupt(h)
  BY <1>18, SMTT(30) DEF Interrupt, timervec_fault, tick, TrapForEver, Interruptible
<1>19. CASE PrintLine(h)
  <2>1. /\ UNCHANGED << set, scratch, spaces >> /\ pc[h] \in Lines
        /\ pc' = [pc EXCEPT ![h] = pc'[h]] /\ (pc'[h] = pc[h] \/ pc'[h] = After[pc[h]])
    BY <1>19, PrintMoves
  <2> QED  BY <2>1, AfterLine, SMTT(30) DEF Lines
<1> QED
  BY <1>7, <1>8, <1>9, <1>10, <1>11, <1>12, <1>13, <1>14, <1>15, <1>16, <1>17, <1>18, <1>19, ZenonT(40)
     DEF HartStep, Start, Initialise, Leave

(* If no hart is late in zeroing .bss, the kernel's address space is made  *)
(* at most once, no allocation fails and no timer interrupt faults, and    *)
(* every hart that has booted finds all that was set up, its own timer     *)
(* scratch area included: the part of TimelyClearBoots that is not about   *)
(* progress, for any number of harts and any order of .bss.                *)
THEOREM TimelyClearSetsUp == Spec /\ []NoLateClear => []SetUpOnce
<1>1. Init => TimelyInv
  <2> SUFFICES ASSUME Init PROVE TimelyInv
    OBVIOUS
  <2>1. FlagInv /\ BootHart \in Harts
    BY FlagInit, PlicAssumption DEF BootHart
  <2> QED
    BY <2>1, SMTT(20) DEF Init, TimelyInv, SetBefore, Hart0Only, Early, Spaceless, Unmanaged, Unready, Unstarted
<1>2. TimelyInv /\ NoLateClear /\ [Next]_vars => TimelyInv'
  <2> SUFFICES ASSUME TimelyInv, NoLateClear, [Next]_vars PROVE TimelyInv'
    OBVIOUS
  <2>1. CASE transmit \/ UNCHANGED vars
    <3>1. UNCHANGED << pc, set, scratch, spaces >> /\ FlagInv'
      BY <2>1, FlagStep, SMTT(20) DEF transmit, vars, memory, TimelyInv
    <3> QED  BY <3>1 DEF TimelyInv, SetBefore
  <2> QED  BY <2>1, TimelyHartStep DEF Next
<1>3. TimelyInv => SetUpOnce
  <2> SUFFICES ASSUME TimelyInv PROVE SetUpOnce
    OBVIOUS
  <2>1. spaces <= 1 /\ \A h \in Harts : pc[h] \notin { "alloc_error", "fault" }
    BY DEF TimelyInv
  <2>2. ASSUME NEW h \in Harts, pc[h] \in Booted
        PROVE  set = Parts \ {"locks"} /\ h \in scratch
    <3>1. pc[BootHart] \notin Unstarted \cup Initialising
      BY <2>2, Zenon DEF TimelyInv, FlagInv, Waiting, Through, Booted, Unstarted, Initialising
    <3>2. Parts \ {"locks"} \subseteq set /\ h \in scratch
      BY <2>2, <3>1 DEF TimelyInv, SetBefore, Parts, Booted, Early, Spaceless, Unmanaged, Unready, Unstarted, Initialising
    <3> QED  BY <3>2, SMTT(20) DEF TimelyInv, FlagInv, BootTypes
  <2> QED  BY <2>1, <2>2 DEF SetUpOnce
<1> QED
  BY <1>1, <1>2, <1>3, PTL DEF Spec
=============================================================================

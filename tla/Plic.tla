-------------------------------- MODULE Plic --------------------------------
(***************************************************************************)
(* The interrupt controller and its driver, plic.rs.  The driver computes  *)
(* register addresses; the device decodes them.  Addresses are relative to *)
(* PLIC_BASE.  Context 2h is M-mode of hart h, context 2h + 1 its S-mode.  *)
(***************************************************************************)
EXTENDS Naturals, FiniteSets

CONSTANT Harts    \* hart ids, hart 0 among them

ASSUME PlicAssumption == Harts \subseteq 0 .. 7 /\ 0 \in Harts

URT0_IRQ == 10
VIRTIO0_IRQ == 1
Sources == {URT0_IRQ, VIRTIO0_IRQ}

PLIC_SENABLE_Stride(hart) == 8320 + hart * 128

PLIC_SENABLE(hart) == 8320 + hart * 256           \* 0x2080 + hart * 0x100
PLIC_SPRIORITY(hart) == 2101248 + hart * 8192     \* 0x201000 + hart * 0x2000

-----------------------------------------------------------------------------
(* The device *)

Contexts == { 2 * h : h \in Harts } \cup { 2 * h + 1 : h \in Harts }

Reset ==
  [ priority  |-> [id \in Sources |-> 0],
    enabled   |-> [c \in Contexts |-> {}],
    threshold |-> [c \in Contexts |-> 0] ]

(* A word is written: a source's priority, a context's threshold, or       *)
(* nothing that lasts.  The word after the threshold ends the service of   *)
(* the source whose id is written; no source is ever claimed here.         *)
WriteWord(plic, addr, value) ==
  CASE addr \in { 4 * id : id \in Sources } ->
         [plic EXCEPT !.priority[addr \div 4] = value]
    [] addr \in { 2097152 + 4096 * c : c \in Contexts } ->
         [plic EXCEPT !.threshold[(addr - 2097152) \div 4096] = value]
    [] OTHER -> plic

\* The enable words, as sets of ids; reading and setting a bit of one
SetEnableBit(plic, addr, id) ==
  IF addr \in { 8192 + 128 * c : c \in Contexts }
  THEN [plic EXCEPT !.enabled[(addr - 8192) \div 128] = @ \cup {id}]
  ELSE plic

\* The context is signalled when the source is pending.
Signals(plic, id, context) ==
  id \in plic.enabled[context] /\ plic.priority[id] > plic.threshold[context]

-----------------------------------------------------------------------------
(* The driver *)

enable(plic, hart, id) == SetEnableBit(plic, PLIC_SENABLE(hart), id)

set_threshold(plic, hart, tsh) == WriteWord(plic, PLIC_SPRIORITY(hart), tsh % 8)

\* the word of the id, counted from the hart's threshold
set_priority(plic, hart, id, prio) ==
  WriteWord(plic, PLIC_SPRIORITY(hart) + 4 * id, prio % 8)

\* Plic::init
init_source(plic, id) == WriteWord(plic, 4 * id, 1)

\* plic::init
plic_init(plic) == init_source(init_source(plic, URT0_IRQ), VIRTIO0_IRQ)

enable_sources(plic, hart) == enable(enable(plic, hart, URT0_IRQ), hart, VIRTIO0_IRQ)

set_priorities(plic, hart) ==
  set_priority(set_priority(plic, hart, URT0_IRQ, 1), hart, VIRTIO0_IRQ, 1)

\* plic::hart_init.  Every call writes a register of the hart's own context.
plic_hart_init(plic, hart) ==
  set_priorities(set_threshold(enable_sources(plic, hart), hart, 0), hart)
=============================================================================

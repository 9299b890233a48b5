------------------------------- MODULE Layout -------------------------------
(***************************************************************************)
(* The memory layout: the symbols of kernel.ld for a kernel image, and the *)
(* constants of mm/layout.rs.  An image gives the lengths in bytes of the  *)
(* sections, of the embedded init program (initcode) and of the memory     *)
(* (ram); the linker rounds section ends up to pages.                      *)
(***************************************************************************)
EXTENDS Arithmetics

CONSTANTS
  Images,
  KERNEL_BASE,
  BOOT_STACKS,      \* size of the harts' boot stacks, 0x80000 in kernel.ld
  UART_BASE, VIRTIO_BASE, CLINT_BASE, CLINT_SIZE, PLIC_BASE, PLIC_SIZE,
  TEXT_BASE_USER_VA

MAX_VA == 2^(VA_INDEX_WIDTH * 3 + PAGE_ORDER - 1)
TRAMPOLINE_BASE_VA == MAX_VA - PAGE_SIZE
TRAPFRAME_BASE_USER_VA == TRAMPOLINE_BASE_VA - 2 * PAGE_SIZE

trampoline_start(i) == PG_ROUND_UP(KERNEL_BASE + i.init)
trampoline_end(i) == PG_ROUND_UP(trampoline_start(i) + i.trampoline)
text_end(i) == PG_ROUND_UP(trampoline_end(i) + i.text)
rodata_end(i) == PG_ROUND_UP(text_end(i) + i.rodata)
data_end(i) == PG_ROUND_UP(rodata_end(i) + i.data)
bss_end(i) == PG_ROUND_UP(data_end(i) + i.bss)
kernel_stack_end(i) == bss_end(i) + BOOT_STACKS
heap_end(i) == KERNEL_BASE + i.ram

\* the frames the allocator manages
Heap(i) == get_number(kernel_stack_end(i)) .. get_number(heap_end(i)) - 1

(* Addresses and lengths are numbers.  The devices lie below the kernel,   *)
(* in pages of their own, everything lies below the trapframe page, and a  *)
(* trampoline fits one page.                                               *)
ASSUME LayoutAssumption ==
  /\ { KERNEL_BASE, BOOT_STACKS, UART_BASE, VIRTIO_BASE, CLINT_BASE, CLINT_SIZE, PLIC_BASE,
       PLIC_SIZE, TEXT_BASE_USER_VA } \subseteq Nat
  /\ \A a \in { KERNEL_BASE, BOOT_STACKS, UART_BASE, VIRTIO_BASE, CLINT_BASE, PLIC_BASE,
                TEXT_BASE_USER_VA } : a % PAGE_SIZE = 0
  /\ CLINT_BASE + CLINT_SIZE <= PLIC_BASE /\ PLIC_BASE + PLIC_SIZE <= UART_BASE
  /\ UART_BASE + PAGE_SIZE <= VIRTIO_BASE /\ VIRTIO_BASE + PAGE_SIZE <= KERNEL_BASE
  /\ \A i \in Images :
       /\ { i.init, i.trampoline, i.text, i.rodata, i.data, i.bss, i.initcode, i.userret, i.ram }
            \subseteq Nat
       /\ i.initcode > 0 /\ i.trampoline \in 1 .. PAGE_SIZE /\ i.userret < i.trampoline
       /\ i.ram % PAGE_SIZE = 0 /\ kernel_stack_end(i) <= heap_end(i)
       /\ heap_end(i) <= TRAPFRAME_BASE_USER_VA
       /\ TEXT_BASE_USER_VA + i.initcode + 3 * PAGE_SIZE <= TRAPFRAME_BASE_USER_VA

(* Powers of two, of which the provers know nothing: an address has three  *)
(* indices and the page's offset, and MAX_VA leaves out its highest bit.   *)
ASSUME PowersAssumption ==
  /\ 2^VA_INDEX_WIDTH \in Nat \ {0}
  /\ 2^(2 * VA_INDEX_WIDTH) = 2^VA_INDEX_WIDTH * 2^VA_INDEX_WIDTH
  /\ MAX_VA \in Nat /\ MAX_VA % PAGE_SIZE = 0
  /\ get_number(MAX_VA) <= 2^VA_INDEX_WIDTH * 2^VA_INDEX_WIDTH * 2^VA_INDEX_WIDTH
=============================================================================

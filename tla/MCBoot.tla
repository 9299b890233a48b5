------------------------------- MODULE MCBoot -------------------------------
(* Boot for TLC.  kernel.ld puts the heap first in .bss and leaves the     *)
(* order of the other statics to the linker: one of the orders.            *)
EXTENDS Boot

MCBss ==
  << "heap", "KERNEL_ADDRESS_SPACE", "PROCESS_MANAGER", "TIMER_SCRATCHES", "locks",
     "HART0_STARTED" >>
=============================================================================

-------------------------- MODULE MCProcessManager --------------------------
(***************************************************************************)
(* A small machine: three bits of index, so tables of eight entries and an *)
(* address space of 256 pages below MAX_VA, devices in the first pages and *)
(* the kernel at page 16.                                                  *)
(***************************************************************************)
EXTENDS ProcessManager, TLC

MCBase(page) == page * 4096

\* sections that end on a page, one byte before and one byte after it
MCSections ==
  << [init |-> 100,  trampoline |-> 200,  text |-> 4096, rodata |-> 4095, data |-> 4097, bss |-> 1],
     [init |-> 4096, trampoline |-> 4096, text |-> 1,    rodata |-> 0,    data |-> 0,    bss |-> 5000] >>

MCImage(sections, initcode, pages) ==
  [initcode |-> initcode, userret |-> 160, ram |-> MCBase(pages)] @@ MCSections[sections]

\* With the first sections and 14 to 39 pages of memory the frames run out at
\* every step.  Then programs of one byte, of one page and of one byte more.
MCImages ==
  { MCImage(1, 1, ram) : ram \in {9} \cup 14 .. 39 }
  \cup { MCImage(s, n, 44) : s \in {1, 2}, n \in {1, 4096, 4097} }
=============================================================================

---------------------------- MODULE MCLockSpace ----------------------------
(* LockSpace for TLC: three harts, and a kernel page table of three nodes  *)
(* of which the second holds the PTEs of all three.                        *)
EXTENDS LockSpace

CONSTANTS h0, h1, h2

MCKernelNodes == << 1, 2, 3 >>
=============================================================================

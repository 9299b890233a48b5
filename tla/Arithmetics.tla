---------------------------- MODULE Arithmetics ----------------------------
(***************************************************************************)
(* Addresses and page table entries: mm/arithmetics.rs, PhysAddr, VirtAddr *)
(* and the page types of mm/memory.rs, PageTableEntry of mm/page_table.rs. *)
(* Addresses are numbers of bytes and entries the numbers that are stored. *)
(* A mask is written with \div and %: val & !(2^k - 1) rounds down to a    *)
(* multiple of 2^k, val & (2^k - 1) is val % 2^k.                          *)
(***************************************************************************)
EXTENDS Naturals

CONSTANT VA_INDEX_WIDTH   \* bits of a page table index, 9 in the code

ASSUME ArithmeticsAssumption == VA_INDEX_WIDTH \in Nat \ {0}

PAGE_ORDER == 12
PAGE_SIZE == 4096
VA_OFFSET_WIDTH == 12

-----------------------------------------------------------------------------

ALIGN_DOWN(val, order) == (val \div 2^order) * 2^order

ALIGN_UP(val, order) == ((val + (2^order - 1)) \div 2^order) * 2^order

PG_ROUND_DOWN(val) == ALIGN_DOWN(val, PAGE_ORDER)
PG_ROUND_UP(val) == ALIGN_UP(val, PAGE_ORDER)

\* the page number of an address
get_number(addr) == addr \div PAGE_SIZE

\* Frame::get_base_phys_addr, VirtFrame::get_base_virt_addr
get_base_addr(number) == number * PAGE_SIZE

\* VirtAddr::pte_index: the index in a node of the given level
pte_index(va, level) ==
  (get_number(PG_ROUND_DOWN(va)) \div 2^(level * VA_INDEX_WIDTH)) % 2^VA_INDEX_WIDTH

\* VirtAddr::offset: va & VA_OFFSET_WIDTH keeps bits 2 and 3 alone
offset(va) == ((va \div 4) % 4) * 4

\* PhysAddr::with_offset
with_offset(pa, off) == ALIGN_DOWN(pa, VA_OFFSET_WIDTH) + (off % 2^VA_OFFSET_WIDTH)

-----------------------------------------------------------------------------
(* PageTableEntry.  A set of flags is a set of names. *)

FlagBit ==
  [ VALID |-> 1, READABLE |-> 2, WRITABLE |-> 4, EXECUTABLE |-> 8, USER |-> 16,
    GLOBAL |-> 32, ACCESSED |-> 64, DIRTY |-> 128, COW |-> 256 ]

PTEFlags == DOMAIN FlagBit

bits(fl) ==
  LET bit(f) == IF f \in fl THEN FlagBit[f] ELSE 0
  IN  bit("VALID") + bit("READABLE") + bit("WRITABLE") + bit("EXECUTABLE") + bit("USER")
      + bit("GLOBAL") + bit("ACCESSED") + bit("DIRTY") + bit("COW")

make_entry(pa, fl) == get_number(PG_ROUND_DOWN(pa)) * 2^10 + bits(fl)

\* The unwrap of flags() fails for bit 9 only, which no entry made here has.
flags(pte) == { f \in PTEFlags : (pte \div FlagBit[f]) % 2 = 1 }

\* referencing_address
PTE2PA(pte) == (pte \div 2^10) * PAGE_SIZE

is_valid(pte) == "VALID" \in flags(pte)
=============================================================================

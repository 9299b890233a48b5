------------------------------ MODULE AddrMap ------------------------------
(***************************************************************************)
(* What a page table promises its users: a partial map from virtual pages  *)
(* to entries.  A page is mapped at most once, mapping one page leaves the *)
(* others alone, and locking changes nothing but the writable flags of     *)
(* some pages.  PageTable implements this specification.                   *)
(***************************************************************************)

CONSTANTS
  VPNs,      \* virtual pages
  Entries,   \* mappings: records [frame, flags]
  Unmapped   \* no mapping

VARIABLES
  mapping,   \* virtual page -> entry or Unmapped
  halted     \* the kernel panicked

amvars == << mapping, halted >>

NoMapping == [v \in VPNs |-> Unmapped]

Init == mapping = NoMapping /\ halted = FALSE

Map(v) ==
  /\ mapping[v] = Unmapped
  /\ mapping'[v] \in Entries
  /\ \A w \in VPNs \ {v} : mapping'[w] = mapping[w]
  /\ UNCHANGED halted

\* some of the mapped pages become read-only, or writable
Protect(Change(_)) ==
  /\ \A v \in VPNs :
       \/ mapping'[v] = mapping[v]
       \/ /\ mapping[v] # Unmapped
          /\ mapping'[v] = [mapping[v] EXCEPT !.flags = Change(@)]
  /\ UNCHANGED halted

ReadOnly(flags) == flags \ {"W"}
ReadWrite(flags) == flags \cup {"W"}

Discard == mapping' = NoMapping /\ UNCHANGED halted

Halt == halted' = TRUE /\ UNCHANGED mapping

Next ==
  /\ ~ halted
  /\ \/ \E v \in VPNs : Map(v)
     \/ Protect(ReadOnly)
     \/ Protect(ReadWrite)
     \/ Discard
     \/ Halt

Spec == Init /\ [][Next]_amvars
=============================================================================

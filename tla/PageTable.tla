----------------------------- MODULE PageTable -----------------------------
(***************************************************************************)
(* PageTableGuard of page_table.rs: a three-level table whose nodes are    *)
(* frames taken from the frame allocator, built by map_one and             *)
(* map_one_allocate, made read-only and writable again by lock_table and   *)
(* unlock_table, and given back when the guard is dropped.  The methods    *)
(* take `&mut self` or run under the lock of the address space, so each is *)
(* one action.                                                             *)
(***************************************************************************)
EXTENDS Integers, Sequences, FiniteSetsExt, Functions

CONSTANTS
  ENTRY_PER_TABLE,  \* entries of a node (512)
  Frames,           \* physical frames, numbered
  HeapFrames,       \* those the frame allocator manages
  FreeAtStart,      \* the sets of frames that may be free at the start
  Pages,            \* bound: the virtual pages the kernel maps
  Flags,            \* the permissions it maps them with
  TrampolineFrame,  \* a frame that is mapped elsewhere than at its own address
  NoFrame,
  Unmapped          \* a page with no mapping

VPNs == 0 .. ENTRY_PER_TABLE * ENTRY_PER_TABLE * ENTRY_PER_TABLE - 1
Slots == 0 .. ENTRY_PER_TABLE - 1

AllFlags == {"V", "R", "W", "X", "U"}
Ptes == [frame : Frames, flags : SUBSET AllFlags]

(* The heap is mapped identically, at addresses the tables can translate.  *)
(* An entry has room for the number of any page.                           *)
ASSUME PageTableAssumption ==
  /\ ENTRY_PER_TABLE \in Nat \ {0}
  /\ Frames \subseteq Nat /\ {0, TrampolineFrame} \subseteq Frames
  /\ HeapFrames \subseteq Frames \cap VPNs
  /\ FreeAtStart \subseteq SUBSET HeapFrames
  /\ Pages \subseteq Frames \cap VPNs /\ Flags \subseteq SUBSET (AllFlags \ {"V"})
  /\ NoFrame \notin Frames /\ Unmapped \notin Ptes

VARIABLES
  root,        \* frame of the root node, or NoFrame when there is no table
  node_frames, \* the frames of the table's nodes, in order of allocation
  mem,         \* contents of the frames, as page table nodes
  free,        \* the frame allocator's free frames
  panicked

vars == << root, node_frames, mem, free, panicked >>

-----------------------------------------------------------------------------
(* PageTableEntry *)

\* PageTableEntry::new and ::empty; the frame number and the flags
Entry(frame, flags) == [frame |-> frame, flags |-> flags]
empty == Entry(0, {})
is_valid(pte) == "V" \in pte.flags

\* Frame::zero, seen as a page table node
ZeroNode == [i \in Slots |-> empty]

-----------------------------------------------------------------------------
(* The walk *)

pte_index_LowBits(v, level) ==
  CASE level = 0 -> v % ENTRY_PER_TABLE
    [] level = 1 -> v % ENTRY_PER_TABLE
    [] level = 2 -> (v \div (ENTRY_PER_TABLE * ENTRY_PER_TABLE)) % ENTRY_PER_TABLE

\* VirtAddr::pte_index
pte_index(v, level) ==
  CASE level = 0 -> v % ENTRY_PER_TABLE
    [] level = 1 -> (v \div ENTRY_PER_TABLE) % ENTRY_PER_TABLE
    [] level = 2 -> (v \div (ENTRY_PER_TABLE * ENTRY_PER_TABLE)) % ENTRY_PER_TABLE

\* The PTEs of v at levels 2 and 1, and the level-0 node, where they exist
Pte2(m, v) == m[root][pte_index(v, 2)]
Pte1(m, v) == m[Pte2(m, v).frame][pte_index(v, 1)]
HasLeafNode(m, v) == is_valid(Pte2(m, v)) /\ is_valid(Pte1(m, v))
LeafNode(m, v) == Pte1(m, v).frame

\* find(v): the level-0 PTE, valid or not.  None when an interior node is
\* missing: ~ HasLeafNode(m, v).
find(m, v) == m[LeafNode(m, v)][pte_index(v, 0)]

\* find(v)'s PTE replaced by pte
SetLeaf(m, v, pte) == [m EXCEPT ![LeafNode(m, v)][pte_index(v, 0)] = pte]

-----------------------------------------------------------------------------

Init ==
  /\ root = NoFrame
  /\ node_frames = << >>
  /\ mem = [f \in Frames |-> ZeroNode]
  /\ free \in FreeAtStart
  /\ panicked = FALSE

\* A table exists and the kernel runs
Live == root # NoFrame /\ ~ panicked

panic ==
  /\ panicked' = TRUE
  /\ UNCHANGED << root, node_frames, mem, free >>

\* PageTableGuard::allocate
allocate ==
  /\ root = NoFrame /\ ~ panicked
  /\ \/ /\ free # {}
        /\ LET f == Min(free) IN
             /\ root' = f
             /\ node_frames' = << f >>
             /\ mem' = [mem EXCEPT ![f] = ZeroNode]
             /\ free' = free \ {f}
        /\ UNCHANGED panicked
     \/ free = {} /\ panic

\* The interior nodes find_allocate has to add on the way to v
MissingNodes(v) ==
  CASE ~ is_valid(Pte2(mem, v)) -> 2
    [] is_valid(Pte2(mem, v)) /\ ~ is_valid(Pte1(mem, v)) -> 1
    [] OTHER -> 0

\* The frames that allocate_node gets for them, lowest free frame first; fewer
\* than needed when the allocator runs out
NewNodes(v) ==
  LET f1 == Min(free)
      f2 == Min(free \ {f1})
  IN  IF MissingNodes(v) = 0 \/ free = {} THEN << >>
      ELSE IF MissingNodes(v) = 1 \/ free = {f1} THEN << f1 >>
      ELSE << f1, f2 >>

Link(frame) == Entry(frame, {"V"})

\* Memory once the new nodes are zeroed and linked in
WithNodes(v, fs) ==
  CASE fs = << >> -> mem
    [] MissingNodes(v) = 1 /\ Len(fs) = 1 ->
         [mem EXCEPT ![fs[1]] = ZeroNode,
                     ![Pte2(mem, v).frame][pte_index(v, 1)] = Link(fs[1])]
    [] MissingNodes(v) = 2 /\ Len(fs) = 1 ->
         [mem EXCEPT ![fs[1]] = ZeroNode,
                     ![root][pte_index(v, 2)] = Link(fs[1])]
    [] OTHER ->
         [mem EXCEPT ![fs[1]] = [ZeroNode EXCEPT ![pte_index(v, 1)] = Link(fs[2])],
                     ![fs[2]] = ZeroNode,
                     ![root][pte_index(v, 2)] = Link(fs[1])]

map_one_allocate_Untracked(v, frame, flags) ==
  LET fs == NewNodes(v)
      m  == WithNodes(v, fs)
  IN  /\ Live
      /\ free' = free \ Range(fs)
      /\ \/ /\ Len(fs) = MissingNodes(v)
            /\ ~ is_valid(find(m, v))
            /\ mem' = SetLeaf(m, v, Entry(frame, flags \cup {"V"}))
            /\ UNCHANGED panicked
         \/ /\ Len(fs) < MissingNodes(v)
            /\ mem' = m
            /\ panicked' = TRUE
      /\ UNCHANGED << root, node_frames >>

\* find_allocate, the assertion that v is not mapped yet, and the new entry
map_one_allocate(v, frame, flags) ==
  LET fs == NewNodes(v)
      m  == WithNodes(v, fs)
  IN  /\ Live
      /\ node_frames' = node_frames \o fs
      /\ free' = free \ Range(fs)
      /\ \/ /\ Len(fs) = MissingNodes(v)
            /\ ~ is_valid(find(m, v))
            /\ mem' = SetLeaf(m, v, Entry(frame, flags \cup {"V"}))
            /\ UNCHANGED panicked
         \/ /\ \/ Len(fs) < MissingNodes(v)
               \/ Len(fs) = MissingNodes(v) /\ is_valid(find(m, v))
            /\ mem' = m
            /\ panicked' = TRUE
      /\ UNCHANGED root

map_one_Unchecked(v, frame, flags) ==
  /\ Live
  /\ ~ is_valid(find(mem, v))
  /\ mem' = SetLeaf(mem, v, Entry(frame, flags \cup {"V"}))
  /\ UNCHANGED << root, node_frames, free, panicked >>

\* map_one adds no node: None, and no change, when one is missing
map_one(v, frame, flags) ==
  /\ Live
  /\ HasLeafNode(mem, v)
  /\ \/ /\ ~ is_valid(find(mem, v))
        /\ mem' = SetLeaf(mem, v, Entry(frame, flags \cup {"V"}))
        /\ UNCHANGED << root, node_frames, free, panicked >>
     \/ is_valid(find(mem, v)) /\ panic

-----------------------------------------------------------------------------
(* lock_table and unlock_table *)

\* memory with the flags of every node's own page, VirtAddr::from_identical of
\* its frame, given or relieved of W
Reflagged(writable) ==
  [f \in Frames |-> [i \in Slots |->
     IF \E n \in Range(node_frames) : LeafNode(mem, n) = f /\ pte_index(n, 0) = i
     THEN [mem[f][i] EXCEPT !.flags = IF writable THEN @ \cup {"W"} ELSE @ \ {"W"}]
     ELSE mem[f][i]]]

\* find(..).unwrap() succeeds for every node
AllNodesFound == \A n \in Range(node_frames) : HasLeafNode(mem, n)

Reflag(writable) ==
  /\ Live
  /\ \/ /\ AllNodesFound
        /\ mem' = Reflagged(writable)
        /\ UNCHANGED << root, node_frames, free, panicked >>
     \/ ~ AllNodesFound /\ panic

lock_table_SkipsRoot ==
  /\ Live
  /\ AllNodesFound
  /\ mem' = [f \in Frames |-> [i \in Slots |->
       IF \E n \in Range(Tail(node_frames)) : LeafNode(mem, n) = f /\ pte_index(n, 0) = i
       THEN [mem[f][i] EXCEPT !.flags = @ \ {"W"}]
       ELSE mem[f][i]]]
  /\ UNCHANGED << root, node_frames, free, panicked >>

lock_table == Reflag(FALSE)

unlock_table == Reflag(TRUE)

-----------------------------------------------------------------------------
(* Dropping the guard drops the FrameGuard of every node. *)

drop_RootKept ==
  /\ Live
  /\ root' = NoFrame
  /\ node_frames' = << >>
  /\ free' = free \cup Range(Tail(node_frames))
  /\ UNCHANGED << mem, panicked >>

drop_FreesMapped ==
  /\ Live
  /\ root' = NoFrame
  /\ node_frames' = << >>
  /\ free' = free \cup { mem[f][i].frame : f \in Range(node_frames), i \in Slots }
  /\ UNCHANGED << mem, panicked >>

drop ==
  /\ Live
  /\ root' = NoFrame
  /\ node_frames' = << >>
  /\ free' = free \cup Range(node_frames)
  /\ UNCHANGED << mem, panicked >>

\* the frames a page is mapped to: its own, or the trampoline's
Targets(v) == {v, TrampolineFrame}

Next ==
  \/ allocate
  \/ \E v \in Pages, flags \in Flags : \E frame \in Targets(v) :
       map_one_allocate(v, frame, flags) \/ map_one(v, frame, flags)
  \/ lock_table
  \/ unlock_table
  \/ drop

Spec == Init /\ [][Next]_vars

-----------------------------------------------------------------------------
(* Properties *)

Nodes == Range(node_frames)

TypeOK ==
  /\ root \in Frames \cup {NoFrame}
  /\ node_frames \in Seq(Frames)
  /\ mem \in [Frames -> [Slots -> Ptes]]
  /\ free \subseteq HeapFrames
  /\ panicked \in BOOLEAN

\* the frames node f links to
Children(f) == { mem[f][i].frame : i \in { j \in Slots : is_valid(mem[f][j]) } }
Links(f) == { << f, i >> : i \in { j \in Slots : is_valid(mem[f][j]) } }

(* The table is a tree of the frames it owns: the root, the nodes it links *)
(* to and the nodes those link to, each linked once, each tracked once in  *)
(* node_frames and none of them free.  Were two links to meet, mapping one *)
(* page would map another (find_allocate, allocate_node).                  *)
TableIsTree ==
  root # NoFrame =>
    LET level1 == Children(root)
        level0 == UNION { Children(f) : f \in level1 }
        links  == Links(root) \cup UNION { Links(f) : f \in level1 }
    IN  /\ Nodes = {root} \cup level1 \cup level0
        /\ Cardinality(Nodes) = Len(node_frames)
        /\ Cardinality(Nodes) = 1 + Cardinality(links)
        /\ Nodes \cap free = {}

(* Frames are neither lost nor made up: what the table takes from the      *)
(* allocator it gives back when it is dropped, also if it was locked.      *)
FramesConserved == [][free' \cup Nodes' = free \cup Nodes]_vars

(* The methods write to the frames of the table's nodes alone, although    *)
(* they follow physical addresses read from memory.                        *)
WritesOwnNodes ==
  [][\A f \in Frames \ (Nodes \cup Nodes') : mem'[f] = mem[f]]_vars

(* lock_table leaves no page of the table writable and no other page       *)
(* changed ("making its node frames in the kernel space read-only").       *)
LockExact ==
  [][lock_table /\ ~ panicked' =>
       \A v \in VPNs : HasLeafNode(mem, v) =>
         IF v \in Nodes THEN "W" \notin find(mem', v).flags
                        ELSE find(mem', v) = find(mem, v)]_vars

\* the mapping a table stands for
Lookup(v) ==
  IF root # NoFrame /\ HasLeafNode(mem, v) /\ is_valid(find(mem, v))
  THEN find(mem, v) ELSE Unmapped

AM == INSTANCE AddrMap WITH
        VPNs <- VPNs, Entries <- Ptes, Unmapped <- Unmapped,
        mapping <- [v \in VPNs |-> Lookup(v)], halted <- panicked

(* The three-level table implements a partial map from pages to entries:   *)
(* a page is mapped once, and mapping it changes no other page.            *)
ImplementsAddrMap == AM!Spec
=============================================================================

-------------------------- MODULE PageTableProofs ---------------------------
(***************************************************************************)
(* For tables of any width, any frames and any sequence of calls, also     *)
(* when frames run out halfway: the nodes are a tree of frames the table   *)
(* owns, nothing else is written to, lock_table is exact, and the table    *)
(* implements the partial map of AddrMap.                                  *)
(***************************************************************************)
EXTENDS PageTable, FiniteSetTheorems, WellFoundedInduction, TLAPS

NodeMem == [Frames -> [Slots -> Ptes]]

(* The shape of the table in memory m, with the set of nodes N.  As the    *)
(* walk goes by memory and not by node_frames, this is about entries: none *)
(* leads to the same node as another, or up the tree.                      *)
Kids(m, f) == { m[f][i].frame : i \in { j \in Slots : is_valid(m[f][j]) } }

TreeOf(m, N, r) ==
  /\ r \in N
  /\ \A i \in Slots : is_valid(m[r][i]) => m[r][i].frame \in N \ {r}
  /\ \A i, j \in Slots :
       /\ is_valid(m[r][i]) /\ is_valid(m[r][j])
       /\ m[r][i].frame = m[r][j].frame
       => i = j
  /\ \A f \in Kids(m, r) : \A i \in Slots :
       is_valid(m[f][i]) => m[f][i].frame \in N \ ({r} \cup Kids(m, r))
  /\ \A f, g \in Kids(m, r) : \A i, j \in Slots :
       /\ is_valid(m[f][i]) /\ is_valid(m[g][j])
       /\ m[f][i].frame = m[g][j].frame
       => f = g /\ i = j
  /\ N \subseteq {r} \cup Kids(m, r) \cup UNION { Kids(m, f) : f \in Kids(m, r) }

Tree(m, N) == TreeOf(m, N, root)

\* what page v is mapped to in memory m
Look(m, v) == IF HasLeafNode(m, v) /\ is_valid(find(m, v)) THEN find(m, v) ELSE Unmapped

Tracked ==
  /\ \A i, j \in DOMAIN node_frames : node_frames[i] = node_frames[j] => i = j
  /\ Nodes \subseteq HeapFrames \ free
  /\ root = NoFrame => node_frames = << >>

TableInv == TypeOK /\ Tracked /\ (root # NoFrame => Tree(mem, Nodes))

-----------------------------------------------------------------------------
(* Arithmetic *)

(* Quotient and remainder. *)
LEMMA Division ==
  ASSUME NEW n \in Nat \ {0}, NEW a \in Nat
  PROVE  a \div n \in Nat /\ a % n \in 0 .. n - 1 /\ a = n * (a \div n) + (a % n)
OBVIOUS

(* A quotient is smaller than b if its dividend is smaller than n * b. *)
LEMMA QuotientBelow ==
  ASSUME NEW n \in Nat \ {0}, NEW b \in Nat, NEW q \in Nat, NEW r \in Nat, n * q + r < n * b
  PROVE  q < b
<1>1. ASSUME q >= b PROVE n * q >= n * b
  BY <1>1
<1> QED
  BY <1>1

(* Dividing twice by n is dividing by n squared. *)
LEMMA DivTwice ==
  ASSUME NEW n \in Nat \ {0}, NEW v \in Nat
  PROVE  v \div (n * n) = (v \div n) \div n
OBVIOUS

(* An index selects an entry of a node. *)
LEMMA IndexInNode ==
  ASSUME NEW v \in Nat
  PROVE  pte_index(v, 0) \in Slots /\ pte_index(v, 1) \in Slots /\ pte_index(v, 2) \in Slots
<1>1. \A a \in Nat : a % ENTRY_PER_TABLE \in Slots
  BY PageTableAssumption DEF Slots
<1>2. v \div ENTRY_PER_TABLE \in Nat /\ v \div (ENTRY_PER_TABLE * ENTRY_PER_TABLE) \in Nat
  BY PageTableAssumption
<1> QED
  BY <1>1, <1>2 DEF pte_index

(* The three indices determine the page. *)
LEMMA OnePath ==
  ASSUME NEW v \in VPNs, NEW w \in VPNs,
         pte_index(v, 0) = pte_index(w, 0),
         pte_index(v, 1) = pte_index(w, 1),
         pte_index(v, 2) = pte_index(w, 2)
  PROVE  v = w
<1> DEFINE n == ENTRY_PER_TABLE
<1>1. n \in Nat \ {0}
  BY PageTableAssumption
<1>2. ASSUME NEW a \in VPNs
      PROVE  /\ a \in Nat /\ a \div n \in Nat /\ (a \div n) \div n \in 0 .. n - 1
             /\ a = n * (a \div n) + (a % n)
             /\ a \div n = n * ((a \div n) \div n) + ((a \div n) % n)
  <2>1. a \in Nat /\ a < n * n * n
    BY <1>1 DEF VPNs
  <2> HIDE DEF n
  <2>2. a \div n \in Nat /\ a % n \in 0 .. n - 1 /\ a = n * (a \div n) + (a % n)
    BY <1>1, <2>1, Division, Zenon
  <2>3. a \div n < n * n
    BY <1>1, <2>1, <2>2, QuotientBelow
  <2>4. /\ (a \div n) \div n \in Nat /\ (a \div n) % n \in 0 .. n - 1
        /\ a \div n = n * ((a \div n) \div n) + ((a \div n) % n)
    BY <1>1, <2>2, Division, Zenon
  <2>5. (a \div n) \div n < n
    <3> DEFINE q == (a \div n) \div n   r == (a \div n) % n
    <3>1. q \in Nat /\ r \in Nat /\ n * q + r < n * n
      BY <1>1, <2>3, <2>4
    <3> HIDE DEF q, r
    <3>2. q < n
      BY <1>1, <3>1, QuotientBelow
    <3> QED  BY <3>2 DEF q
  <2> QED  BY <2>1, <2>2, <2>4, <2>5, <1>1
<1>3. ASSUME NEW a \in VPNs
      PROVE  /\ pte_index(a, 0) = a % n /\ pte_index(a, 1) = (a \div n) % n
             /\ pte_index(a, 2) = (a \div n) \div n
  <2>1. a \div (n * n) = (a \div n) \div n
    BY <1>1, <1>2, DivTwice, Zenon
  <2>2. \A k \in 0 .. n - 1 : k % n = k
    BY <1>1
  <2> QED  BY <1>2, <2>1, <2>2 DEF pte_index
<1> HIDE DEF n
<1>4. (v \div n) \div n = (w \div n) \div n
  BY <1>3
<1>5. v \div n = w \div n
  <2>1. (v \div n) % n = (w \div n) % n
    BY <1>3
  <2> QED  BY <1>2, <1>4, <2>1, Zenon
<1>6. v % n = w % n
  BY <1>3
<1> QED
  BY <1>2, <1>5, <1>6, Zenon

-----------------------------------------------------------------------------
(* Nodes and entries *)

(* The entries the methods write are entries. *)
LEMMA PteTypes ==
  /\ empty \in Ptes /\ ~ is_valid(empty) /\ ZeroNode \in [Slots -> Ptes]
  /\ \A f \in Frames : Link(f) \in Ptes /\ is_valid(Link(f)) /\ Link(f).frame = f
  /\ \A f \in Frames, fl \in SUBSET AllFlags :
       /\ Entry(f, fl) \in Ptes
       /\ is_valid(Entry(f, fl)) <=> "V" \in fl
BY PageTableAssumption DEF empty, Entry, Ptes, AllFlags, is_valid, ZeroNode, Link

(* The lowest free frame is one of the free frames. *)
LEMMA MinFree ==
  ASSUME NEW S, S \subseteq Nat, S # {}
  PROVE  Min(S) \in S
<1>1. IsWellFoundedOn(OpToRel(<, Nat), Nat)
  BY NatLessThanWellFounded, Zenon
<1>2. \E x \in S : \A y \in S : ~ (<< y, x >> \in OpToRel(<, Nat))
  BY <1>1, WFMin, Zenon
<1>a. OpToRel(<, Nat) = { ss \in Nat \X Nat : ss[1] < ss[2] }
  BY Zenon DEF OpToRel
<1>3. \E x \in S : \A y \in S : x <= y
  <2>1. PICK x \in S : \A y \in S : ~ (<< y, x >> \in { ss \in Nat \X Nat : ss[1] < ss[2] })
    BY <1>2, <1>a, Zenon
  <2>2. ASSUME NEW y \in S PROVE x <= y
    <3>1. x \in Nat /\ y \in Nat /\ << y, x >> \in Nat \X Nat
      OBVIOUS
    <3>2. ~ (y < x)
      BY <2>1, <3>1, SMTT(20)
    <3> QED  BY <3>1, <3>2
  <2> QED  BY <2>2
<1> QED
  BY <1>3, Zenon DEF Min

(* The walk to page v where there is one. *)
LEMMA Walk ==
  ASSUME NEW m, NEW N, Tree(m, N), NEW v \in Nat
  PROVE  /\ is_valid(Pte2(m, v)) => Pte2(m, v).frame \in Kids(m, root)
         /\ HasLeafNode(m, v) => LeafNode(m, v) \in N \ ({root} \cup Kids(m, root))
BY IndexInNode, SMTT(20) DEF Tree, TreeOf, Kids, Pte2, Pte1, HasLeafNode, LeafNode

(* A change below the two upper levels leaves the tree as it is. *)
LEMMA SameTree ==
  ASSUME NEW m, NEW m2, NEW N, Tree(m, N), m2[root] = m[root],
         \A f \in Kids(m, root) : m2[f] = m[f]
  PROVE  Tree(m2, N)
<1>1. Kids(m2, root) = Kids(m, root)
  BY DEF Kids
<1>2. \A f \in Kids(m, root) : Kids(m2, f) = Kids(m, f)
  BY DEF Kids
<1> QED
  BY <1>1, <1>2 DEF Tree, TreeOf

\* in m2 the nodes are N and the table maps what it maps in m
Extension(m, m2, N) ==
  /\ m2 \in NodeMem /\ Tree(m2, N)
  /\ \A v \in Nat : Look(m2, v) = Look(m, v)
  /\ \A g \in Frames \ N : m2[g] = m[g]

(* Two extensions in a row are an extension. *)
LEMMA ExtendTwice ==
  ASSUME NEW m, NEW m2, NEW m3, NEW N, NEW f, Extension(m, m2, N), Extension(m2, m3, N \cup {f})
  PROVE  Extension(m, m3, N \cup {f})
BY DEF Extension

\* m2 is m with the zeroed frame f linked at entry i of node p
Linked(m, m2, p, i, f) ==
  /\ m2 \in NodeMem
  /\ m2[f] = ZeroNode
  /\ \A j \in Slots : m2[p][j] = IF j = i THEN Link(f) ELSE m[p][j]
  /\ \A g \in Frames \ {f, p} : m2[g] = m[g]

(* A link to a fresh, empty node extends the walk of the pages below it. *)
LEMMA Linking ==
  ASSUME NEW m \in NodeMem, NEW p \in Frames, NEW i \in Slots, NEW f \in Frames \ {p}
  PROVE  Linked(m, [m EXCEPT ![f] = ZeroNode, ![p][i] = Link(f)], p, i, f)
BY PteTypes DEF Linked, NodeMem

(* A zeroed frame becomes the node of an empty entry of the root. *)
LEMMA LinkMid ==
  ASSUME NEW m \in NodeMem, NEW N, N \subseteq Frames, Tree(m, N), NEW f \in Frames \ N,
         NEW i \in Slots, ~ is_valid(m[root][i]),
         NEW m2, Linked(m, m2, root, i, f)
  PROVE  Extension(m, m2, N \cup {f})
<1>1. root \in N /\ root \in Frames /\ f # root
  BY DEF Tree, TreeOf
<1>2. m2 \in NodeMem
  BY DEF Linked
<1>3. m2[f] = ZeroNode /\ \A g \in Frames \ {f, root} : m2[g] = m[g]
  BY DEF Linked
<1>4. \A j \in Slots : m2[root][j] = IF j = i THEN Link(f) ELSE m[root][j]
  BY DEF Linked
<1>5. \A j \in Slots : m2[f][j] = empty
  BY <1>3 DEF ZeroNode
<1>6. Kids(m2, root) = Kids(m, root) \cup {f}
  BY <1>4, PteTypes DEF Kids
<1>7. Kids(m2, f) = {}
  BY <1>5, PteTypes, SMTT(20) DEF Kids
<1>8. Kids(m, root) \subseteq N \ {root}
  BY DEF Kids, Tree, TreeOf
<1>9. \A g \in Kids(m, root) : m2[g] = m[g] /\ Kids(m2, g) = Kids(m, g)
  BY <1>3, <1>8, SMTT(20) DEF Kids
<1>10. Tree(m2, N \cup {f})
  <2>1. root \in N \cup {f}
    BY <1>1, SMTT(20)
  <2>2. \A j \in Slots : is_valid(m2[root][j]) => m2[root][j].frame \in (N \cup {f}) \ {root}
    BY <1>1, <1>4, PteTypes, SMTT(20) DEF Tree, TreeOf
  <2>3. \A j, k \in Slots :
          is_valid(m2[root][j]) /\ is_valid(m2[root][k]) /\ m2[root][j].frame = m2[root][k].frame
          => j = k
    BY <1>4, PteTypes, SMTT(20) DEF Tree, TreeOf
  <2>4. \A g \in Kids(m2, root) : \A j \in Slots :
          is_valid(m2[g][j]) => m2[g][j].frame \in (N \cup {f}) \ ({root} \cup Kids(m2, root))
    BY <1>5, <1>6, <1>9, PteTypes, SMTT(20) DEF Tree, TreeOf
  <2>5. \A g, h \in Kids(m2, root) : \A j, k \in Slots :
          is_valid(m2[g][j]) /\ is_valid(m2[h][k]) /\ m2[g][j].frame = m2[h][k].frame
          => g = h /\ j = k
    BY <1>5, <1>6, <1>9, PteTypes, SMTT(20) DEF Tree, TreeOf
  <2>6. N \cup {f} \subseteq {root} \cup Kids(m2, root)
                             \cup UNION { Kids(m2, g) : g \in Kids(m2, root) }
    BY <1>6, <1>9 DEF Tree, TreeOf
  <2> QED  BY <2>1, <2>2, <2>3, <2>4, <2>5, <2>6 DEF Tree, TreeOf
<1>11. ASSUME NEW v \in Nat PROVE Look(m2, v) = Look(m, v)
  <2>1. CASE pte_index(v, 2) = i
    <3>1. Pte2(m2, v) = Link(f)
      BY <1>4, <2>1, IndexInNode DEF Pte2
    <3>2. ~ HasLeafNode(m2, v)
      BY <1>5, <3>1, PteTypes, IndexInNode DEF HasLeafNode, Pte1
    <3>3. ~ HasLeafNode(m, v)
      BY <2>1 DEF HasLeafNode, Pte2
    <3> QED  BY <3>2, <3>3 DEF Look
  <2>2. CASE pte_index(v, 2) # i
    <3>1. Pte2(m2, v) = Pte2(m, v)
      BY <1>4, <2>2, IndexInNode DEF Pte2
    <3>2. is_valid(Pte2(m, v)) => Pte1(m2, v) = Pte1(m, v)
      BY <1>9, <3>1, Walk DEF Pte1
    <3>3. HasLeafNode(m2, v) <=> HasLeafNode(m, v)
      BY <3>1, <3>2 DEF HasLeafNode
    <3>4. HasLeafNode(m, v) => find(m2, v) = find(m, v)
      BY <1>1, <1>3, <3>2, Walk DEF find, LeafNode, HasLeafNode
    <3> QED  BY <3>3, <3>4 DEF Look
  <2> QED  BY <2>1, <2>2
<1>12. \A g \in Frames \ (N \cup {f}) : m2[g] = m[g]
  BY <1>1, <1>3
<1> QED
  BY <1>2, <1>10, <1>11, <1>12 DEF Extension

(* A zeroed frame becomes the node of an empty entry one level down. *)
LEMMA LinkLeaf ==
  ASSUME NEW m \in NodeMem, NEW N, N \subseteq Frames, Tree(m, N), NEW f \in Frames \ N,
         NEW p \in Kids(m, root), NEW i \in Slots, ~ is_valid(m[p][i]),
         NEW m2, Linked(m, m2, p, i, f)
  PROVE  Extension(m, m2, N \cup {f})
<1>1. root \in N /\ p \in N /\ p \in Frames /\ p # root /\ f # p /\ f # root
  BY DEF Tree, TreeOf, Kids
<1>2. m2 \in NodeMem
  BY DEF Linked
<1>3. m2[f] = ZeroNode /\ \A g \in Frames \ {f, p} : m2[g] = m[g]
  BY DEF Linked
<1>4. \A j \in Slots : m2[p][j] = IF j = i THEN Link(f) ELSE m[p][j]
  BY DEF Linked
<1>5. \A j \in Slots : m2[f][j] = empty
  BY <1>3 DEF ZeroNode
<1>6. m2[root] = m[root] /\ Kids(m2, root) = Kids(m, root)
  BY <1>1, <1>3 DEF Kids
<1>7. Kids(m2, p) = Kids(m, p) \cup {f}
  BY <1>4, PteTypes, SMTT(20) DEF Kids
<1>8. Kids(m, root) \subseteq N \ {root}
  BY DEF Kids, Tree, TreeOf
<1>9. \A g \in Kids(m, root) \ {p} : m2[g] = m[g] /\ Kids(m2, g) = Kids(m, g)
  BY <1>3, <1>8, SMTT(20) DEF Kids
<1>10. Tree(m2, N \cup {f})
  <2>1. root \in N \cup {f}
    BY <1>1
  <2>2. \A j \in Slots : is_valid(m2[root][j]) => m2[root][j].frame \in (N \cup {f}) \ {root}
    BY <1>6 DEF Tree, TreeOf
  <2>3. \A j, k \in Slots :
          is_valid(m2[root][j]) /\ is_valid(m2[root][k]) /\ m2[root][j].frame = m2[root][k].frame
          => j = k
    BY <1>6 DEF Tree, TreeOf
  <2>4. \A g \in Kids(m2, root) : \A j \in Slots :
          is_valid(m2[g][j]) => m2[g][j].frame \in (N \cup {f}) \ ({root} \cup Kids(m2, root))
    BY <1>1, <1>4, <1>6, <1>8, <1>9, PteTypes, SMTT(20) DEF Tree, TreeOf
  <2>5. \A g, h \in Kids(m2, root) : \A j, k \in Slots :
          is_valid(m2[g][j]) /\ is_valid(m2[h][k]) /\ m2[g][j].frame = m2[h][k].frame
          => g = h /\ j = k
    <3>1. \A g \in Kids(m, root) : \A j \in Slots : is_valid(m2[g][j]) =>
            \/ g = p /\ j = i /\ m2[g][j].frame = f
            \/ is_valid(m[g][j]) /\ m2[g][j] = m[g][j] /\ m2[g][j].frame # f
      BY <1>1, <1>4, <1>9, PteTypes DEF Tree, TreeOf
    <3> QED  BY <1>6, <3>1, SMTT(20) DEF Tree, TreeOf
  <2>6. N \cup {f} \subseteq {root} \cup Kids(m2, root)
                             \cup UNION { Kids(m2, g) : g \in Kids(m2, root) }
    BY <1>6, <1>7, <1>9 DEF Tree, TreeOf
  <2> QED  BY <2>1, <2>2, <2>3, <2>4, <2>5, <2>6 DEF Tree, TreeOf
<1>11. ASSUME NEW v \in Nat PROVE Look(m2, v) = Look(m, v)
  <2>1. Pte2(m2, v) = Pte2(m, v)
    BY <1>6 DEF Pte2
  <2>2. CASE is_valid(Pte2(m, v)) /\ Pte2(m, v).frame = p /\ pte_index(v, 1) = i
    <3>1. Pte1(m2, v) = Link(f)
      BY <1>4, <2>1, <2>2, SMTT(20) DEF Pte1
    <3>2. find(m2, v) = empty
      BY <1>5, <3>1, PteTypes, IndexInNode, SMTT(20) DEF find, LeafNode
    <3>3. ~ HasLeafNode(m, v)
      BY <2>2 DEF HasLeafNode, Pte1
    <3> QED  BY <3>2, <3>3, PteTypes, SMTT(20) DEF Look
  <2>3. CASE ~ (is_valid(Pte2(m, v)) /\ Pte2(m, v).frame = p /\ pte_index(v, 1) = i)
    <3>1. is_valid(Pte2(m, v)) => Pte1(m2, v) = Pte1(m, v)
      BY <1>4, <1>9, <2>1, <2>3, Walk, IndexInNode, SMTT(20) DEF Pte1
    <3>2. HasLeafNode(m2, v) <=> HasLeafNode(m, v)
      BY <2>1, <3>1, SMTT(20) DEF HasLeafNode
    <3>3. HasLeafNode(m, v) => find(m2, v) = find(m, v)
      BY <1>3, <3>1, Walk, SMTT(20) DEF find, LeafNode, HasLeafNode
    <3> QED  BY <3>2, <3>3, SMTT(20) DEF Look
  <2> QED  BY <2>2, <2>3
<1>12. \A g \in Frames \ (N \cup {f}) : m2[g] = m[g]
  BY <1>1, <1>3
<1> QED
  BY <1>2, <1>10, <1>11, <1>12, SMTT(20) DEF Extension

(* Two pages have no level-0 entry in common. *)
LEMMA OneEntryPerPage ==
  ASSUME NEW m, NEW N, Tree(m, N), NEW v \in VPNs, NEW w \in VPNs,
         HasLeafNode(m, v), HasLeafNode(m, w), LeafNode(m, v) = LeafNode(m, w),
         pte_index(v, 0) = pte_index(w, 0)
  PROVE  v = w
<1>1. v \in Nat /\ w \in Nat
  BY PageTableAssumption DEF VPNs
<1>2. Pte2(m, v).frame \in Kids(m, root) /\ Pte2(m, w).frame \in Kids(m, root)
  BY <1>1, Walk, SMTT(20) DEF HasLeafNode
<1>3. Pte2(m, v).frame = Pte2(m, w).frame /\ pte_index(v, 1) = pte_index(w, 1)
  BY <1>1, <1>2, IndexInNode, SMTT(20) DEF Tree, TreeOf, HasLeafNode, LeafNode, Pte1
<1>4. pte_index(v, 2) = pte_index(w, 2)
  BY <1>1, <1>3, IndexInNode DEF Tree, TreeOf, HasLeafNode, Pte2
<1> QED
  BY <1>3, <1>4, OnePath

(* Writing a leaf entry maps its page and no other. *)
LEMMA LeafWritten ==
  ASSUME NEW m \in NodeMem, NEW N, N \subseteq Frames, Tree(m, N), NEW v \in VPNs,
         HasLeafNode(m, v), NEW pte \in Ptes, is_valid(pte),
         NEW m2, m2 = SetLeaf(m, v, pte)
  PROVE  /\ m2 \in NodeMem /\ Tree(m2, N)
         /\ Look(m2, v) = pte
         /\ \A w \in VPNs \ {v} : Look(m2, w) = Look(m, w)
         /\ \A g \in Frames \ N : m2[g] = m[g]
<1> DEFINE leaf == LeafNode(m, v)
<1>1. v \in Nat /\ \A w \in VPNs : w \in Nat
  BY PageTableAssumption, SMTT(20) DEF VPNs
<1>2. leaf \in N \ ({root} \cup Kids(m, root)) /\ leaf \in Frames /\ root \in Frames
  BY <1>1, Walk DEF Tree, TreeOf
<1>3. m2 \in NodeMem
  BY <1>1, <1>2, IndexInNode DEF NodeMem, SetLeaf
<1>4. /\ \A g \in Frames \ {leaf} : m2[g] = m[g]
      /\ \A i \in Slots : m2[leaf][i] = IF i = pte_index(v, 0) THEN pte ELSE m[leaf][i]
  BY <1>1, <1>2, IndexInNode, SMTT(20) DEF NodeMem, SetLeaf
<1> HIDE DEF leaf
<1>5. Kids(m, root) \subseteq N
  BY SMTT(20) DEF Tree, TreeOf, Kids
<1>6. m2[root] = m[root] /\ \A f \in Kids(m, root) : m2[f] = m[f]
  BY <1>2, <1>4, <1>5
<1>7. Tree(m2, N)
  BY <1>6, SameTree
<1>8. ASSUME NEW w \in VPNs
      PROVE  /\ HasLeafNode(m2, w) <=> HasLeafNode(m, w)
             /\ HasLeafNode(m, w) => LeafNode(m2, w) = LeafNode(m, w)
  <2>1. Pte2(m2, w) = Pte2(m, w)
    BY <1>6, SMTT(20) DEF Pte2
  <2>2. is_valid(Pte2(m, w)) => Pte1(m2, w) = Pte1(m, w)
    BY <1>1, <1>6, <2>1, Walk, SMTT(20) DEF Pte1
  <2> QED  BY <2>1, <2>2 DEF HasLeafNode, LeafNode
<1>9. Look(m2, v) = pte
  BY <1>1, <1>4, <1>8, IndexInNode DEF Look, find, leaf
<1>10. ASSUME NEW w \in VPNs \ {v} PROVE Look(m2, w) = Look(m, w)
  <2>1. CASE HasLeafNode(m, w)
    <3>1. LeafNode(m, w) # leaf \/ pte_index(w, 0) # pte_index(v, 0)
      BY <2>1, OneEntryPerPage DEF leaf
    <3>2. LeafNode(m, w) \in Frames /\ pte_index(w, 0) \in Slots
      BY <1>1, <2>1, Walk, IndexInNode, SMTT(20)
    <3>3. find(m2, w) = find(m, w)
      BY <1>4, <1>8, <2>1, <3>1, <3>2 DEF find
    <3> QED  BY <1>8, <2>1, <3>3 DEF Look
  <2>2. CASE ~ HasLeafNode(m, w)
    BY <1>8, <2>2 DEF Look
  <2> QED  BY <2>1, <2>2
<1>11. \A g \in Frames \ N : m2[g] = m[g]
  BY <1>2, <1>4
<1> QED
  BY <1>3, <1>7, <1>9, <1>10, <1>11

-----------------------------------------------------------------------------
(* The actions *)

\* fs are different free frames
Fresh(fs) ==
  /\ fs \in Seq(free)
  /\ \A i, j \in DOMAIN fs : fs[i] = fs[j] => i = j

(* Sequences of no, one and two frames. *)
LEMMA ShortSequences ==
  /\ \A x : Range(<< x >>) = {x}
  /\ \A x, y : Range(<< x, y >>) = {x, y}
  /\ Range(<< >>) = {}
BY DEF Range

(* The frames find_allocate takes are free frames, all different. *)
LEMMA FreshFrames ==
  /\ Fresh(<< >>)
  /\ \A f \in free : Fresh(<< f >>)
  /\ \A f, g \in free : f # g => Fresh(<< f, g >>)
BY DEF Fresh

(* find_allocate, with enough frames or not. *)
LEMMA NodesAdded ==
  ASSUME TableInv, Live, NEW v \in Nat,
         NEW fs, fs = NewNodes(v), NEW m, m = WithNodes(v, fs)
  PROVE  /\ Fresh(fs) /\ Extension(mem, m, Nodes \cup Range(fs))
         /\ Len(fs) = MissingNodes(v) \/ Len(fs) < MissingNodes(v)
         /\ Len(fs) = MissingNodes(v) => HasLeafNode(m, v)
<1> DEFINE f1 == Min(free)   f2 == Min(free \ {f1})
           i1 == pte_index(v, 1)   i2 == pte_index(v, 2)
<1>1. /\ mem \in NodeMem /\ Tree(mem, Nodes) /\ Nodes \subseteq Frames
      /\ free \subseteq Frames /\ free \cap Nodes = {} /\ free \subseteq Nat
  BY PageTableAssumption DEF TableInv, TypeOK, Tracked, Live, NodeMem
<1>2. free # {} => f1 \in free /\ f1 \in Frames \ Nodes
  BY <1>1, MinFree, Zenon
<1>3. free \ {f1} # {} => f2 \in free /\ f2 \in Frames \ Nodes /\ f2 # f1
  <2>1. free \ {f1} # {} => f2 \in free \ {f1}
    BY <1>1, MinFree, Zenon
  <2> QED  BY <1>1, <2>1, Zenon
<1>4. root \in Nodes /\ root \in Frames
  BY <1>1 DEF Tree, TreeOf
<1>5. i1 \in Slots /\ i2 \in Slots
  BY IndexInNode
<1>6. MissingNodes(v) \in {0, 1, 2}
  BY DEF MissingNodes
<1>7. fs = IF MissingNodes(v) = 0 \/ free = {} THEN << >>
           ELSE IF MissingNodes(v) = 1 \/ free = {f1} THEN << f1 >>
           ELSE << f1, f2 >>
  BY DEF NewNodes
<1>8. /\ Range(<< >>) = {} /\ Range(<< f1 >>) = {f1} /\ Range(<< f1, f2 >>) = {f1, f2}
      /\ Len(<< >>) = 0 /\ Len(<< f1 >>) = 1 /\ Len(<< f1, f2 >>) = 2
  BY ShortSequences, Zenon
<1> HIDE DEF f1, f2, i1, i2
<1>9. CASE MissingNodes(v) = 0 \/ free = {}
  <2>1. fs = << >> /\ m = mem
    BY <1>7, <1>9 DEF WithNodes
  <2>2. MissingNodes(v) = 0 => HasLeafNode(mem, v)
    BY DEF MissingNodes, HasLeafNode
  <2>3. Nodes \cup Range(fs) = Nodes
    BY <1>8, <2>1
  <2>4. Extension(mem, m, Nodes \cup Range(fs))
    BY <1>1, <2>1, <2>3, Zenon DEF Extension
  <2> QED  BY <1>6, <1>8, <2>1, <2>2, <2>4, FreshFrames, SMTT(20)
<1>10. CASE MissingNodes(v) = 1 /\ free # {}
  <2> DEFINE p == Pte2(mem, v).frame
  <2>1. fs = << f1 >>
    BY <1>7, <1>10
  <2>2. m = [mem EXCEPT ![f1] = ZeroNode, ![p][i1] = Link(f1)]
    BY <1>8, <1>10, <2>1 DEF WithNodes, i1
  <2>3. is_valid(Pte2(mem, v)) /\ ~ is_valid(Pte1(mem, v))
    BY <1>10, SMTT(20) DEF MissingNodes
  <2>4. p \in Kids(mem, root) /\ ~ is_valid(mem[p][i1])
    BY <1>1, <2>3, Walk, SMTT(20) DEF Pte1, i1
  <2>5. p \in Nodes /\ p # root /\ p # f1 /\ p \in Frames
    <3>1. Kids(mem, root) \subseteq Nodes \ {root}
      BY <1>1 DEF Tree, TreeOf, Kids
    <3> QED  BY <1>1, <1>2, <1>10, <2>4, <3>1, ZenonT(40)
  <2> HIDE DEF p
  <2>6. Linked(mem, m, p, i1, f1)
    <3>1. Linked(mem, [mem EXCEPT ![f1] = ZeroNode, ![p][i1] = Link(f1)], p, i1, f1)
      BY <1>1, <1>2, <1>5, <1>10, <2>5, Linking
    <3> QED  BY <2>2, <3>1
  <2>7. Extension(mem, m, Nodes \cup {f1})
    BY <1>1, <1>2, <1>5, <1>10, <2>4, <2>6, LinkLeaf, Zenon
  <2>8. m[root] = mem[root] /\ m[p][i1] = Link(f1)
    BY <1>2, <1>4, <1>5, <1>10, <2>5, <2>6, SMTT(20) DEF Linked
  <2>9. HasLeafNode(m, v)
    BY <1>2, <1>10, <2>3, <2>8, PteTypes DEF HasLeafNode, Pte2, Pte1, p, i1
  <2> QED  BY <1>2, <1>8, <1>10, <2>1, <2>7, <2>9, FreshFrames, Zenon
<1>11. CASE MissingNodes(v) = 2 /\ free # {}
  <2> DEFINE n == [mem EXCEPT ![f1] = ZeroNode, ![root][i2] = Link(f1)]
  <2>1. ~ is_valid(mem[root][i2])
    BY <1>11 DEF MissingNodes, Pte2, i2
  <2>2. f1 \in free /\ f1 \in Frames \ Nodes /\ f1 # root
    BY <1>2, <1>4, <1>11
  <2>3. Linked(mem, n, root, i2, f1)
    BY <1>1, <1>4, <1>5, <2>2, Linking, SMTT(20)
  <2> HIDE DEF n
  <2>4. Extension(mem, n, Nodes \cup {f1})
    BY <1>1, <1>5, <2>1, <2>2, <2>3, LinkMid, Zenon
  <2>5. CASE free = {f1}
    <3>1. fs = << f1 >>
      BY <1>7, <1>11, <2>5
    <3>2. m = n
      BY <1>8, <1>11, <3>1 DEF WithNodes, n, i2
    <3>3. Extension(mem, m, Nodes \cup Range(fs))
      BY <1>8, <2>4, <3>1, <3>2, Zenon
    <3> QED  BY <1>8, <1>11, <2>2, <3>1, <3>3, FreshFrames
  <2>6. CASE free # {f1}
    <3> DEFINE n2 == [n EXCEPT ![f2] = ZeroNode, ![f1][i1] = Link(f2)]
    <3>1. fs = << f1, f2 >>
      BY <1>7, <1>11, <2>6
    <3>2. m = [mem EXCEPT ![f1] = [ZeroNode EXCEPT ![i1] = Link(f2)],
                          ![f2] = ZeroNode,
                          ![root][i2] = Link(f1)]
      BY <1>8, <1>11, <3>1 DEF WithNodes, i1, i2
    <3>3. f2 \in free /\ f2 \in Frames \ (Nodes \cup {f1}) /\ f2 # f1 /\ f2 # root
      BY <1>3, <1>4, <1>11, <2>2, <2>6, SMTT(20)
    <3>4. n[f1] = ZeroNode /\ n[root][i2] = Link(f1) /\ n \in NodeMem
      BY <1>4, <1>5, <2>2, <2>3 DEF Linked
    <3>5. m = n2
      BY <1>1, <1>4, <1>5, <2>2, <3>2, <3>3, ZenonT(40) DEF NodeMem, n
    <3>6. Linked(n, n2, f1, i1, f2)
      BY <1>5, <2>2, <3>3, <3>4, Linking, SMTT(20)
    <3> HIDE DEF n2
    <3>7. n2[root] = n[root] /\ n2[f1][i1] = Link(f2)
      BY <1>4, <1>5, <2>2, <3>3, <3>6, SMTT(20) DEF Linked
    <3>8. f1 \in Kids(n, root)
      BY <1>5, <2>2, <3>4, PteTypes, SMTT(20) DEF Kids
    <3>9. ~ is_valid(n[f1][i1])
      BY <1>5, <3>4, PteTypes DEF ZeroNode
    <3>10. Tree(n, Nodes \cup {f1}) /\ Nodes \cup {f1} \subseteq Frames
      BY <1>1, <2>2, <2>4, SMTT(20) DEF Extension
    <3>11. Extension(n, n2, (Nodes \cup {f1}) \cup {f2})
      BY <1>5, <3>3, <3>4, <3>6, <3>8, <3>9, <3>10, LinkLeaf, SMTT(20)
    <3>12. Extension(mem, m, (Nodes \cup {f1}) \cup {f2})
      BY <2>4, <3>5, <3>11, ExtendTwice, ZenonT(40)
    <3>13. Nodes \cup Range(fs) = (Nodes \cup {f1}) \cup {f2}
      BY <1>8, <3>1
    <3>14. HasLeafNode(m, v)
      BY <2>2, <3>3, <3>4, <3>5, <3>7, PteTypes DEF HasLeafNode, Pte2, Pte1, i1, i2
    <3> QED  BY <1>8, <1>11, <2>2, <3>1, <3>3, <3>12, <3>13, <3>14, FreshFrames, ZenonT(40)
  <2> QED  BY <2>5, <2>6
<1> QED
  BY <1>6, <1>9, <1>10, <1>11

\* what every step owes: FramesConserved and WritesOwnNodes for this step
Sound ==
  /\ TableInv'
  /\ free' \cup Nodes' = free \cup Nodes
  /\ \A f \in Frames \ (Nodes \cup Nodes') : mem'[f] = mem[f]

\* page v gets an entry, and no other page changes
Maps(v) ==
  /\ Lookup(v) = Unmapped /\ Lookup(v)' \in Ptes
  /\ \A w \in VPNs \ {v} : Lookup(w)' = Lookup(w)
  /\ UNCHANGED panicked

Halts == panicked' = TRUE /\ \A w \in VPNs : Lookup(w)' = Lookup(w)

(* The tree after a step that leaves the root where it is. *)
LEMMA TreePrimed ==
  ASSUME UNCHANGED root, Tree(mem', Nodes')
  PROVE  Tree(mem, Nodes)'
BY Zenon DEF Tree

(* A panic changes nothing. *)
LEMMA PanicStep ==
  ASSUME TableInv, panic
  PROVE  Sound /\ Halts
<1> USE DEF panic
<1>1. TypeOK' /\ Tracked' /\ Nodes' = Nodes
  BY DEF TableInv, TypeOK, Tracked, Nodes
<1>2. root # NoFrame => Tree(mem, Nodes)'
  <2>1. mem' = mem /\ UNCHANGED root
    BY DEF panic
  <2>2. root # NoFrame => Tree(mem', Nodes')
    BY <1>1, <2>1, Zenon DEF TableInv
  <2> QED  BY <2>1, <2>2, TreePrimed, Zenon
<1>3. \A w \in VPNs : Lookup(w)' = Lookup(w)
  BY DEF Lookup, HasLeafNode, find, LeafNode, Pte1, Pte2
<1> QED
  BY <1>1, <1>2, <1>3 DEF Sound, TableInv, Halts

(* The nodes after node_frames is extended. *)
LEMMA Appended ==
  ASSUME NEW s \in Seq(Frames), NEW t \in Seq(Frames)
  PROVE  s \o t \in Seq(Frames) /\ Range(s \o t) = Range(s) \cup Range(t)
<1>1. s \o t \in Seq(Frames) /\ Len(s \o t) = Len(s) + Len(t)
  OBVIOUS
<1>2. \A i \in 1 .. Len(s) : (s \o t)[i] = s[i]
  OBVIOUS
<1>3. \A i \in 1 .. Len(t) : (s \o t)[Len(s) + i] = t[i]
  OBVIOUS
<1>4. ASSUME NEW i \in 1 .. Len(s) + Len(t)
      PROVE  i \in 1 .. Len(s) \/ i - Len(s) \in 1 .. Len(t)
  OBVIOUS
<1>5. Range(s \o t) \subseteq Range(s) \cup Range(t)
  BY <1>1, <1>2, <1>3, <1>4, SMTT(20) DEF Range
<1>6. Range(s) \subseteq Range(s \o t)
  BY <1>1, <1>2 DEF Range
<1>7. Range(t) \subseteq Range(s \o t)
  <2>1. ASSUME NEW i \in 1 .. Len(t) PROVE t[i] \in Range(s \o t)
    <3>1. Len(s) + i \in DOMAIN (s \o t)
      BY <1>1
    <3> QED  BY <1>3, <3>1, SMTT(20) DEF Range
  <2> QED  BY <2>1, SMTT(20) DEF Range
<1> QED
  BY <1>1, <1>5, <1>6, <1>7

(* Appending fresh frames keeps node_frames free of repetitions. *)
LEMMA NoRepetition ==
  ASSUME NEW s \in Seq(Frames), NEW t \in Seq(Frames), Range(s) \cap Range(t) = {},
         \A i, j \in DOMAIN s : s[i] = s[j] => i = j,
         \A i, j \in DOMAIN t : t[i] = t[j] => i = j
  PROVE  \A i, j \in DOMAIN (s \o t) : (s \o t)[i] = (s \o t)[j] => i = j
<1>1. DOMAIN (s \o t) = 1 .. Len(s) + Len(t) /\ DOMAIN s = 1 .. Len(s) /\ DOMAIN t = 1 .. Len(t)
  BY SMTT(20)
<1>2. ASSUME NEW i \in 1 .. Len(s) + Len(t)
      PROVE  \/ i \in DOMAIN s /\ (s \o t)[i] = s[i] /\ (s \o t)[i] \in Range(s)
             \/ /\ i - Len(s) \in DOMAIN t /\ (s \o t)[i] = t[i - Len(s)]
                /\ (s \o t)[i] \in Range(t)
  BY <1>1, SMTT(20) DEF Range
<1>3. ASSUME NEW i \in 1 .. Len(s) + Len(t), NEW j \in 1 .. Len(s) + Len(t),
             (s \o t)[i] = (s \o t)[j]
      PROVE  i = j
  <2>1. CASE (s \o t)[i] \in Range(s)
    BY <1>2, <1>3, <2>1
  <2>2. CASE (s \o t)[i] \in Range(t)
    <3>1. /\ i - Len(s) \in DOMAIN t /\ (s \o t)[i] = t[i - Len(s)]
          /\ j - Len(s) \in DOMAIN t /\ (s \o t)[j] = t[j - Len(s)]
      BY <1>2, <1>3, <2>2, SMTT(20)
    <3>2. i - Len(s) = j - Len(s)
      BY <1>3, <3>1, Zenon
    <3> QED  BY <3>2, SMTT(20)
  <2> QED  BY <1>2, <2>1, <2>2, SMTT(20)
<1> QED
  BY <1>1, <1>3, SMTT(20)

(* node_frames after find_allocate. *)
LEMMA StillTracked ==
  ASSUME TableInv, NEW fs, Fresh(fs), node_frames' = node_frames \o fs,
         free' = free \ Range(fs), UNCHANGED root, root # NoFrame
  PROVE  /\ node_frames' \in Seq(Frames) /\ free' \subseteq HeapFrames /\ Tracked'
         /\ Nodes' = Nodes \cup Range(fs) /\ Range(fs) \subseteq free
<1>1. node_frames \in Seq(Frames) /\ free \subseteq HeapFrames /\ HeapFrames \subseteq Frames
  BY PageTableAssumption DEF TableInv, TypeOK
<1>2. fs \in Seq(free) /\ fs \in Seq(Frames) /\ Range(fs) \subseteq free
  BY <1>1 DEF Fresh, Range
<1>3. node_frames' \in Seq(Frames) /\ Nodes' = Nodes \cup Range(fs)
  BY <1>1, <1>2, Appended DEF Nodes
<1>4. Range(node_frames) \cap Range(fs) = {}
  BY <1>2 DEF TableInv, Tracked, Nodes
<1>5. \A i, j \in DOMAIN node_frames' : node_frames'[i] = node_frames'[j] => i = j
  BY <1>1, <1>2, <1>4, NoRepetition, Zenon DEF TableInv, Tracked, Fresh
<1>6. Nodes' \subseteq HeapFrames \ free'
  BY <1>1, <1>2, <1>3 DEF TableInv, Tracked
<1> QED
  BY <1>1, <1>2, <1>3, <1>5, <1>6 DEF Tracked

(* The mapping, as long as there is a table. *)
LEMMA LookupIsLook ==
  ASSUME NEW v
  PROVE  /\ root # NoFrame => Lookup(v) = Look(mem, v)
         /\ root' = root /\ root # NoFrame => Lookup(v)' = Look(mem', v)
BY Zenon DEF Lookup, Look, HasLeafNode, find, LeafNode, Pte1, Pte2

(* map_one_allocate maps one page, or panics with nothing mapped. *)
LEMMA map_one_allocateStep ==
  ASSUME TableInv, NEW v \in Pages, NEW flags \in Flags, NEW frame \in Targets(v),
         map_one_allocate(v, frame, flags)
  PROVE  Sound /\ (Maps(v) \/ Halts)
<1> DEFINE fs == NewNodes(v)   m == WithNodes(v, fs)   pte == Entry(frame, flags \cup {"V"})
<1>1. v \in VPNs /\ v \in Nat /\ root # NoFrame /\ ~ panicked /\ Live
  BY PageTableAssumption DEF map_one_allocate, Live
<1>2. /\ Fresh(fs) /\ Extension(mem, m, Nodes \cup Range(fs))
      /\ Len(fs) = MissingNodes(v) => HasLeafNode(m, v)
  BY <1>1, NodesAdded, SMTT(20)
<1>3. pte \in Ptes /\ is_valid(pte)
  <2>1. frame \in Frames /\ flags \cup {"V"} \in SUBSET AllFlags
    BY PageTableAssumption DEF Targets, AllFlags
  <2> QED  BY <2>1, PteTypes
<1>4. /\ node_frames' = node_frames \o fs /\ free' = free \ Range(fs) /\ UNCHANGED root
      /\ \/ /\ Len(fs) = MissingNodes(v) /\ ~ is_valid(find(m, v))
            /\ mem' = SetLeaf(m, v, pte) /\ UNCHANGED panicked
         \/ mem' = m /\ panicked' = TRUE
  BY DEF map_one_allocate
<1> HIDE DEF fs, m, pte
<1>5. /\ node_frames' \in Seq(Frames) /\ free' \subseteq HeapFrames /\ Tracked'
      /\ Nodes' = Nodes \cup Range(fs) /\ Range(fs) \subseteq free
  BY <1>1, <1>2, <1>4, StillTracked, SMTT(20)
<1>6. free' \cup Nodes' = free \cup Nodes
  BY <1>4, <1>5
<1>7. Nodes' \subseteq Frames
  BY <1>5, PageTableAssumption, ZenonT(40) DEF Tracked
<1>8. m \in NodeMem /\ Tree(m, Nodes') /\ \A g \in Frames \ Nodes' : m[g] = mem[g]
  BY <1>2, <1>5 DEF Extension
<1>9. \A w \in VPNs : w \in Nat /\ Look(m, w) = Lookup(w)
  BY <1>1, <1>2, PageTableAssumption, LookupIsLook, SMTT(20) DEF Extension, VPNs
<1>10. ASSUME mem' \in NodeMem, Tree(mem', Nodes'), \A g \in Frames \ Nodes' : mem'[g] = m[g],
              panicked' \in BOOLEAN
       PROVE  Sound
  <2>1. TypeOK'
    BY <1>4, <1>5, <1>10, SMTT(20) DEF TableInv, TypeOK, NodeMem
  <2>2. Tree(mem, Nodes)'
    BY <1>4, <1>10, TreePrimed, SMTT(20)
  <2> QED  BY <1>5, <1>6, <1>8, <1>10, <2>1, <2>2, SMTT(20) DEF Sound, TableInv
<1>11. CASE mem' = m /\ panicked' = TRUE
  <2>1. Halts
    BY <1>1, <1>4, <1>9, <1>11, LookupIsLook, SMTT(20) DEF Halts
  <2> QED  BY <1>8, <1>10, <1>11, <2>1, SMTT(20)
<1>12. CASE /\ Len(fs) = MissingNodes(v) /\ ~ is_valid(find(m, v))
            /\ mem' = SetLeaf(m, v, pte) /\ UNCHANGED panicked
  <2>1. /\ mem' \in NodeMem /\ Tree(mem', Nodes')
        /\ Look(mem', v) = pte
        /\ \A w \in VPNs \ {v} : Look(mem', w) = Look(m, w)
        /\ \A g \in Frames \ Nodes' : mem'[g] = m[g]
    BY <1>1, <1>2, <1>3, <1>7, <1>8, <1>12, LeafWritten, SMTT(20)
  <2>2. Look(m, v) = Unmapped
    BY <1>12, SMTT(20) DEF Look
  <2>3. Maps(v)
    BY <1>1, <1>3, <1>4, <1>9, <1>12, <2>1, <2>2, LookupIsLook, SMTT(20) DEF Maps
  <2>4. panicked' \in BOOLEAN
    BY <1>12, SMTT(20) DEF TableInv, TypeOK
  <2> QED  BY <1>10, <2>1, <2>3, <2>4, SMTT(20)
<1> QED
  BY <1>4, <1>11, <1>12, Zenon

(* map_one maps one page of a node that is there, or panics. *)
LEMMA map_oneStep ==
  ASSUME TableInv, NEW v \in Pages, NEW flags \in Flags, NEW frame \in Targets(v),
         map_one(v, frame, flags)
  PROVE  Sound /\ (Maps(v) \/ Halts)
<1> DEFINE pte == Entry(frame, flags \cup {"V"})
<1>1. CASE panic
  BY <1>1, PanicStep
<1>2. CASE /\ ~ is_valid(find(mem, v))
           /\ mem' = SetLeaf(mem, v, pte)
           /\ UNCHANGED << root, node_frames, free, panicked >>
  <2>1. v \in VPNs /\ root # NoFrame /\ HasLeafNode(mem, v)
    BY PageTableAssumption, SMTT(20) DEF map_one, Live
  <2>2. pte \in Ptes /\ is_valid(pte)
    <3>1. frame \in Frames /\ flags \cup {"V"} \in SUBSET AllFlags
      BY PageTableAssumption DEF Targets, AllFlags
    <3> QED  BY <3>1, PteTypes
  <2> HIDE DEF pte
  <2>3. mem \in NodeMem /\ Tree(mem, Nodes) /\ Nodes \subseteq Frames
    BY <2>1, PageTableAssumption, SMTT(20) DEF TableInv, TypeOK, Tracked, NodeMem
  <2>4. /\ mem' \in NodeMem /\ Tree(mem', Nodes)
        /\ Look(mem', v) = pte
        /\ \A w \in VPNs \ {v} : Look(mem', w) = Look(mem, w)
        /\ \A g \in Frames \ Nodes : mem'[g] = mem[g]
    BY <1>2, <2>1, <2>2, <2>3, LeafWritten, SMTT(20)
  <2>5. Nodes' = Nodes /\ Tracked'
    BY <1>2, SMTT(20) DEF TableInv, Tracked, Nodes
  <2>6. TypeOK'
    BY <1>2, <2>4, SMTT(20) DEF TableInv, TypeOK, NodeMem
  <2>7. Tree(mem, Nodes)'
    BY <1>2, <2>4, <2>5, TreePrimed, SMTT(20)
  <2>8. Sound
    BY <1>2, <2>4, <2>5, <2>6, <2>7, SMTT(20) DEF Sound, TableInv
  <2>9. Look(mem, v) = Unmapped
    BY <1>2, SMTT(20) DEF Look
  <2>10. Maps(v)
    BY <1>2, <2>1, <2>2, <2>4, <2>9, LookupIsLook, SMTT(20) DEF Maps
  <2> QED  BY <2>8, <2>10, SMTT(20)
<1> QED
  BY <1>1, <1>2 DEF map_one

(* PageTableGuard::allocate makes an empty table, or panics. *)
LEMMA allocateStep ==
  ASSUME TableInv, allocate
  PROVE  Sound /\ (Halts \/ (UNCHANGED panicked /\ \A w \in VPNs : Lookup(w)' = Lookup(w)))
<1> DEFINE f == Min(free)
<1>1. CASE panic
  BY <1>1, PanicStep
<1>2. CASE /\ free # {} /\ root' = f /\ node_frames' = << f >>
           /\ mem' = [mem EXCEPT ![f] = ZeroNode] /\ free' = free \ {f} /\ UNCHANGED panicked
  <2>1. /\ root = NoFrame /\ node_frames = << >> /\ mem \in NodeMem
        /\ free \subseteq HeapFrames /\ HeapFrames \subseteq Frames /\ free \subseteq Nat
    BY PageTableAssumption DEF allocate, TableInv, TypeOK, Tracked, NodeMem
  <2>2. f \in free /\ f \in Frames /\ f # NoFrame
    BY <1>2, <2>1, MinFree, PageTableAssumption, ZenonT(40)
  <2> HIDE DEF f
  <2>3. /\ mem' \in NodeMem /\ mem'[f] = ZeroNode
        /\ \A g \in Frames \ {f} : mem'[g] = mem[g]
    BY <1>2, <2>1, <2>2, PteTypes DEF NodeMem
  <2>4. Nodes = {} /\ Nodes' = {f}
    BY <1>2, <2>1, ShortSequences DEF Nodes
  <2>5. \A i \in Slots : ~ is_valid(mem'[f][i])
    BY <2>3, PteTypes, SMTT(20) DEF ZeroNode
  <2>6. Tree(mem, Nodes)'
    BY <1>2, <2>4, <2>5 DEF Tree, TreeOf, Kids
  <2>7. TypeOK' /\ Tracked'
    BY <1>2, <2>1, <2>2, <2>3, <2>4 DEF TableInv, TypeOK, Tracked, NodeMem
  <2>8. Sound
    BY <1>2, <2>2, <2>3, <2>4, <2>6, <2>7, SMTT(20) DEF Sound, TableInv
  <2>9. ASSUME NEW w \in VPNs PROVE Lookup(w)' = Lookup(w)
    <3>1. w \in Nat
      BY PageTableAssumption DEF VPNs
    <3>2. ~ HasLeafNode(mem, w)'
      BY <1>2, <2>5, <3>1, IndexInNode, SMTT(20) DEF HasLeafNode, Pte2
    <3> QED  BY <2>1, <3>2 DEF Lookup
  <2> QED  BY <1>2, <2>8, <2>9, SMTT(20)
<1> QED
  BY <1>1, <1>2 DEF allocate

(* Dropping the guard discards the mapping. *)
LEMMA dropStep ==
  ASSUME TableInv, drop
  PROVE  Sound /\ UNCHANGED panicked /\ \A w \in VPNs : Lookup(w)' = Unmapped
<1>1. Nodes' = {}
  BY ShortSequences, SMTT(20) DEF drop, Nodes
<1>2. TypeOK' /\ Tracked'
  BY <1>1, PageTableAssumption, SMTT(20) DEF drop, TableInv, TypeOK, Tracked, Nodes
<1> QED
  BY <1>1, <1>2 DEF drop, Sound, TableInv, Nodes, Lookup

\* the entry that lock_table or unlock_table leaves for pte
WithW(pte, writable) ==
  [pte EXCEPT !.flags = IF writable THEN @ \cup {"W"} ELSE @ \ {"W"}]

(* Changing W leaves an entry an entry, and valid if it was. *)
LEMMA WithWType ==
  ASSUME NEW pte \in Ptes, NEW writable
  PROVE  /\ WithW(pte, writable) \in Ptes
         /\ is_valid(WithW(pte, writable)) <=> is_valid(pte)
         /\ ~ writable => "W" \notin WithW(pte, writable).flags
BY DEF WithW, Ptes, AllFlags, is_valid

(* lock_table and unlock_table change the entries of the table's own pages *)
(* and no others: those are level-0 entries, and each belongs to one page. *)
LEMMA ReflaggedNodes ==
  ASSUME TableInv, root # NoFrame, AllNodesFound, NEW writable, mem' = Reflagged(writable),
         UNCHANGED << root, node_frames, free, panicked >>
  PROVE  /\ Sound
         /\ \A w \in VPNs :
              /\ HasLeafNode(mem', w) <=> HasLeafNode(mem, w)
              /\ HasLeafNode(mem, w) =>
                   find(mem', w) = IF w \in Nodes THEN WithW(find(mem, w), writable)
                                                  ELSE find(mem, w)
<1> DEFINE Hit(f, i) == \E n \in Range(node_frames) : LeafNode(mem, n) = f /\ pte_index(n, 0) = i
<1>1. mem \in NodeMem /\ Tree(mem, Nodes) /\ Nodes \subseteq Frames /\ root \in Frames
  BY PageTableAssumption, Zenon DEF TableInv, TypeOK, Tracked, NodeMem, Tree, TreeOf
<1>2. Nodes \subseteq VPNs /\ VPNs \subseteq Nat
  BY PageTableAssumption DEF TableInv, Tracked, VPNs
<1>3. \A f \in Frames, i \in Slots :
        mem'[f][i] = IF Hit(f, i) THEN WithW(mem[f][i], writable) ELSE mem[f][i]
  BY DEF Reflagged, WithW
<1>4. mem' = [f \in Frames |-> [i \in Slots |-> mem'[f][i]]]
  BY DEF Reflagged
<1>5. mem' \in NodeMem
  <2>1. \A f \in Frames, i \in Slots : mem'[f][i] \in Ptes
    BY <1>1, <1>3, WithWType, SMTT(20) DEF NodeMem
  <2> QED  BY <1>4, <2>1, SMTT(20) DEF NodeMem
<1>6. \A f, i : Hit(f, i) => f \in Nodes \ ({root} \cup Kids(mem, root))
  BY <1>1, <1>2, Walk, Zenon DEF AllNodesFound, Nodes
<1>7. ASSUME NEW f \in Frames, \A i : ~ Hit(f, i) PROVE mem'[f] = mem[f]
  <2>1. \A i \in Slots : mem'[f][i] = mem[f][i]
    BY <1>3, <1>7
  <2> HIDE DEF Hit
  <2>2. mem'[f] \in [Slots -> Ptes] /\ mem[f] \in [Slots -> Ptes]
    BY <1>1, <1>5, SMTT(20) DEF NodeMem
  <2> QED  BY <2>1, <2>2, SMTT(20)
<1> HIDE DEF Hit
<1>8. mem'[root] = mem[root]
  BY <1>1, <1>6, <1>7, SMTT(20)
<1>9. \A f \in Kids(mem, root) : mem'[f] = mem[f]
  <2>1. Kids(mem, root) \subseteq Frames
    BY <1>1, SMTT(20) DEF Tree, TreeOf, Kids
  <2> QED  BY <1>6, <1>7, <2>1, SMTT(20)
<1>10. \A f \in Frames \ Nodes : mem'[f] = mem[f]
  BY <1>6, <1>7
<1>11. Nodes' = Nodes /\ Tracked'
  BY DEF TableInv, Tracked, Nodes
<1>12. Tree(mem, Nodes)'
  BY <1>1, <1>8, <1>9, <1>11, SameTree, TreePrimed, SMTT(20)
<1>13. Sound
  BY <1>5, <1>10, <1>11, <1>12, SMTT(20) DEF Sound, TableInv, TypeOK, NodeMem
<1>14. ASSUME NEW w \in VPNs
       PROVE  /\ HasLeafNode(mem', w) <=> HasLeafNode(mem, w)
              /\ HasLeafNode(mem, w) =>
                   find(mem', w) = IF w \in Nodes THEN WithW(find(mem, w), writable)
                                                  ELSE find(mem, w)
  <2>1. Pte2(mem', w) = Pte2(mem, w)
    BY <1>8 DEF Pte2
  <2>2. is_valid(Pte2(mem, w)) => Pte1(mem', w) = Pte1(mem, w)
    BY <1>1, <1>2, <1>9, <2>1, Walk, SMTT(20) DEF Pte1
  <2>3. HasLeafNode(mem', w) <=> HasLeafNode(mem, w)
    BY <2>1, <2>2, SMTT(20) DEF HasLeafNode
  <2>4. ASSUME HasLeafNode(mem, w)
        PROVE  find(mem', w) = IF w \in Nodes THEN WithW(find(mem, w), writable)
                                              ELSE find(mem, w)
    <3>1. LeafNode(mem', w) = LeafNode(mem, w) /\ LeafNode(mem, w) \in Frames
      BY <1>1, <1>2, <2>2, <2>4, Walk, Zenon DEF HasLeafNode, LeafNode
    <3>2. pte_index(w, 0) \in Slots
      BY <1>2, IndexInNode
    <3>3. Hit(LeafNode(mem, w), pte_index(w, 0)) <=> w \in Nodes
      BY <1>1, <1>2, <2>4, OneEntryPerPage, Zenon DEF Hit, AllNodesFound, Nodes
    <3> QED  BY <1>3, <3>1, <3>2, <3>3, SMTT(20) DEF find
  <2> QED  BY <2>3, <2>4, SMTT(20)
<1> QED
  BY <1>13, <1>14

(* lock_table and unlock_table, with the panic if a node has no leaf node. *)
LEMMA ReflagStep ==
  ASSUME TableInv, NEW writable, Reflag(writable)
  PROVE  /\ Sound
         /\ \/ Halts
            \/ /\ UNCHANGED panicked
               /\ \A w \in VPNs :
                    \/ Lookup(w)' = Lookup(w)
                    \/ /\ Lookup(w) # Unmapped
                       /\ Lookup(w)' = WithW(Lookup(w), writable)
<1>1. CASE panic
  BY <1>1, PanicStep
<1>2. CASE ~ panic
  <2>1. /\ root # NoFrame /\ AllNodesFound /\ mem' = Reflagged(writable)
        /\ UNCHANGED << root, node_frames, free, panicked >>
    BY <1>2, SMTT(20) DEF Reflag, Live
  <2>2. /\ Sound
        /\ \A w \in VPNs :
             /\ HasLeafNode(mem', w) <=> HasLeafNode(mem, w)
             /\ HasLeafNode(mem, w) =>
                  find(mem', w) = IF w \in Nodes THEN WithW(find(mem, w), writable)
                                                 ELSE find(mem, w)
    BY <2>1, ReflaggedNodes, SMTT(20)
  <2>3. ASSUME NEW w \in VPNs
        PROVE  \/ Lookup(w)' = Lookup(w)
               \/ /\ Lookup(w) # Unmapped
                  /\ Lookup(w)' = WithW(Lookup(w), writable)
    <3>1. Lookup(w) = Look(mem, w) /\ Lookup(w)' = Look(mem', w)
      BY <2>1, LookupIsLook, SMTT(20)
    <3>2. HasLeafNode(mem, w) => find(mem, w) \in Ptes
      <4>1. mem \in NodeMem /\ Tree(mem, Nodes) /\ Nodes \subseteq Frames /\ w \in Nat
        BY <2>1, PageTableAssumption, SMTT(20) DEF TableInv, TypeOK, Tracked, NodeMem, VPNs
      <4> QED  BY <4>1, Walk, IndexInNode, SMTT(20) DEF find, NodeMem
    <3>3. HasLeafNode(mem, w) => (is_valid(find(mem', w)) <=> is_valid(find(mem, w)))
      BY <2>2, <3>2, WithWType
    <3> QED  BY <2>2, <3>1, <3>2, <3>3, PageTableAssumption, SMTT(20) DEF Look
  <2> QED  BY <2>1, <2>2, <2>3
<1> QED
  BY <1>1, <1>2

(* Nothing is allocated at the start. *)
LEMMA TableInit == Init => TableInv
<1> SUFFICES ASSUME Init PROVE TableInv
  BY SMTT(20)
<1>1. TypeOK
  BY PageTableAssumption, PteTypes, SMTT(20) DEF Init, TypeOK
<1>2. Tracked
  BY ShortSequences DEF Init, Tracked, Nodes
<1> QED
  BY <1>1, <1>2 DEF Init, TableInv

(* Every step is sound. *)
LEMMA TableStep == TableInv /\ [Next]_vars => Sound
<1> SUFFICES ASSUME TableInv, [Next]_vars PROVE Sound
  OBVIOUS
<1>1. CASE UNCHANGED vars
  <2>1. TypeOK' /\ Tracked' /\ Nodes' = Nodes
    BY <1>1, SMTT(20) DEF vars, TableInv, TypeOK, Tracked, Nodes
  <2>2. root # NoFrame => Tree(mem, Nodes)'
    <3>1. root' = root /\ mem' = mem /\ Nodes' = Nodes
      BY <1>1, <2>1 DEF vars
    <3>2. root # NoFrame => Tree(mem', Nodes')
      BY <3>1 DEF TableInv
    <3> QED  BY <3>1, <3>2, TreePrimed
  <2> QED  BY <1>1, <2>1, <2>2, SMTT(20) DEF vars, Sound, TableInv
<1>2. CASE allocate
  BY <1>2, allocateStep
<1>3. ASSUME NEW v \in Pages, NEW flags \in Flags, NEW frame \in Targets(v),
             map_one_allocate(v, frame, flags) \/ map_one(v, frame, flags)
      PROVE  Sound
  BY <1>3, map_one_allocateStep, map_oneStep
<1>4. CASE lock_table \/ unlock_table
  BY <1>4, ReflagStep, Zenon DEF lock_table, unlock_table
<1>5. CASE drop
  BY <1>5, dropStep
<1> QED
  BY <1>1, <1>2, <1>3, <1>4, <1>5, SMTT(20) DEF Next

(* The invariant holds throughout. *)
LEMMA TableInvariant == Spec => []TableInv
<1>1. TableInv /\ [Next]_vars => TableInv'
  BY TableStep DEF Sound
<1> QED
  BY <1>1, TableInit, PTL DEF Spec

-----------------------------------------------------------------------------

(* The counts of TableIsTree follow from the shape. *)
LEMMA Counted == TableInv => TableIsTree
<1> SUFFICES ASSUME TableInv, root # NoFrame PROVE TableIsTree
  BY DEF TableIsTree
<1> DEFINE level1 == Children(root)
           level0 == UNION { Children(f) : f \in level1 }
           links == Links(root) \cup UNION { Links(f) : f \in level1 }
<1>1. Tree(mem, Nodes) /\ Nodes \cap free = {} /\ node_frames \in Seq(Frames)
  BY SMTT(20) DEF TableInv, TypeOK, Tracked
<1>2. \A f : Children(f) = Kids(mem, f)
  BY DEF Children, Kids
<1>3. level1 = Kids(mem, root) /\ level0 = UNION { Kids(mem, f) : f \in Kids(mem, root) }
  BY <1>2, SMTT(20)
<1>4. \A f \in level1 : Kids(mem, f) \subseteq Nodes \ ({root} \cup level1)
  <2> SUFFICES ASSUME NEW f \in level1, NEW x \in Kids(mem, f)
               PROVE  x \in Nodes \ ({root} \cup level1)
    BY Zenon
  <2>1. PICK i \in Slots : is_valid(mem[f][i]) /\ x = mem[f][i].frame
    BY Zenon DEF Kids
  <2>2. f \in Kids(mem, root)
    BY <1>3, Zenon
  <2>3. x \in Nodes \ ({root} \cup Kids(mem, root))
    BY <1>1, <2>1, <2>2, Zenon DEF Tree, TreeOf
  <2> QED  BY <1>3, <2>3, Zenon
<1>5. root \in Nodes /\ level1 \subseteq Nodes \ {root}
  <2>1. root \in Nodes
    BY <1>1, Zenon DEF Tree, TreeOf
  <2>2. ASSUME NEW x \in Kids(mem, root) PROVE x \in Nodes \ {root}
    <3>1. PICK i \in Slots : is_valid(mem[root][i]) /\ x = mem[root][i].frame
      BY Zenon DEF Kids
    <3> QED  BY <1>1, <3>1, Zenon DEF Tree, TreeOf
  <2> QED  BY <1>3, <2>1, <2>2, Zenon
<1>6. Nodes = {root} \cup level1 \cup level0
  <2>1. Nodes \subseteq {root} \cup level1 \cup level0
    BY <1>1, <1>3 DEF Tree, TreeOf
  <2>2. level0 \subseteq Nodes
    BY <1>3, <1>4
  <2> QED  BY <1>5, <2>1, <2>2, SMTT(20)
<1>7. IsFiniteSet(Nodes) /\ Cardinality(Nodes) = Len(node_frames)
  <2>1. node_frames \in [1 .. Len(node_frames) -> Nodes]
    BY <1>1 DEF Nodes, Range
  <2>2. node_frames \in Bijection(1 .. Len(node_frames), Nodes)
    BY <1>1, <2>1 DEF Bijection, Injection, IsInjective, Surjection, TableInv, Tracked, Nodes,
                      Range
  <2>3. Len(node_frames) \in Nat /\ ExistsBijection(1 .. Len(node_frames), Nodes)
    BY <1>1, <2>2 DEF ExistsBijection
  <2> QED  BY <2>3, FS_NatBijection, FS_CountingElements
<1>8. IsFiniteSet(Nodes \ {root}) /\ Cardinality(Nodes \ {root}) = Cardinality(Nodes) - 1
  BY <1>5, <1>7, FS_RemoveElement, SMTT(20)
<1> DEFINE child == [l \in links |-> mem[l[1]][l[2]].frame]
<1> HIDE DEF level1, level0
<1>9. ASSUME NEW l \in links
      PROVE  /\ l = << l[1], l[2] >> /\ l[2] \in Slots /\ is_valid(mem[l[1]][l[2]])
             /\ l[1] = root \/ l[1] \in level1
  BY DEF Links
<1>10. ASSUME NEW f, f = root \/ f \in level1, NEW i \in Slots, is_valid(mem[f][i])
       PROVE  << f, i >> \in links
  BY <1>10, SMTT(20) DEF Links
<1> HIDE DEF links
<1>11. ASSUME NEW l \in links
       PROVE  /\ child[l] \in Nodes \ {root}
              /\ l[1] = root => child[l] \in level1
              /\ l[1] # root => child[l] \notin level1
  <2>1. child[l] \in Kids(mem, l[1])
    BY <1>9, SMTT(20) DEF Kids
  <2>2. l[2] \in Slots /\ is_valid(mem[l[1]][l[2]]) /\ (l[1] = root \/ l[1] \in level1)
    BY <1>9, Zenon
  <2> QED  BY <1>1, <1>3, <2>1, <2>2, ZenonT(40) DEF Tree, TreeOf
<1>12. ASSUME NEW k \in links, NEW l \in links, child[k] = child[l] PROVE k = l
  <2>1. k[1] = root <=> l[1] = root
    BY <1>11, <1>12, SMTT(20)
  <2>2. k[1] = l[1] /\ k[2] = l[2]
    BY <1>1, <1>3, <1>9, <1>12, <2>1, SMTT(20) DEF Tree, TreeOf
  <2> QED  BY <1>9, <2>2, SMTT(20)
<1>13. ASSUME NEW n \in Nodes \ {root} PROVE \E l \in links : child[l] = n
  <2>1. PICK f : (f = root \/ f \in level1) /\ n \in Kids(mem, f)
    BY <1>1, <1>3, SMTT(20) DEF Tree, TreeOf
  <2>2. PICK i \in Slots : is_valid(mem[f][i]) /\ mem[f][i].frame = n
    BY <2>1, SMTT(20) DEF Kids
  <2>3. << f, i >> \in links
    BY <1>10, <2>1, <2>2, SMTT(20)
  <2> QED  BY <2>2, <2>3, SMTT(20)
<1>14. child \in Injection(links, Nodes \ {root}) /\ child \in Surjection(links, Nodes \ {root})
  <2>1. child \in [links -> Nodes \ {root}]
    BY <1>11
  <2> QED  BY <1>12, <1>13, <2>1, SMTT(20) DEF Injection, IsInjective, Surjection
<1> HIDE DEF child
<1>15. IsFiniteSet(links) /\ Cardinality(links) = Cardinality(Nodes \ {root})
  BY <1>8, <1>14, FS_Injection, SMTT(20)
<1>16. Cardinality(Nodes) = 1 + Cardinality(links)
  BY <1>7, <1>8, <1>15, FS_CardinalityType
<1> QED
  BY <1>1, <1>6, <1>7, <1>16, SMTT(20) DEF TableIsTree, level1, level0, links

-----------------------------------------------------------------------------
(* Theorems *)

(* Every field keeps its type: a node's entries stay entries, and its      *)
(* frames stay frames of the heap.                                         *)
THEOREM TableTypes == Spec => []TypeOK
<1>1. TableInv => TypeOK
  BY DEF TableInv
<1> QED
  BY <1>1, TableInvariant, PTL

(* The frames of node_frames are the root and two levels of nodes, linked  *)
(* once each, and none is free: for every size of a node and of the heap.  *)
THEOREM TableTree == Spec => []TableIsTree
BY Counted, TableInvariant, PTL

(* No method loses a frame or makes one up.                                *)
THEOREM TableConservesFrames == Spec => FramesConserved
<1>1. TableInv /\ [Next]_vars => [free' \cup Nodes' = free \cup Nodes]_vars
  BY TableStep DEF Sound
<1> QED
  BY <1>1, TableInvariant, PTL DEF Spec, FramesConserved

(* No method writes to a frame that is not a node of the table.            *)
THEOREM TableWritesOwnNodes == Spec => WritesOwnNodes
<1>1. TableInv /\ [Next]_vars
        => [\A f \in Frames \ (Nodes \cup Nodes') : mem'[f] = mem[f]]_vars
  BY TableStep DEF Sound
<1> QED
  BY <1>1, TableInvariant, PTL DEF Spec, WritesOwnNodes

\* what LockExact says of a step
Exact ==
  lock_table /\ ~ panicked' =>
    \A v \in VPNs : HasLeafNode(mem, v) =>
      IF v \in Nodes THEN "W" \notin find(mem', v).flags
                     ELSE find(mem', v) = find(mem, v)

(* lock_table that returns has made the table's own pages read-only, all   *)
(* of them and nothing else.                                               *)
THEOREM LockIsExact == Spec => LockExact
<1>1. TableInv /\ [Next]_vars => [Exact]_vars
  <2> SUFFICES ASSUME TableInv, lock_table, ~ panicked',
                      NEW v \in VPNs, HasLeafNode(mem, v)
               PROVE  IF v \in Nodes THEN "W" \notin find(mem', v).flags
                                     ELSE find(mem', v) = find(mem, v)
    BY DEF Exact
  <2>1. /\ root # NoFrame /\ AllNodesFound /\ mem' = Reflagged(FALSE)
        /\ UNCHANGED << root, node_frames, free, panicked >>
    BY Zenon DEF lock_table, Reflag, Live, panic
  <2>2. find(mem', v) = IF v \in Nodes THEN WithW(find(mem, v), FALSE) ELSE find(mem, v)
    BY <2>1, ReflaggedNodes, Zenon
  <2>3. find(mem, v) \in Ptes
    <3>1. mem \in NodeMem /\ Tree(mem, Nodes) /\ Nodes \subseteq Frames /\ v \in Nat
      BY <2>1, PageTableAssumption DEF TableInv, TypeOK, Tracked, NodeMem, VPNs
    <3> QED  BY <3>1, Walk, IndexInNode, SMTT(20) DEF find, NodeMem
  <2> QED  BY <2>2, <2>3, WithWType, ZenonT(40)
<1> QED
  BY <1>1, TableInvariant, PTL DEF Spec, LockExact, Exact

(* A step of the table is a step of the partial map, or leaves it alone.   *)
LEMMA MapStep == TableInv /\ [Next]_vars => [AM!Next]_(AM!amvars)
<1> SUFFICES ASSUME TableInv, [Next]_vars PROVE [AM!Next]_(AM!amvars)
  OBVIOUS
<1> DEFINE before == [v \in VPNs |-> Lookup(v)]
           after  == [v \in VPNs |-> Lookup(v)']
<1>h. ASSUME ~ panicked, Halts PROVE AM!Next
  <2>1. before = after
    BY <1>h DEF Halts
  <2> QED  BY <1>h, <2>1 DEF AM!Next, AM!Halt, Halts
<1>1. CASE UNCHANGED vars
  <2>1. \A w \in VPNs : Lookup(w)' = Lookup(w)
    BY <1>1 DEF vars, Lookup, HasLeafNode, find, LeafNode, Pte1, Pte2
  <2> QED  BY <1>1, <2>1, SMTT(20) DEF vars, AM!amvars
<1>2. CASE allocate
  <2>1. \/ Halts /\ ~ panicked
        \/ UNCHANGED panicked /\ \A w \in VPNs : Lookup(w)' = Lookup(w)
    BY <1>2, allocateStep DEF allocate
  <2> QED  BY <1>h, <2>1, SMTT(20) DEF AM!amvars
<1>3. ASSUME NEW v \in Pages, NEW flags \in Flags, NEW frame \in Targets(v),
             map_one_allocate(v, frame, flags) \/ map_one(v, frame, flags)
      PROVE  AM!Next
  <2>1. ~ panicked /\ v \in VPNs
    BY <1>3, PageTableAssumption DEF map_one_allocate, map_one, Live
  <2>2. Maps(v) \/ Halts
    BY <1>3, map_one_allocateStep, map_oneStep
  <2>3. ASSUME Maps(v) PROVE AM!Map(v)
    BY <2>1, <2>3 DEF Maps, AM!Map
  <2> QED  BY <1>h, <2>1, <2>2, <2>3, SMTT(20) DEF AM!Next
<1>4. ASSUME NEW writable \in BOOLEAN, Reflag(writable) PROVE AM!Next
  <2>1. ~ panicked
    BY <1>4 DEF Reflag, Live
  <2>2. \/ Halts
        \/ /\ UNCHANGED panicked
           /\ \A w \in VPNs :
                \/ Lookup(w)' = Lookup(w)
                \/ Lookup(w) # Unmapped /\ Lookup(w)' = WithW(Lookup(w), writable)
    BY <1>4, ReflagStep
  <2>3. CASE writable /\ ~ Halts
    BY <2>1, <2>2, <2>3, SMTT(20) DEF AM!Next, AM!Protect, AM!ReadWrite, WithW
  <2>4. CASE ~ writable /\ ~ Halts
    BY <2>1, <2>2, <2>4, SMTT(20) DEF AM!Next, AM!Protect, AM!ReadOnly, WithW
  <2> QED  BY <1>h, <2>1, <2>2, <2>3, <2>4
<1>5. CASE drop
  <2>1. ~ panicked /\ UNCHANGED panicked /\ \A w \in VPNs : Lookup(w)' = Unmapped
    BY <1>5, dropStep DEF drop, Live
  <2>2. after = AM!NoMapping
    BY <2>1 DEF AM!NoMapping
  <2> QED  BY <2>1, <2>2, SMTT(20) DEF AM!Next, AM!Discard
<1> QED
  BY <1>1, <1>2, <1>3, <1>4, <1>5, Zenon DEF Next, lock_table, unlock_table

(* The three-level table implements the partial map from pages to entries: *)
(* a page is mapped once and mapping it changes no other page, whatever    *)
(* the node size, the heap and the order of the calls.                     *)
THEOREM TableIsMap == Spec => ImplementsAddrMap
<1>1. Init => AM!Init
  BY DEF Init, AM!Init, AM!NoMapping, Lookup
<1> QED
  BY <1>1, MapStep, TableInvariant, PTL DEF Spec, ImplementsAddrMap, AM!Spec
=============================================================================

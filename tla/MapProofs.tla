------------------------------ MODULE MapProofs ------------------------------
(***************************************************************************)
(* What the tables of AddressSpace map, for every image, however little    *)
(* memory there is: no assertion of the path fails, each table maps the    *)
(* pages of its areas and nothing else, and user mode reaches its own      *)
(* frames only.                                                            *)
(***************************************************************************)
EXTENDS AddressSpaceProofs

-----------------------------------------------------------------------------
(* The invariant *)

PagesIn(s) == Range(PagesOf(spaces[s].areas))

RO(s) == IF s = "kernel" THEN ReadOnlyNodes ELSE {}

(* The areas, from which the pages follow. *)
AreasInv ==
  /\ \A s \in {"kernel", "another"} : NF(s) # << >> => spaces[s].areas = kernel_areas
  /\ Len(InitAreas) \in 0 .. 4
  /\ \A k \in 1 .. Len(InitAreas) : \E f \in Heap(image) : InitAreas[k] = UserArea(k, f)
  /\ NF("init") # << >> => Len(InitAreas) \in {3, 4}
  /\ pcb.trap_context # 0 =>
       /\ Len(InitAreas) = 4
       /\ \E f \in Heap(image) : InitAreas[4] = UserArea(4, f) /\ pcb.trap_context = get_base_addr(f)

\* a space without a table has no entry, a table has its root
RootsInv ==
  \A s \in SpaceNames : IF NF(s) = << >> THEN spaces[s].nodes = << >> /\ DOMAIN spaces[s].entries = {}
                        ELSE << >> \in DOMAIN spaces[s].nodes

\* also where the hart has stopped
WithinInv == \A s \in SpaceNames : Within(spaces[s], PagesIn(s))

\* every page is mapped, but for those the loop has not reached
HoldInv ==
  \A s \in SpaceNames : NF(s) # << >> => Holds(spaces[s], PagesIn(s) \ Pending(s), RO(s))

Early == {"make_kernel", "map_kernel", "verify"}
Relocking == {"lock_table", "load_self"}

LoadedAt ==
  IF step \in Early THEN "bare"
  ELSE IF step \in Relocking THEN "another"
  ELSE IF step = "user" THEN "init"
  ELSE "kernel"

(* What the loops still have to do. *)
TodoInv ==
  /\ step \in DOMAIN Mapping =>
       todo # << >> /\ todo \in Seq(PagesIn(Mapping[step].space)) /\ Distinct(todo)
  /\ step = "lock_table" =>
       /\ todo # << >> /\ todo \in Seq(Range(NF("kernel")))
       /\ \A i \in DOMAIN todo : \A j \in DOMAIN todo : todo[i] = todo[j] => i = j
  /\ step = "load_self" => todo = << >>

(* How far the path is. *)
PathInv ==
  /\ loaded = LoadedAt
  /\ step \in Early => ~locked
  /\ step = "text" => Len(InitAreas) = 2
  /\ step \in {"make_init", "map_init", "init_trapframe"} => Len(InitAreas) = 3
  /\ step \in WithContext => Len(InitAreas) = 4
  /\ step \notin BeforeStacks =>
       InitPid \in DOMAIN kernel_stacks /\ kernel_stacks[InitPid] \in Heap(image)
  /\ step \in Late => /\ pcb.satp = make_satp("kernel") /\ pcb.sepc = TEXT_BASE_USER_VA
                      /\ pcb.kernel_sp = get_base_addr(kernel_stacks[InitPid]) + PAGE_SIZE

MapInv ==
  /\ AssertionsHold /\ AreasInv /\ RootsInv /\ WithinInv
  /\ step \notin Stopped => HoldInv /\ TodoInv /\ PathInv

-----------------------------------------------------------------------------

(* The loops of map_memory_and_run: whose table, and what comes next. *)
LEMMA MappingSteps ==
  /\ DOMAIN Mapping = {"map_kernel", "map_init", "map_trapframe", "map_another"}
  /\ Mapping["map_kernel"].space = "kernel" /\ Mapping["map_init"].space = "init"
  /\ Mapping["map_trapframe"].space = "init" /\ Mapping["map_another"].space = "another"
  /\ Mapping["map_kernel"].then = "verify" /\ Mapping["map_init"].then = "init_trapframe"
  /\ Mapping["map_trapframe"].then = "first_execution_init"
  /\ Mapping["map_another"].then = "load_another"
BY DEF Mapping

(* The step is one of the path. *)
LEMMA Moving ==
  ASSUME step \notin Stopped, MapInv
  PROVE  HoldInv /\ TodoInv /\ PathInv /\ AreasInv /\ RootsInv
BY Zenon DEF MapInv

(* The hart that has not stopped. *)
LEMMA GoesOn ==
  ASSUME (step \notin Stopped)', AreasInv', RootsInv', HoldInv', TodoInv', PathInv'
  PROVE  MapInv'
<1> USE Zenon
<1>1. AssertionsHold'
  BY DEF AssertionsHold, Stopped
<1>2. ASSUME NEW s \in SpaceNames PROVE Within(spaces'[s], PagesIn(s)')
  <2>1. CASE NF(s)' = << >>
    <3>1. DOMAIN spaces'[s].entries = {}
      BY <2>1 DEF RootsInv
    <3> QED  BY <3>1 DEF Within
  <2>2. CASE NF(s)' # << >>
    <3>1. Holds(spaces'[s], PagesIn(s)' \ Pending(s)', RO(s)')
      BY <2>2 DEF HoldInv
    <3>2. PagesIn(s)' \ Pending(s)' \subseteq PagesIn(s)'
      OBVIOUS
    <3> QED  BY <3>1, <3>2, HoldsWithin
  <2> QED  BY <2>1, <2>2
<1>3. WithinInv'
  BY <1>2 DEF WithinInv
<1> QED
  BY <1>1, <1>3 DEF MapInv

(* Pages of the tables. *)
LEMMA TablePages ==
  ASSUME image \in Images, AreasInv, NEW s \in SpaceNames, NF(s) # << >>
  PROVE  /\ PagesOf(spaces[s].areas) \in Seq(PageSet) /\ Distinct(PagesOf(spaces[s].areas))
         /\ PagesIn(s) \in SUBSET PageSet
         /\ TrampolinePage \in PagesIn(s)
<1> USE Zenon
<1>1. /\ PagesOf(spaces[s].areas) \in Seq(PageSet) /\ Distinct(PagesOf(spaces[s].areas))
      /\ TrampolinePage \in Range(PagesOf(spaces[s].areas))
  <2>1. CASE s \in {"kernel", "another"}
    <3>1. spaces[s].areas = kernel_areas
      BY <2>1 DEF AreasInv
    <3>2. PICK pages : pages = PagesOf(kernel_areas)
      OBVIOUS
    <3>3. pages \in Seq(PageSet) /\ Distinct(pages) /\ TrampolinePage \in Range(pages)
      BY <3>2, KernelPages
    <3> QED  BY <3>1, <3>2, <3>3
  <2>2. CASE s = "init"
    <3>1. PICK areas, n : areas = InitAreas /\ n = Len(InitAreas)
      OBVIOUS
    <3>2. /\ n \in {3, 4} /\ Len(areas) = n
          /\ \A k \in 1 .. n : \E f \in Heap(image) : areas[k] = UserArea(k, f)
      BY <2>2, <3>1 DEF AreasInv
    <3>3. n \in 0 .. 4 /\ 1 \in 1 .. n
      BY <3>2, SMTT(30)
    <3>4. /\ PagesOf(areas) \in Seq(PageSet) /\ Distinct(PagesOf(areas))
          /\ \A x : x \in Range(PagesOf(areas)) <=>
                      \E k \in 1 .. n : \E f \in Heap(image) :
                        areas[k] = UserArea(k, f) /\ x = UserPage(k, f)
      <4>1. UserAreas(areas, n)
        BY <3>2, <3>3 DEF UserAreas
      <4> QED  BY <4>1, UserPages, SMTT(30)
    <3>5. PICK f \in Heap(image) : areas[1] = UserArea(1, f)
      BY <3>2, <3>3
    <3>6. UserPage(1, f) = TrampolinePage
      BY DEF UserPage, TrampolinePage, UserNumber, UserFrame, UserPerms
    <3>7. TrampolinePage \in Range(PagesOf(areas))
      BY <3>3, <3>4, <3>5, <3>6
    <3> QED  BY <2>2, <3>1, <3>4, <3>7 DEF InitAreas
  <2>3. s \in {"kernel", "another"} \/ s = "init"
    BY DEF SpaceNames
  <2> QED  BY <2>1, <2>2, <2>3
<1>2. PICK pages : pages = PagesOf(spaces[s].areas)
  OBVIOUS
<1>3. Range(pages) \subseteq PageSet
  BY <1>1, <1>2, SMTT(30) DEF Range
<1> QED
  BY <1>1, <1>2, <1>3 DEF PagesIn

(* The pages of the kernel's two spaces. *)
LEMMA KernelTablePages ==
  ASSUME image \in Images, AreasInv, NEW s \in {"kernel", "another"}, NF(s) # << >>
  PROVE  /\ PagesIn(s) = Range(PagesOf(kernel_areas))
         /\ \A f \in Heap(image) : Page(f, f, RW) \in PagesIn(s)
         /\ \A x \in PagesIn(s) : get_number(x.pa) \in Heap(image) =>
                                    x = Page(get_number(x.pa), get_number(x.pa), RW)
         /\ \A x \in PagesIn(s) : "USER" \notin x.flags
         /\ \A x \in PagesIn(s) : \A y \in PagesIn(s) :
              "WRITABLE" \in x.flags /\ "EXECUTABLE" \in y.flags => get_number(x.pa) # get_number(y.pa)
<1>1. PICK pages : pages = PagesOf(kernel_areas)
  BY Zenon
<1>2. PagesIn(s) = Range(pages)
  BY <1>1, Zenon DEF AreasInv, PagesIn
<1> QED
  BY <1>1, <1>2, KernelPages, SMTT(30)

(* The pages of the init process. *)
LEMMA InitTablePages ==
  ASSUME image \in Images, AreasInv
  PROVE  /\ \A x : x \in PagesIn("init") <=>
                     \E k \in 1 .. Len(InitAreas) : \E f \in Heap(image) :
                       InitAreas[k] = UserArea(k, f) /\ x = UserPage(k, f)
         /\ PagesOf(InitAreas) \in Seq(PageSet) /\ Distinct(PagesOf(InitAreas))
         /\ PagesIn("init") \in SUBSET PageSet
<1> USE Zenon
<1>1. PICK areas, n : areas = InitAreas /\ n = Len(InitAreas)
  OBVIOUS
<1>2. /\ n \in 0 .. 4 /\ Len(areas) = n
      /\ \A k \in 1 .. n : \E f \in Heap(image) : areas[k] = UserArea(k, f)
  BY <1>1 DEF AreasInv
<1>3. /\ PagesOf(areas) \in Seq(PageSet) /\ Distinct(PagesOf(areas))
      /\ \A x : x \in Range(PagesOf(areas)) <=>
                  \E k \in 1 .. n : \E f \in Heap(image) :
                    areas[k] = UserArea(k, f) /\ x = UserPage(k, f)
  <2>1. UserAreas(areas, n)
    BY <1>2 DEF UserAreas
  <2> QED  BY <2>1, UserPages, SMT
<1>4. PICK pages : pages = PagesOf(areas)
  OBVIOUS
<1>5. Range(pages) \subseteq PageSet
  BY <1>3, <1>4, SMTT(30) DEF Range
<1> QED
  BY <1>1, <1>3, <1>4, <1>5, ZenonT(40) DEF PagesIn, InitAreas

(* A table that is complete. *)
LEMMA Complete ==
  ASSUME image \in Images, AreasInv, HoldInv, NEW s \in SpaceNames, NF(s) # << >>, Pending(s) = {}
  PROVE  Holds(spaces[s], PagesIn(s), RO(s)) /\ PagesIn(s) \in SUBSET PageSet
<1> USE Zenon
<1>1. PagesIn(s) \ Pending(s) = PagesIn(s)
  OBVIOUS
<1> QED
  BY <1>1, TablePages DEF HoldInv

-----------------------------------------------------------------------------
(* Stores *)

(* Only the nodes of the kernel's table are ever read-only. *)
LEMMA ReadOnlyAreNodes == ReadOnlyNodes \subseteq Range(NF("kernel"))
BY Zenon DEF ReadOnlyNodes, NF

(* The kernel's spaces map the heap to itself, writable but for the nodes  *)
(* that are locked.                                                        *)
LEMMA ReachHeap ==
  ASSUME SpaceInv, AreasInv, HoldInv, NEW s \in {"kernel", "another"}, NF(s) # << >>,
         Pending(s) = {}, NEW f \in Heap(image), f \notin RO(s),
         NEW o \in Nat, o < PAGE_SIZE, NEW va, va = get_base_addr(f) + o
  PROVE  Reaches(s, va, va, {"WRITABLE"})
<1> USE Zenon
<1>1. image \in Images /\ s \in SpaceNames /\ s # "bare"
  BY DEF SpaceInv, Shape, SpaceNames
<1>2. Holds(spaces[s], PagesIn(s), RO(s)) /\ PagesIn(s) \in SUBSET PageSet
  BY <1>1, Complete
<1>3. PICK page : page = Page(f, f, RW)
  OBVIOUS
<1>4. page \in PagesIn(s)
  BY <1>1, <1>3, KernelTablePages
<1>5. page.va = get_base_addr(f) /\ page.pa = get_base_addr(f) /\ page.flags = RW \cup {"VALID"}
  BY <1>3 DEF Page
<1>6. f \in Nat
  BY <1>1, HeapAboveZero
<1>7. get_number(page.pa) = f /\ PG_ROUND_DOWN(va) = page.pa /\ Path(va) = Path(page.va)
  BY <1>5, <1>6, PageNumber, PathWithin
<1>8. Left(page, RO(s)) = RW \cup {"VALID"}
  BY <1>5, <1>7 DEF Left
<1>9. /\ Found(spaces[s], va) /\ PTE2PA(find(spaces[s], va)) = page.pa
      /\ flags(find(spaces[s], va)) = Left(page, RO(s))
  <2>1. PICK space, pages, ro : space = spaces[s] /\ pages = PagesIn(s) /\ ro = RO(s)
    OBVIOUS
  <2>2. Holds(space, pages, ro) /\ pages \in SUBSET PageSet /\ page \in pages
    BY <1>2, <1>4, <2>1
  <2>3. Of(va, page)
    BY <1>7 DEF Of
  <2>4. Reached(space, va, page.pa, Left(page, ro))
    BY <2>2, <2>3, Held
  <2> QED  BY <2>1, <2>4 DEF Reached
<1>10. {"WRITABLE"} \cup {"VALID"} \subseteq RW \cup {"VALID"}
  BY DEF RW
<1> QED
  BY <1>1, <1>7, <1>8, <1>9, <1>10, ZenonT(40) DEF Reaches

(* The kernel can write to every frame of the heap, but to its own nodes   *)
(* only in the space it sets up for that.                                  *)
LEMMA StoreHeap ==
  ASSUME SpaceInv, AreasInv, HoldInv, PathInv, NEW f \in Heap(image),
         \/ loaded = "bare"
         \/ loaded = "kernel" /\ f \notin Range(NF("kernel"))
         \/ loaded = "another"
  PROVE  Storable(get_base_addr(f))
<1> USE Zenon
<1>1. CASE loaded = "bare"
  BY <1>1 DEF Storable, Reaches
<1>2. CASE loaded # "bare"
  <2>1. image \in Images /\ NF(loaded) # << >> /\ loaded \in {"kernel", "another"}
    BY <1>2 DEF SpaceInv, Shape, Stage
  <2>2. Pending(loaded) = {}
    <3>1. loaded = LoadedAt
      BY DEF PathInv
    <3>2. CASE loaded = "kernel"
      BY <3>1, <3>2, MappingSteps DEF LoadedAt, Pending, Early
    <3>3. CASE loaded = "another"
      BY <3>1, <3>3, MappingSteps DEF LoadedAt, Pending, Early, Relocking
    <3> QED  BY <2>1, <3>2, <3>3
  <2>3. f \notin RO(loaded) /\ f \in Nat
    <3>1. f \in Nat /\ "kernel" # "another"
      BY <2>1, HeapAboveZero
    <3> QED  BY <1>2, <2>1, <3>1, ReadOnlyAreNodes DEF RO
  <2>4. PICK va : va = get_base_addr(f)
    OBVIOUS
  <2>5. 0 < PAGE_SIZE /\ va = get_base_addr(f) + 0 /\ 0 \in Nat
    BY <2>3, <2>4, SMT DEF get_base_addr, PAGE_SIZE
  <2>6. Reaches(loaded, va, va, {"WRITABLE"})
    BY <2>1, <2>2, <2>3, <2>5, ReachHeap
  <2> QED  BY <2>4, <2>6 DEF Storable
<1> QED
  BY <1>1, <1>2

(* A frame in two places is an owner's twice. *)
LEMMA Apart ==
  ASSUME SpaceInv, NEW f \in Heap(image)
  PROVE  /\ f \in free => \A s \in SpaceNames : f \notin Range(NF(s))
         /\ \A s \in SpaceNames : \A t \in SpaceNames :
              f \in Range(NF(s)) /\ f \in Range(NF(t)) => s = t
         /\ \A s \in SpaceNames : \A i \in DOMAIN NF(s) : \A j \in DOMAIN NF(s) :
              NF(s)[i] = f /\ NF(s)[j] = f => i = j
         /\ Tracking(f) # {} => /\ f \notin free /\ Stacks(f) = {}
                                /\ \A s \in SpaceNames : f \notin Range(NF(s))
                                /\ \A x \in Tracking(f) : \A y \in Tracking(f) : x = y
         /\ Stacks(f) # {} => \A s \in SpaceNames : f \notin Range(NF(s))
<1> USE Zenon
<1>1. OneOwner(f)
  BY DEF SpaceInv, Owned
<1>2. ASSUME NEW s \in SpaceNames, f \in Range(NF(s)) PROVE \E k \in DOMAIN NF(s) : NF(s)[k] = f
  BY <1>2 DEF Range
<1>3. ASSUME NEW s \in SpaceNames, NEW k \in DOMAIN NF(s), NF(s)[k] = f
      PROVE  << s, k >> \in Positions(f)
  BY <1>3, PositionsOf
<1>4. ASSUME NEW x \in Positions(f), NEW y \in Positions(f) PROVE x = y
  <2>1. PICK ps : ps = Positions(f)
    OBVIOUS
  <2>2. ps = {} \/ \E p : ps = {p}
    BY <1>1, <2>1 DEF OneOwner
  <2>3. x \in ps /\ y \in ps
    BY <2>1
  <2> QED  BY <2>2, <2>3, SMTT(30)
<1>5. Tracking(f) # {} \/ Stacks(f) # {} \/ f \in free => Positions(f) = {}
  BY <1>1 DEF OneOwner
<1>6. ASSUME Positions(f) = {}, NEW s \in SpaceNames PROVE f \notin Range(NF(s))
  BY <1>2, <1>3, <1>6
<1>7. ASSUME NEW s \in SpaceNames, NEW t \in SpaceNames, f \in Range(NF(s)), f \in Range(NF(t))
      PROVE  s = t
  <2>1. PICK j \in DOMAIN NF(s) : NF(s)[j] = f
    BY <1>2, <1>7
  <2>2. PICK k \in DOMAIN NF(t) : NF(t)[k] = f
    BY <1>2, <1>7
  <2>3. << s, j >> = << t, k >>
    BY <1>3, <1>4, <2>1, <2>2
  <2> QED  BY <2>3
<1>8. ASSUME NEW s \in SpaceNames, NEW i \in DOMAIN NF(s), NEW j \in DOMAIN NF(s),
             NF(s)[i] = f, NF(s)[j] = f
      PROVE  i = j
  <2>1. << s, i >> = << s, j >>
    BY <1>3, <1>4, <1>8
  <2> QED  BY <2>1
<1>9. Tracking(f) # {} => /\ f \notin free /\ Stacks(f) = {}
                          /\ \A x \in Tracking(f) : \A y \in Tracking(f) : x = y
  BY <1>1 DEF OneOwner
<1> QED
  BY <1>5, <1>6, <1>7, <1>8, <1>9, ZenonT(40)

(* The areas and pages of an image that stays. *)
LEMMA ImageKept ==
  ASSUME image' = image
  PROVE  /\ kernel_areas' = kernel_areas /\ TrampolinePage' = TrampolinePage
         /\ \A k, f : UserArea(k, f)' = UserArea(k, f)
         /\ \A k, f : UserPage(k, f)' = UserPage(k, f)
<1> USE Zenon
<1>1. make_trampoline' = make_trampoline /\ text_va_end' = text_va_end
  BY DEF make_trampoline, text_va_end
<1>2. kernel_areas' = kernel_areas
  BY <1>1 DEF kernel_areas
<1>3. TrampolinePage' = TrampolinePage
  BY DEF TrampolinePage
<1>4. ASSUME NEW k, NEW f PROVE UserArea(k, f)' = UserArea(k, f)
  BY <1>1 DEF UserArea, make_initial_user_stack, init_text, make_trapframe
<1>5. ASSUME NEW k, NEW f PROVE UserPage(k, f)' = UserPage(k, f)
  BY <1>1 DEF UserPage, UserNumber, UserFrame
<1> QED
  BY <1>2, <1>3, <1>4, <1>5

(* Outside the loops that map, nothing is pending. *)
LEMMA NoPending ==
  /\ step \notin DOMAIN Mapping => \A s : Pending(s) = {}
  /\ step' \notin DOMAIN Mapping => \A s : Pending(s)' = {}
BY Zenon DEF Pending

(* Outside the loop that locks, all nodes are locked or none. *)
LEMMA AllOrNone ==
  /\ step \notin Relocking => ReadOnlyNodes = IF locked THEN Range(NF("kernel")) ELSE {}
  /\ step' \notin Relocking => ReadOnlyNodes' = IF locked' THEN Range(NF("kernel"))' ELSE {}
<1> USE Zenon
<1>1. step \notin Relocking => \A f : f \in ReadOnlyNodes <=> f \in Range(NF("kernel")) /\ locked
  BY DEF ReadOnlyNodes, NF, Relocking
<1>2. step' \notin Relocking => \A f : f \in ReadOnlyNodes' <=> f \in Range(NF("kernel"))' /\ locked'
  BY DEF ReadOnlyNodes, NF, Relocking
<1> QED
  BY <1>1, <1>2

(* Away from the two loops, the flag alone says which tables are read-only. *)
LEMMA SameLocks ==
  ASSUME step \notin Relocking, step' \notin Relocking, locked' = locked,
         Range(NF("kernel"))' = Range(NF("kernel"))
  PROVE  ReadOnlyNodes' = ReadOnlyNodes
<1> USE Zenon
<1>1. CASE locked
  BY <1>1, AllOrNone
<1>2. CASE ~locked
  BY <1>2, AllOrNone
<1> QED
  BY <1>1, <1>2

(* The tables stay as they are. *)
LEMMA SameHolds ==
  ASSUME HoldInv, spaces' = spaces, ReadOnlyNodes' = ReadOnlyNodes,
         \A s \in SpaceNames : Pending(s)' = Pending(s)
  PROVE  HoldInv'
<1> USE Zenon
<1>1. ASSUME NEW s \in SpaceNames
      PROVE  NF(s)' = NF(s) /\ PagesIn(s)' = PagesIn(s) /\ RO(s)' = RO(s)
  BY DEF NF, PagesIn, RO
<1> QED
  BY <1>1 DEF HoldInv

(* Areas and roots stay as they are. *)
LEMMA SameAreas ==
  ASSUME AreasInv, RootsInv, image' = image, spaces' = spaces,
         pcb'.trap_context = pcb.trap_context
  PROVE  AreasInv' /\ RootsInv'
<1> USE Zenon
<1>1. \A s : NF(s)' = NF(s)
  BY DEF NF
<1>2. InitAreas' = InitAreas
  BY DEF InitAreas
<1>3. kernel_areas' = kernel_areas /\ \A k, f : UserArea(k, f)' = UserArea(k, f)
  BY ImageKept
<1>4. AreasInv'
  BY <1>1, <1>2, <1>3 DEF AreasInv
<1> QED
  BY <1>1, <1>4 DEF RootsInv

-----------------------------------------------------------------------------

(* A free frame can be written. *)
LEMMA FreshHeap ==
  ASSUME SpaceInv, MapInv, step \notin Stopped \cup {"user"}, NEW f \in free
  PROVE  Fresh(f) /\ f \in Heap(image)
<1> USE Zenon
<1>1. HoldInv /\ PathInv /\ AreasInv /\ f \in Heap(image)
  BY Moving DEF SpaceInv, Shape
<1>2. loaded \in {"bare", "kernel", "another"}
  BY <1>1 DEF PathInv, LoadedAt
<1>3. f \notin Range(NF("kernel"))
  BY <1>1, Apart DEF SpaceNames
<1> QED
  BY <1>1, <1>2, <1>3, StoreHeap DEF Fresh

\* where the trap context is found in the space of the process
InContext(fl) ==
  /\ Found(spaces["init"], TRAPFRAME_BASE_USER_VA)
  /\ translate(spaces["init"], TRAPFRAME_BASE_USER_VA) = pcb.trap_context
  /\ Reaches("init", TRAPFRAME_BASE_USER_VA, pcb.trap_context, fl)

\* the first steps with a trap context that take no frame
Calm == {"first_execution_init", "lock_space", "usertrapret", "userret", "user"}

(* The steps that test, switch and return: they find what they expect,   *)
(* and change no table.                                                    *)
LEMMA TestsMap ==
  SpaceInv /\ MapInv
  /\ ( \/ verify \/ PCB_allocate \/ first_execution_init \/ Again
       \/ usertrapret \/ userret_on_trampoline \/ ecall \/ page_fault \/ OutOfFrames )
  => MapInv'
(* A step outside the loops that leaves the tables. *)
<1>QuietMaps.
    ASSUME SpaceInv, MapInv, step \notin Stopped \cup DOMAIN Mapping \cup Relocking,
           step' \notin Stopped \cup DOMAIN Mapping \cup Relocking,
           spaces' = spaces, image' = image, locked' = locked,
           pcb'.trap_context = pcb.trap_context, PathInv'
    PROVE  MapInv'
  <2> USE <1>QuietMaps, Zenon
  <2>1. HoldInv /\ AreasInv /\ RootsInv
    BY Moving
  <2>2. \A s : Pending(s)' = Pending(s)
    BY NoPending
  <2>3. ReadOnlyNodes' = ReadOnlyNodes
    <3>1. Range(NF("kernel"))' = Range(NF("kernel"))
      BY DEF NF
    <3>2. step \notin Relocking /\ step' \notin Relocking
      OBVIOUS
    <3> QED  BY <3>1, <3>2, SameLocks
  <2>4. HoldInv'
    BY <2>1, <2>2, <2>3, SameHolds
  <2>5. TodoInv'
    BY DEF TodoInv, Relocking
  <2>6. AreasInv' /\ RootsInv'
    BY <2>1, SameAreas
  <2> QED
    BY <2>4, <2>5, <2>6, GoesOn
(* The steps that change no table *)

(* The addresses of pages have no offset. *)
<1>NoOffset.
    /\ \A a \in Aligned : offset(a) = 0
    /\ \A m \in Nat : with_offset(get_base_addr(m), 0) = get_base_addr(m)
  <2>1. ASSUME NEW a \in Aligned PROVE offset(a) = 0
    <3>1. a \in Nat /\ a % 4096 = 0
      BY DEF Aligned, PAGE_SIZE
    <3>2. (a \div 4) % 4 = 0
      BY <3>1
    <3> QED  BY <3>2, SMTT(30) DEF offset
  <2>2. ASSUME NEW m \in Nat PROVE with_offset(get_base_addr(m), 0) = get_base_addr(m)
    <3>1. 2^12 = 4096
      OBVIOUS
    <3>2. ((m * 4096) \div 4096) * 4096 + (0 % 4096) = m * 4096
      OBVIOUS
    <3> QED  BY <3>1, <3>2 DEF with_offset, ALIGN_DOWN, VA_OFFSET_WIDTH, get_base_addr, PAGE_SIZE
  <2> QED
    BY <2>1, <2>2, SMTT(30)
(* verify_virt_area_mapping finds what a table holds. *)
<1>VerifiedHolds.
    ASSUME NEW s \in SpaceNames, Holds(spaces[s], PagesIn(s), {}), PagesIn(s) \in SUBSET PageSet
    PROVE  Verified(spaces[s])
  <2> USE <1>VerifiedHolds, Zenon
  <2> SUFFICES ASSUME NEW page \in PagesIn(s)
               PROVE  /\ PTE2PA(find(spaces[s], page.va)) = page.pa
                      /\ flags(find(spaces[s], page.va)) = page.flags
    BY DEF Verified, PagesIn
  <2>1. Left(page, {}) = page.flags
    BY DEF Left
  <2> QED
    <3>1. PICK space, pages, va : space = spaces[s] /\ pages = PagesIn(s) /\ va = page.va
      OBVIOUS
    <3>2. Holds(space, pages, {}) /\ pages \in SUBSET PageSet /\ page \in pages /\ Of(va, page)
      BY <3>1 DEF Of
    <3>3. Reached(space, va, page.pa, Left(page, {}))
      BY <3>2, Held
    <3> QED  BY <2>1, <3>1, <3>3 DEF Reached
(* verify *)
<1>verifyMaps. ASSUME SpaceInv, MapInv, verify PROVE MapInv'
  <2> USE <1>verifyMaps, Zenon
  <2>1. step = "verify" /\ loaded' = "kernel" /\ UNCHANGED << image, spaces, locked, kernel_stacks, pcb >>
        /\ step' = IF Verified(spaces["kernel"]) THEN "PCB_allocate" ELSE "assertion"
    BY DEF verify, Proceed
  <2>2. step \notin Stopped \cup DOMAIN Mapping \cup Relocking
    BY <2>1, MappingSteps DEF Stopped, Relocking
  <2>3. HoldInv /\ TodoInv /\ PathInv /\ AreasInv /\ RootsInv /\ image \in Images
    BY <2>2, Moving DEF SpaceInv, Shape
  <2>4. ~locked /\ NF("kernel") # << >> /\ "kernel" \in SpaceNames
    BY <2>1, <2>2, <2>3 DEF PathInv, Early, SpaceInv, Stage, SpaceNames
  <2>5. RO("kernel") = {} /\ Pending("kernel") = {}
    BY <2>2, <2>4, AllOrNone, NoPending DEF RO
  <2>6. Verified(spaces["kernel"])
    BY <2>3, <2>4, <2>5, Complete, <1>VerifiedHolds, ZenonT(40)
  <2>7. step' = "PCB_allocate"
    BY <2>1, <2>6
  <2>8. step' \notin Stopped \cup DOMAIN Mapping \cup Relocking
    BY <2>7, MappingSteps DEF Stopped, Relocking
  <2>9. PathInv'
    BY <2>1, <2>7 DEF PathInv, LoadedAt, Early, Relocking, WithContext, Late, Second, BeforeStacks
  <2>10. spaces' = spaces /\ image' = image /\ locked' = locked /\ pcb'.trap_context = pcb.trap_context
    BY <2>1
  <2> QED
    BY <2>2, <2>8, <2>9, <2>10, <1>QuietMaps
(* PCB_allocate *)
<1>PCB_allocateMaps. ASSUME SpaceInv, MapInv, PCB_allocate PROVE MapInv'
  <2> USE <1>PCB_allocateMaps, Zenon
  <2>1. PICK f \in free : AllocateStack(InitPid, f) /\ Proceed(Fresh(f), "user_stack")
    BY DEF PCB_allocate
  <2>2. /\ step = "PCB_allocate" /\ UNCHANGED << image, spaces, loaded, locked, pcb >>
        /\ kernel_stacks' = Put(kernel_stacks, InitPid, f)
        /\ step' = IF Fresh(f) THEN "user_stack" ELSE "assertion"
    BY <2>1 DEF PCB_allocate, AllocateStack, Proceed
  <2>3. step \notin Stopped \cup DOMAIN Mapping \cup Relocking /\ step \notin Stopped \cup {"user"}
    BY <2>2, MappingSteps DEF Stopped, Relocking
  <2>4. Fresh(f) /\ f \in Heap(image) /\ PathInv
    BY <2>3, FreshHeap, Moving
  <2>5. step' = "user_stack"
    BY <2>2, <2>4
  <2>6. step' \notin Stopped \cup DOMAIN Mapping \cup Relocking
    BY <2>5, MappingSteps DEF Stopped, Relocking
  <2>7. InitPid \in DOMAIN kernel_stacks' /\ kernel_stacks'[InitPid] = f
    BY <2>2 DEF Put
  <2>8. loaded' = "kernel"
    BY <2>2, <2>4 DEF PathInv, LoadedAt, Early, Relocking
  <2>9. PathInv'
    BY <2>2, <2>4, <2>5, <2>7, <2>8 DEF PathInv, LoadedAt, Early, Relocking, WithContext, Late, Second
  <2>10. spaces' = spaces /\ image' = image /\ locked' = locked /\ pcb'.trap_context = pcb.trap_context
    BY <2>2
  <2> QED
    BY <2>3, <2>6, <2>9, <2>10, <1>QuietMaps, ZenonT(40)
(* The frame of the trap context belongs to the fourth area. *)
<1>ContextFrame.
    ASSUME SpaceInv, AreasInv, pcb.trap_context # 0
    PROVE  \E f \in Heap(image) : /\ pcb.trap_context = get_base_addr(f)
                                  /\ UserPage(4, f) \in PagesIn("init")
                                  /\ Tracking(f) # {}
                                  /\ \A s \in SpaceNames : f \notin Range(NF(s))
  <2> USE <1>ContextFrame, Zenon
  <2>1. PICK f \in Heap(image) : InitAreas[4] = UserArea(4, f) /\ pcb.trap_context = get_base_addr(f)
    BY DEF AreasInv
  <2>2. Len(InitAreas) = 4 /\ image \in Images
    BY DEF AreasInv, SpaceInv, Shape
  <2>3. 4 \in 1 .. Len(InitAreas) /\ 4 \in 1 .. 4 /\ 4 # 1
    BY <2>2, SMTT(30)
  <2>4. UserPage(4, f) \in PagesIn("init")
    BY <2>1, <2>2, <2>3, InitTablePages
  <2>5. InitAreas[4].owned = {f}
    <3>1. f \in Nat
      BY <2>2, HeapAboveZero
    <3>2. PICK area : area = InitAreas[4]
      OBVIOUS
    <3>3. area.owned = IF 4 = 1 THEN {} ELSE {f}
      BY <2>1, <2>2, <2>3, <3>1, <3>2, UserAreaPages, SMTT(20)
    <3> QED  BY <2>3, <3>2, <3>3
  <2>6. 4 \in DOMAIN InitAreas
    <3>1. PICK S : InitAreas \in Seq(S)
      BY DEF SpaceInv, Shape
    <3>2. DOMAIN InitAreas = 1 .. Len(InitAreas)
      BY <3>1, SMTT(30)
    <3> QED  BY <2>3, <3>2
  <2>7. 4 \in Tracking(f)
    BY <2>5, <2>6 DEF Tracking
  <2>8. Tracking(f) # {}
    BY <2>7
  <2>9. \A s \in SpaceNames : f \notin Range(NF(s))
    BY <2>8, Apart
  <2> QED
    BY <2>1, <2>4, <2>8, <2>9, ZenonT(40)
<1>ContextMapped.
    ASSUME SpaceInv, AreasInv, HoldInv, pcb.trap_context # 0, NF("init") # << >>, Pending("init") = {},
           NEW fl \in SUBSET RW
    PROVE  InContext(fl)
  <2> USE <1>ContextMapped, Zenon
  <2>1. PICK f \in Heap(image) : /\ pcb.trap_context = get_base_addr(f)
                                 /\ UserPage(4, f) \in PagesIn("init")
    BY <1>ContextFrame
  <2>2. image \in Images /\ "init" \in SpaceNames /\ "init" # "bare"
    BY DEF SpaceInv, Shape, SpaceNames
  <2>3. PICK page : page = UserPage(4, f)
    OBVIOUS
  <2>4. /\ page.va = get_base_addr(get_number(TRAPFRAME_BASE_USER_VA)) /\ page.pa = get_base_addr(f)
        /\ page.flags = RW \cup {"VALID"}
    BY <2>3, SMTT(30) DEF UserPage, Page, UserNumber, UserFrame, UserPerms
  <2>5. TRAPFRAME_BASE_USER_VA \in Aligned /\ f \in Nat
    BY <2>2, Addresses, HeapAboveZero
  <2>6. page.va = TRAPFRAME_BASE_USER_VA
    BY <2>4, <2>5, AlignedNumber
  <2>7. Holds(spaces["init"], PagesIn("init"), {}) /\ PagesIn("init") \in SUBSET PageSet
    BY <2>2, Complete DEF RO
  <2>8. Left(page, {}) = RW \cup {"VALID"}
    BY <2>4 DEF Left
  <2>9. PICK sp, va : sp = spaces["init"] /\ va = TRAPFRAME_BASE_USER_VA
    OBVIOUS
  <2>10. Found(sp, va) /\ PTE2PA(find(sp, va)) = get_base_addr(f) /\ flags(find(sp, va)) = RW \cup {"VALID"}
    <3>1. PICK pages : pages = PagesIn("init")
      OBVIOUS
    <3>2. Holds(sp, pages, {}) /\ pages \in SUBSET PageSet /\ page \in pages /\ Of(va, page)
      BY <2>1, <2>3, <2>6, <2>7, <2>9, <3>1 DEF Of
    <3>3. Reached(sp, va, page.pa, Left(page, {}))
      BY <3>2, Held
    <3> QED  BY <2>4, <2>8, <3>3 DEF Reached
  <2>11. translate(sp, va) = get_base_addr(f)
    BY <2>5, <2>9, <2>10, <1>NoOffset DEF translate
  <2>12. PG_ROUND_DOWN(get_base_addr(f)) = get_base_addr(f)
    BY <2>5, PageNumber
  <2>13. fl \cup {"VALID"} \subseteq RW \cup {"VALID"}
    OBVIOUS
  <2> QED
    BY <2>1, <2>2, <2>9, <2>10, <2>11, <2>12, <2>13, ZenonT(40) DEF InContext, Reaches
(* From first_execution_init on, the state of the path is kept. *)
<1>PathKept.
    ASSUME PathInv, step \in WithContext, step' \in Late, loaded' = LoadedAt',
           spaces' = spaces, image' = image, kernel_stacks' = kernel_stacks,
           pcb'.satp = make_satp("kernel"), pcb'.sepc = TEXT_BASE_USER_VA,
           pcb'.kernel_sp = get_base_addr(kernel_stacks[InitPid]) + PAGE_SIZE
    PROVE  PathInv'
  <2> USE <1>PathKept, Zenon
  <2>1. /\ step' \notin Early /\ step' # "text" /\ step' \notin {"make_init", "map_init", "init_trapframe"}
        /\ step \notin BeforeStacks
    BY DEF Late, Second, WithContext, Early, BeforeStacks
  <2>2. make_satp("kernel")' = make_satp("kernel") /\ InitAreas' = InitAreas
    BY DEF make_satp, InitAreas
  <2>3. Len(InitAreas) = 4 /\ InitPid \in DOMAIN kernel_stacks /\ kernel_stacks[InitPid] \in Heap(image)
    BY <2>1 DEF PathInv
  <2> QED
    BY <2>1, <2>2, <2>3 DEF PathInv
<1>CalmSteps.
    /\ \A x \in Calm : x \notin Stopped \cup DOMAIN Mapping \cup Relocking /\ x \in WithContext
    /\ \A x \in Calm \ {"first_execution_init"} : x \in Late
  BY MappingSteps DEF Calm, Stopped, Relocking, WithContext, Late
(* What there is in those steps. *)
<1>CalmState.
    ASSUME SpaceInv, MapInv, step \in Calm
    PROVE  /\ HoldInv /\ PathInv /\ AreasInv /\ image \in Images
           /\ pcb.trap_context # 0 /\ NF("init") # << >> /\ NF("kernel") # << >>
           /\ \A s : Pending(s) = {}
  <2> USE <1>CalmState, Zenon
  <2>1. step \notin Stopped \cup DOMAIN Mapping \cup Relocking /\ step \in WithContext
    BY <1>CalmSteps
  <2>2. HoldInv /\ PathInv /\ AreasInv /\ image \in Images /\ \A s : Pending(s) = {}
    BY <2>1, Moving, NoPending DEF SpaceInv, Shape
  <2>3. step \in WithInit /\ step # "make_kernel"
    BY <2>1 DEF WithInit, WithContext, Late, Second
  <2>4. pcb.trap_context # 0 /\ NF("init") # << >> /\ NF("kernel") # << >>
    BY <2>1, <2>3 DEF SpaceInv, Stage
  <2> QED
    BY <2>2, <2>4
(* The trap context can be written in the kernel's space. *)
<1>ContextStorable.
    ASSUME SpaceInv, MapInv, step \in Calm
    PROVE  /\ Reaches("kernel", pcb.trap_context, pcb.trap_context, {"WRITABLE"})
           /\ step # "user" => Storable(pcb.trap_context)
  <2> USE <1>ContextStorable, Zenon
  <2>1. HoldInv /\ PathInv /\ AreasInv /\ pcb.trap_context # 0 /\ NF("kernel") # << >>
        /\ Pending("kernel") = {} /\ image \in Images
    BY <1>CalmState
  <2>2. PICK f \in Heap(image) : /\ pcb.trap_context = get_base_addr(f)
                                 /\ \A s \in SpaceNames : f \notin Range(NF(s))
    BY <2>1, <1>ContextFrame
  <2>3. f \in Nat
    BY <2>1, HeapAboveZero
  <2>4. f \notin RO("kernel")
    BY <2>2, ReadOnlyAreNodes DEF RO, SpaceNames
  <2>5. PICK va : va = get_base_addr(f)
    OBVIOUS
  <2>6. 0 < PAGE_SIZE /\ va = get_base_addr(f) + 0 /\ 0 \in Nat
    BY <2>3, <2>5, SMTT(30) DEF get_base_addr, PAGE_SIZE
  <2>7. Reaches("kernel", va, va, {"WRITABLE"})
    BY <2>1, <2>4, <2>6, ReachHeap
  <2>8. step # "user" => loaded = "kernel"
    BY <2>1 DEF PathInv, LoadedAt, Calm, Early, Relocking
  <2> QED
    BY <2>2, <2>5, <2>7, <2>8 DEF Storable
(* A step from one of them to the next. *)
<1>CalmMaps.
    ASSUME SpaceInv, MapInv, step \in Calm, step' \in Calm \ {"first_execution_init"},
           loaded' = LoadedAt', spaces' = spaces, image' = image, locked' = locked,
           kernel_stacks' = kernel_stacks, pcb'.trap_context = pcb.trap_context,
           \/ /\ step # "first_execution_init"
              /\ pcb'.satp = pcb.satp /\ pcb'.sepc = pcb.sepc /\ pcb'.kernel_sp = pcb.kernel_sp
           \/ /\ pcb'.satp = make_satp("kernel") /\ pcb'.sepc = TEXT_BASE_USER_VA
              /\ pcb'.kernel_sp = get_base_addr(kernel_stacks[InitPid]) + PAGE_SIZE
    PROVE  MapInv'
  <2> USE <1>CalmMaps, Zenon
  <2>1. /\ step \notin Stopped \cup DOMAIN Mapping \cup Relocking /\ step \in WithContext
        /\ step' \notin Stopped \cup DOMAIN Mapping \cup Relocking /\ step' \in Late
        /\ step # "first_execution_init" => step \in Late
    BY <1>CalmSteps
  <2>2. PathInv
    BY <2>1, Moving
  <2>3. /\ pcb'.satp = make_satp("kernel") /\ pcb'.sepc = TEXT_BASE_USER_VA
        /\ pcb'.kernel_sp = get_base_addr(kernel_stacks[InitPid]) + PAGE_SIZE
    BY <2>1, <2>2 DEF PathInv
  <2>4. PathInv'
    BY <2>1, <2>2, <2>3, <1>PathKept
  <2> QED
    BY <2>1, <2>4, <1>QuietMaps
(* first_execution_init *)
<1>first_execution_initMaps. ASSUME SpaceInv, MapInv, first_execution_init PROVE MapInv'
  <2> USE <1>first_execution_initMaps
  <2>1. /\ step = "first_execution_init" /\ UNCHANGED << image, spaces, loaded, locked, kernel_stacks >>
        /\ pcb' = [pcb EXCEPT !.kernel_sp = get_base_addr(kernel_stacks[InitPid]) + PAGE_SIZE,
                              !.sepc = TEXT_BASE_USER_VA, !.satp = make_satp("kernel")]
    BY Zenon DEF first_execution_init
  <2>2. step \in Calm
    BY <2>1 DEF Calm
  <2>3. /\ HoldInv /\ PathInv /\ AreasInv /\ image \in Images /\ pcb.trap_context # 0
        /\ NF("init") # << >> /\ Pending("init") = {} /\ "init" \in SpaceNames /\ RO("init") = {}
    BY <2>2, <1>CalmState, Zenon DEF SpaceNames, RO
  <2>4. Verified(spaces["init"])
    BY <2>3, Complete, <1>VerifiedHolds, Zenon
  <2>5. {} \in SUBSET RW
    OBVIOUS
  <2>6. InContext({})
    BY <2>3, <2>5, <1>ContextMapped, Zenon
  <2>7. Storable(pcb.trap_context)
    BY <2>1, <2>2, <1>ContextStorable, Zenon
  <2>8. step' = "lock_space"
    BY <2>4, <2>6, <2>7, ZenonT(40) DEF first_execution_init, Proceed, InContext
  <2>9. step' \in Calm \ {"first_execution_init"}
    BY <2>8, SMTT(30) DEF Calm
  <2>10. loaded' = LoadedAt'
    BY <2>1, <2>3, <2>8, SMTT(30) DEF PathInv, LoadedAt, Early, Relocking
  <2>11. DOMAIN pcb = {"trap_context", "kernel_sp", "sepc", "satp", "tp"}
    BY DEF SpaceInv, Shape, NoPcb
  <2>12. /\ pcb'.satp = make_satp("kernel") /\ pcb'.sepc = TEXT_BASE_USER_VA
         /\ pcb'.kernel_sp = get_base_addr(kernel_stacks[InitPid]) + PAGE_SIZE
         /\ pcb'.trap_context = pcb.trap_context
    BY <2>1, <2>11
  <2> QED
    BY <2>1, <2>2, <2>9, <2>10, <2>12, <1>CalmMaps, ZenonT(40)
(* Again *)
<1>AgainMaps. ASSUME SpaceInv, MapInv, Again PROVE MapInv'
  <2> USE <1>AgainMaps
  <2>1. /\ step = "usertrapret" /\ step' = "lock_space"
        /\ UNCHANGED << image, spaces, loaded, locked, kernel_stacks, pcb >>
    BY Zenon DEF Again
  <2>2. step \in Calm /\ step' \in Calm \ {"first_execution_init"} /\ step # "first_execution_init"
    BY <2>1 DEF Calm
  <2>3. PathInv
    BY <2>2, <1>CalmState, Zenon
  <2>4. loaded' = LoadedAt'
    BY <2>1, <2>3 DEF PathInv, LoadedAt, Early, Relocking
  <2> QED
    BY <2>1, <2>2, <2>4, <1>CalmMaps, Zenon
(* usertrapret *)
<1>usertrapretMaps. ASSUME SpaceInv, MapInv, usertrapret PROVE MapInv'
  <2> USE <1>usertrapretMaps
  <2>1. /\ step = "usertrapret" /\ pcb' = [pcb EXCEPT !.tp = Hart0]
        /\ UNCHANGED << image, spaces, loaded, locked, kernel_stacks >>
    BY Zenon DEF usertrapret, set_tp
  <2>2. step \in Calm /\ step # "user" /\ step # "first_execution_init" /\ step \in Late
    BY <2>1 DEF Calm, Late
  <2>3. PathInv /\ Storable(pcb.trap_context)
    BY <2>2, <1>CalmState, <1>ContextStorable, Zenon
  <2>4. loaded = "kernel" /\ pcb.satp = make_satp("kernel")
    BY <2>1, <2>2, <2>3, SMTT(30) DEF PathInv, LoadedAt, Early, Relocking
  <2>5. step' = "userret"
    BY <2>3, <2>4, Zenon DEF usertrapret, Proceed
  <2>6. step' \in Calm \ {"first_execution_init"} /\ loaded' = LoadedAt'
    BY <2>1, <2>4, <2>5, SMTT(30) DEF Calm, LoadedAt, Early, Relocking
  <2>7. /\ pcb'.trap_context = pcb.trap_context /\ pcb'.satp = pcb.satp /\ pcb'.sepc = pcb.sepc
        /\ pcb'.kernel_sp = pcb.kernel_sp
    <3>1. DOMAIN pcb = {"trap_context", "kernel_sp", "sepc", "satp", "tp"}
      BY DEF SpaceInv, Shape, NoPcb
    <3> QED  BY <2>1, <3>1, SMTT(30)
  <2> QED
    BY <2>1, <2>2, <2>6, <2>7, <1>CalmMaps, Zenon
(* Both spaces map the trampoline, at one address and to one frame, with   *)
(* the right to execute.                                                   *)
<1>TrampolineMapped.
    ASSUME SpaceInv, AreasInv, HoldInv, NEW s \in {"kernel", "init"}, NF(s) # << >>, Pending(s) = {},
           NEW o \in Nat, o < PAGE_SIZE, NEW va, va = TRAMPOLINE_BASE_VA + o
    PROVE  /\ Found(spaces[s], va) /\ PTE2PA(find(spaces[s], va)) = trampoline_start(image)
           /\ Reaches(s, va, trampoline_start(image) + o, {"EXECUTABLE"})
  <2> USE <1>TrampolineMapped, Zenon
  <2>1. image \in Images /\ s \in SpaceNames /\ s # "bare"
    BY DEF SpaceInv, Shape, SpaceNames
  <2>2. Holds(spaces[s], PagesIn(s), RO(s)) /\ PagesIn(s) \in SUBSET PageSet
    BY <2>1, Complete
  <2>3. PICK page, n, m : /\ page = TrampolinePage /\ n = get_number(TRAMPOLINE_BASE_VA)
                          /\ m = get_number(trampoline_start(image))
    OBVIOUS
  <2>4. page \in PagesIn(s)
    BY <2>1, <2>3, TablePages
  <2>5. page.va = get_base_addr(n) /\ page.pa = get_base_addr(m) /\ page.flags = RX \cup {"VALID"}
    BY <2>3 DEF TrampolinePage, Page
  <2>6. /\ n \in Nat /\ TRAMPOLINE_BASE_VA = get_base_addr(n)
        /\ m \in Nat /\ trampoline_start(image) = get_base_addr(m)
    BY <2>1, <2>3, Addresses, AlignedNumber
  <2>7. Path(va) = Path(page.va) /\ PG_ROUND_DOWN(trampoline_start(image) + o) = page.pa
    BY <2>5, <2>6, PathWithin
  <2>8. /\ Found(spaces[s], va) /\ PTE2PA(find(spaces[s], va)) = page.pa
        /\ flags(find(spaces[s], va)) = Left(page, RO(s))
    <3>1. PICK space, pages, ro : space = spaces[s] /\ pages = PagesIn(s) /\ ro = RO(s)
      OBVIOUS
    <3>2. Holds(space, pages, ro) /\ pages \in SUBSET PageSet /\ page \in pages /\ Of(va, page)
      BY <2>2, <2>4, <2>7, <3>1 DEF Of
    <3>3. Reached(space, va, page.pa, Left(page, ro))
      BY <3>2, Held
    <3> QED  BY <3>1, <3>3 DEF Reached
  <2>9. {"EXECUTABLE"} \cup {"VALID"} \subseteq Left(page, RO(s))
    BY <2>5 DEF Left, RX
  <2> QED
    BY <2>1, <2>5, <2>6, <2>7, <2>8, <2>9 DEF Reaches
(* userret_on_trampoline *)
<1>userretMaps. ASSUME SpaceInv, MapInv, userret_on_trampoline PROVE MapInv'
  <2> USE <1>userretMaps, Zenon
  <2>1. /\ step = "userret" /\ loaded' = "init"
        /\ UNCHANGED << image, spaces, locked, kernel_stacks, pcb >>
    BY DEF userret_on_trampoline
  <2>2. step \in Calm /\ step # "first_execution_init"
    BY <2>1 DEF Calm
  <2>3. /\ HoldInv /\ PathInv /\ AreasInv /\ image \in Images /\ pcb.trap_context # 0
        /\ NF("init") # << >> /\ NF("kernel") # << >> /\ Pending("init") = {} /\ Pending("kernel") = {}
    BY <2>2, <1>CalmState
  <2>4. PICK o, addr, tr : /\ o = image.userret /\ addr = TRAMPOLINE_BASE_VA + image.userret
                           /\ tr = TRAMPOLINE_BASE_VA
    OBVIOUS
  <2>5. o \in Nat /\ o < PAGE_SIZE
    <3>1. PICK i, t : i = image /\ t = i.trampoline
      OBVIOUS
    <3>2. i.userret \in Nat /\ t \in 1 .. PAGE_SIZE /\ i.userret < t
      BY <2>3, <3>1, LayoutAssumption
    <3>3. o \in Nat /\ t \in 1 .. PAGE_SIZE /\ o < t
      BY <2>4, <3>1, <3>2
    <3>4. PICK p : p = PAGE_SIZE /\ p \in Nat
      BY SMTT(30) DEF PAGE_SIZE
    <3>5. o < p
      BY <3>3, <3>4, SMTT(30)
    <3> QED  BY <3>3, <3>4, <3>5
  <2>6. ASSUME NEW s \in {"kernel", "init"}
        PROVE  /\ Found(spaces[s], addr) /\ PTE2PA(find(spaces[s], addr)) = trampoline_start(image)
               /\ Reaches(s, addr, trampoline_start(image) + o, {"EXECUTABLE"})
    BY <2>3, <2>4, <2>5, <1>TrampolineMapped
  <2>7. translate(spaces["init"], addr) = translate(spaces["kernel"], addr)
    BY <2>6 DEF translate
  <2>8. /\ TRAMPOLINE_BASE_VA \in Aligned /\ trampoline_start(image) \in Aligned
    BY <2>3, Addresses
  <2>9. 0 \in Nat /\ 0 < PAGE_SIZE /\ tr = TRAMPOLINE_BASE_VA + 0
    <3>1. tr \in Nat
      BY <2>4, <2>8 DEF Aligned
    <3> QED  BY <2>4, <3>1, SMTT(30) DEF PAGE_SIZE
  <2>10. Found(spaces["init"], tr) /\ PTE2PA(find(spaces["init"], tr)) = trampoline_start(image)
    BY <2>3, <2>9, <1>TrampolineMapped
  <2>11. translate(spaces["init"], tr) = trampoline_start(image)
    <3>1. offset(tr) = 0
      BY <2>4, <2>8, <1>NoOffset
    <3>2. PICK m : m = get_number(trampoline_start(image))
      OBVIOUS
    <3>3. m \in Nat /\ trampoline_start(image) = get_base_addr(m)
      BY <2>8, <3>2, AlignedNumber
    <3> QED  BY <2>10, <3>1, <3>3, <1>NoOffset DEF translate
  <2>12. Reaches("init", TRAPFRAME_BASE_USER_VA, pcb.trap_context, {"READABLE"})
    <3>1. {"READABLE"} \in SUBSET RW
      BY DEF RW
    <3> QED  BY <2>3, <3>1, <1>ContextMapped DEF InContext
  <2>13. step' = "user"
    <3>1. /\ Found(spaces["init"], addr) /\ Found(spaces["kernel"], addr)
          /\ \A s \in {"kernel", "init"} :
               Reaches(s, addr, trampoline_start(image) + image.userret, {"EXECUTABLE"})
      BY <2>4, <2>6
    <3>2. step' = IF (/\ Found(spaces["init"], addr) /\ Found(spaces["kernel"], addr)
                      /\ translate(spaces["init"], addr) = translate(spaces["kernel"], addr)
                      /\ Found(spaces["init"], tr)
                      /\ translate(spaces["init"], tr) = trampoline_start(image)
                      /\ \A s \in {"kernel", "init"} :
                           Reaches(s, addr, trampoline_start(image) + image.userret, {"EXECUTABLE"})
                      /\ Reaches("init", TRAPFRAME_BASE_USER_VA, pcb.trap_context, {"READABLE"}))
                  THEN "user" ELSE "assertion"
      BY <2>4 DEF userret_on_trampoline, Proceed
    <3> QED  BY <2>7, <2>10, <2>11, <2>12, <3>1, <3>2
  <2>14. step' \in Calm \ {"first_execution_init"} /\ loaded' = LoadedAt'
    BY <2>1, <2>13 DEF Calm, LoadedAt, Early, Relocking
  <2> QED
    BY <2>1, <2>2, <2>14, <1>CalmMaps
(* The first push of usertrap is in the kernel stack of the process. *)
<1>StackReached.
    ASSUME SpaceInv, MapInv, step = "user"
    PROVE  /\ get_number(pcb.kernel_sp - 8) = kernel_stacks[InitPid]
           /\ Reaches("kernel", pcb.kernel_sp - 8, pcb.kernel_sp - 8, {"WRITABLE"})
  <2> USE <1>StackReached, Zenon
  <2>1. step \in Calm /\ step \in Late /\ step \notin BeforeStacks
    BY DEF Calm, Late, BeforeStacks
  <2>2. HoldInv /\ PathInv /\ AreasInv /\ image \in Images /\ NF("kernel") # << >> /\ Pending("kernel") = {}
    BY <2>1, <1>CalmState
  <2>3. PICK f : f = kernel_stacks[InitPid]
    OBVIOUS
  <2>4. f \in Heap(image) /\ InitPid \in DOMAIN kernel_stacks /\ pcb.kernel_sp = get_base_addr(f) + PAGE_SIZE
    BY <2>1, <2>2, <2>3 DEF PathInv
  <2>5. f \in Nat
    BY <2>2, <2>4, HeapAboveZero
  <2>6. PICK o, va : o = PAGE_SIZE - 8 /\ va = pcb.kernel_sp - 8
    OBVIOUS
  <2>7. o \in Nat /\ o < PAGE_SIZE
    BY <2>6, SMTT(30) DEF PAGE_SIZE
  <2>8. va = get_base_addr(f) + o
    <3>1. get_base_addr(f) \in Nat
      BY <2>5, PageNumber
    <3>2. PICK b : b = get_base_addr(f) /\ b \in Nat
      BY <3>1
    <3>3. va = (b + PAGE_SIZE) - 8
      BY <2>4, <2>6, <3>2
    <3>4. va = b + o
      BY <2>6, <3>2, <3>3, SMTT(30) DEF PAGE_SIZE
    <3> QED  BY <3>2, <3>4
  <2>9. get_number(va) = f
    BY <2>5, <2>7, <2>8, PathWithin
  <2>10. Stacks(f) # {}
    BY <2>3, <2>4 DEF Stacks
  <2>11. f \notin RO("kernel")
    BY <2>4, <2>10, Apart, ReadOnlyAreNodes DEF RO, SpaceNames
  <2>12. Reaches("kernel", va, va, {"WRITABLE"})
    BY <2>2, <2>4, <2>7, <2>8, <2>11, ReachHeap
  <2> QED
    BY <2>3, <2>6, <2>9, <2>12
(* ecall *)
<1>ecallMaps. ASSUME SpaceInv, MapInv, ecall PROVE MapInv'
  <2> USE <1>ecallMaps, Zenon
  <2>1. /\ step = "user" /\ loaded' = "kernel"
        /\ UNCHANGED << image, spaces, locked, kernel_stacks, pcb >>
    BY DEF ecall
  <2>2. step \in Calm /\ step # "first_execution_init" /\ step \in Late
    BY <2>1 DEF Calm, Late
  <2>3. /\ HoldInv /\ PathInv /\ AreasInv /\ image \in Images /\ pcb.trap_context # 0
        /\ NF("init") # << >> /\ Pending("init") = {}
    BY <2>2, <1>CalmState
  <2>4. Reaches("init", TRAMPOLINE_BASE_VA, trampoline_start(image), {"EXECUTABLE"})
    <3>1. TRAMPOLINE_BASE_VA \in Aligned /\ trampoline_start(image) \in Aligned
      BY <2>3, Addresses
    <3>2. PICK tr, pa : tr = TRAMPOLINE_BASE_VA /\ pa = trampoline_start(image)
      OBVIOUS
    <3>3. 0 \in Nat /\ 0 < PAGE_SIZE /\ tr = tr + 0 /\ pa = pa + 0
      BY <3>1, <3>2, SMTT(30) DEF Aligned, PAGE_SIZE
    <3>4. Reaches("init", tr, trampoline_start(image) + 0, {"EXECUTABLE"})
      BY <2>3, <3>2, <3>3, <1>TrampolineMapped
    <3> QED  BY <3>2, <3>3, <3>4
  <2>5. Reaches("init", TRAPFRAME_BASE_USER_VA, pcb.trap_context, {"WRITABLE"})
    <3>1. {"WRITABLE"} \in SUBSET RW
      BY DEF RW
    <3> QED  BY <2>3, <3>1, <1>ContextMapped DEF InContext
  <2>6. pcb.satp = make_satp("kernel")
    BY <2>2, <2>3 DEF PathInv
  <2>7. Reaches("kernel", pcb.trap_context, pcb.trap_context, {"WRITABLE"})
    BY <2>2, <1>ContextStorable
  <2>8. step' = "usertrapret"
    BY <2>1, <2>4, <2>5, <2>6, <2>7, <1>StackReached, ZenonT(40) DEF ecall, Proceed
  <2>9. step' \in Calm \ {"first_execution_init"} /\ loaded' = LoadedAt'
    BY <2>1, <2>8 DEF Calm, LoadedAt, Early, Relocking
  <2> QED
    BY <2>1, <2>2, <2>9, <1>CalmMaps
(* The hart stops, all else stays. *)
<1>StoppedMaps.
    ASSUME MapInv, step' \in Stopped, AssertionsHold', image' = image, spaces' = spaces, pcb' = pcb
    PROVE  MapInv'
  <2> USE <1>StoppedMaps, Zenon
  <2>1. AreasInv /\ RootsInv /\ WithinInv
    BY DEF MapInv
  <2>2. AreasInv' /\ RootsInv'
    BY <2>1, SameAreas
  <2>3. WithinInv'
    BY <2>1 DEF WithinInv, PagesIn
  <2> QED
    BY <2>2, <2>3 DEF MapInv
(* OutOfFrames *)
<1>OutOfFramesMaps. ASSUME MapInv, OutOfFrames PROVE MapInv'
  <2> USE <1>OutOfFramesMaps
  <2>1. step' = "out_of_frames" /\ image' = image /\ spaces' = spaces /\ pcb' = pcb
    BY Zenon DEF OutOfFrames
  <2>2. step' \in Stopped /\ AssertionsHold'
    BY <2>1 DEF Stopped, AssertionsHold
  <2> QED
    BY <2>1, <2>2, <1>StoppedMaps, Zenon
(* The page the program starts in can be executed by the user. *)
<1>TextMapped.
    ASSUME SpaceInv, MapInv, step = "user"
    PROVE  Fetchable(TEXT_BASE_USER_VA)
  <2> USE <1>TextMapped, Zenon
  <2>1. step \in Calm /\ step \in WithContext
    BY DEF Calm, WithContext, Late
  <2>2. /\ HoldInv /\ PathInv /\ AreasInv /\ image \in Images /\ NF("init") # << >>
        /\ Pending("init") = {} /\ "init" \in SpaceNames
    BY <2>1, <1>CalmState DEF SpaceNames
  <2>3. Len(InitAreas) = 4
    BY <2>1, <2>2 DEF PathInv
  <2>4. 3 \in 1 .. Len(InitAreas)
    BY <2>3, SMT
  <2>5. PICK f \in Heap(image) : InitAreas[3] = UserArea(3, f)
    BY <2>2, <2>4 DEF AreasInv
  <2>6. PICK page : page = UserPage(3, f)
    OBVIOUS
  <2>7. page \in PagesIn("init")
    BY <2>2, <2>4, <2>5, <2>6, InitTablePages
  <2>8. page.va = get_base_addr(get_number(TEXT_BASE_USER_VA)) /\ page.flags = RX \cup {"USER"} \cup {"VALID"}
    BY <2>6 DEF UserPage, Page, UserNumber, UserPerms
  <2>9. page.va = TEXT_BASE_USER_VA
    BY <2>2, <2>8, Addresses, AlignedNumber
  <2>10. Holds(spaces["init"], PagesIn("init"), {}) /\ PagesIn("init") \in SUBSET PageSet
    BY <2>2, Complete DEF RO
  <2>11. Left(page, {}) = page.flags
    BY DEF Left
  <2>12. Found(spaces["init"], page.va) /\ flags(find(spaces["init"], page.va)) = page.flags
    <3>1. PICK space, pages, va : space = spaces["init"] /\ pages = PagesIn("init") /\ va = page.va
      OBVIOUS
    <3>2. Holds(space, pages, {}) /\ pages \in SUBSET PageSet /\ page \in pages /\ Of(va, page)
      BY <2>7, <2>10, <3>1 DEF Of
    <3>3. Reached(space, va, page.pa, Left(page, {}))
      BY <3>2, Held
    <3> QED  BY <2>11, <3>1, <3>3 DEF Reached
  <2>13. {"VALID", "EXECUTABLE", "USER"} \subseteq page.flags
    BY <2>8 DEF RX
  <2> QED
    BY <2>9, <2>12, <2>13 DEF Fetchable
(* A program of one page has no other. *)
<1>OnePage.
    ASSUME image \in Images, ~(image.initcode > PAGE_SIZE), pcb.sepc = TEXT_BASE_USER_VA,
           NEW va \in ProgramPages
    PROVE  va = TEXT_BASE_USER_VA
  <2> USE <1>OnePage, Zenon
  <2>1. PICK i, c : i = image /\ c = i.initcode
    OBVIOUS
  <2>2. i.initcode \in Nat /\ i.initcode > 0
    BY <2>1, LayoutAssumption
  <2>3. c \in Nat /\ c > 0 /\ ~(c > PAGE_SIZE)
    BY <2>1, <2>2
  <2>4. get_number(c - 1) = 0
    BY <2>3, SMTT(30) DEF get_number, PAGE_SIZE
  <2>5. PICK k \in 0 .. get_number(c - 1) : va = TEXT_BASE_USER_VA + k * PAGE_SIZE
    BY <2>1 DEF ProgramPages
  <2>6. k = 0
    BY <2>4, <2>5, SMTT(30)
  <2>7. TEXT_BASE_USER_VA \in Nat
    BY Addresses DEF Aligned
  <2>8. TEXT_BASE_USER_VA + 0 * PAGE_SIZE = TEXT_BASE_USER_VA
    BY <2>7, SMTT(30) DEF PAGE_SIZE
  <2> QED
    BY <2>5, <2>6, <2>8
(* page_fault *)
<1>page_faultMaps. ASSUME SpaceInv, MapInv, page_fault PROVE MapInv'
  <2> USE <1>page_faultMaps, Zenon
  <2>1. /\ step = "user" /\ loaded' = "kernel"
        /\ UNCHANGED << image, spaces, locked, kernel_stacks, pcb >>
    BY DEF page_fault
  <2>2. PICK va \in ProgramPages : ~Fetchable(va) /\ step' \in {"usertrapret", "page_fault"}
    BY DEF page_fault
  <2>3. step \in Calm /\ step # "first_execution_init" /\ step \in Late
    BY <2>1 DEF Calm, Late
  <2>4. PathInv /\ image \in Images
    BY <2>3, <1>CalmState, ZenonT(40)
  <2>5. CASE step' = "usertrapret"
    <3>1. step' \in Calm \ {"first_execution_init"} /\ loaded' = LoadedAt'
      BY <2>1, <2>5 DEF Calm, LoadedAt, Early, Relocking
    <3> QED  BY <2>1, <2>3, <3>1, <1>CalmMaps, ZenonT(40)
  <2>6. CASE step' = "page_fault"
    <3>1. pcb.sepc = TEXT_BASE_USER_VA
      BY <2>3, <2>4 DEF PathInv
    <3>2. image.initcode > PAGE_SIZE
      BY <2>1, <2>2, <2>4, <3>1, <1>OnePage, <1>TextMapped, ZenonT(40)
    <3>3. step' \in Stopped /\ step' # "assertion"
      BY <2>6 DEF Stopped
    <3>4. AssertionsHold'
      BY <2>1, <3>2, <3>3 DEF AssertionsHold
    <3> QED  BY <2>1, <3>3, <3>4, <1>StoppedMaps
  <2> QED
    BY <2>2, <2>5, <2>6, ZenonT(40)
<1> QED
  BY <1>verifyMaps, <1>PCB_allocateMaps, <1>first_execution_initMaps, <1>AgainMaps,
     <1>usertrapretMaps, <1>userretMaps, <1>ecallMaps, <1>OutOfFramesMaps, <1>page_faultMaps,
     ZenonT(40)

-----------------------------------------------------------------------------
(* The steps that set up a table or an area *)

(* One table changes. *)
LEMMA OneTable ==
  ASSUME HoldInv, NEW name,
         \A s \in SpaceNames \ {name} : /\ spaces'[s] = spaces[s] /\ Pending(s)' = Pending(s)
                                        /\ RO(s)' = RO(s),
         NF(name)' # << >> => Holds(spaces'[name], PagesIn(name)' \ Pending(name)', RO(name)')
  PROVE  HoldInv'
<1> USE Zenon
<1> SUFFICES ASSUME NEW s \in SpaceNames, NF(s)' # << >>
             PROVE  Holds(spaces'[s], PagesIn(s)' \ Pending(s)', RO(s)')
  BY DEF HoldInv
<1>1. CASE s = name
  BY <1>1
<1>2. CASE s # name
  <2>1. spaces'[s] = spaces[s] /\ Pending(s)' = Pending(s) /\ RO(s)' = RO(s)
    BY <1>2
  <2>2. NF(s) # << >> /\ PagesIn(s)' = PagesIn(s)
    BY <2>1 DEF NF, PagesIn
  <2> QED  BY <2>1, <2>2 DEF HoldInv
<1> QED
  BY <1>1, <1>2

\* steps outside the loops, in the kernel
Plain == {"make_kernel", "PCB_allocate", "user_stack", "text", "make_init", "init_trapframe", "lock_space"}

(* A sequence is one of its own elements. *)
LEMMA OwnRange ==
  ASSUME NEW S, NEW q \in Seq(S)
  PROVE  q \in Seq(Range(q)) /\ (Range(q) # {} => q # << >>)
<1>1. q \in Seq(Range(q))
  BY DEF Range
<1>2. q = << >> => Range(q) = {}
  BY DEF Range
<1> QED
  BY <1>1, <1>2

-----------------------------------------------------------------------------

(* One more area of the process is one more page. *)
MoreAreas(areas, f) ==
  /\ Len(InitAreas) = 3 /\ \E S : InitAreas \in Seq(S)
  /\ areas = Append(InitAreas, make_trapframe(f))

(* The roots of the tables and the areas of the init process. *)
LEMMA AllocationsMap ==
  SpaceInv /\ MapInv
  /\ ( \/ make_kernel \/ make_another \/ make_init
       \/ make_init_stack \/ make_init_text \/ init_trapframe )
  => MapInv'
<1>PlainSteps.
    \A x \in Plain : x \notin Stopped \cup DOMAIN Mapping \cup Relocking /\ x \notin Stopped \cup {"user"}
  BY MappingSteps DEF Plain, Stopped, Relocking
(* A table with its root and nothing else. *)
<1>NothingYet. DOMAIN << >> = {} /\ \A x : << x >> # << >>
  OBVIOUS
(* A table is started: none of the pages is mapped yet. *)
<1>RootMaps.
    ASSUME SpaceInv, MapInv, NEW name \in SpaceNames, NEW areas, NEW from \in Plain,
           NEW to \in DOMAIN Mapping, Mapping[to].space = name,
           AllocateRoot(name, areas, from, to),
           UNCHANGED << image, loaded, locked, op, kernel_stacks, pcb >>,
           PagesOf(areas) \in Seq(PageSet), Distinct(PagesOf(areas)), Range(PagesOf(areas)) # {},
           step' = to /\ spaces'[name].areas = areas /\ NF(name)' # << >>
             /\ (\A s \in SpaceNames \ {name} : spaces'[s] = spaces[s]) => AreasInv' /\ PathInv'
    PROVE  MapInv'
  <2> USE <1>RootMaps, Zenon
  <2>1. step = from /\ todo' = PagesOf(areas)
    BY DEF AllocateRoot
  <2>2. PICK f \in free : /\ spaces' = [spaces EXCEPT ![name] =
                                         [NoSpace EXCEPT !.areas = areas, !.nodes = Put(@, << >>, f),
                                                         !.node_frames = << f >>]]
                          /\ step' = IF Fresh(f) THEN to ELSE "assertion"
    BY DEF AllocateRoot, Proceed
  <2>3. step \notin Stopped \cup DOMAIN Mapping \cup Relocking /\ step \notin Stopped \cup {"user"}
    BY <2>1, <1>PlainSteps
  <2>4. step' = to
    BY <2>2, <2>3, FreshHeap
  <2>5. step' \notin Stopped \cup Relocking /\ step' \in DOMAIN Mapping
    BY <2>4, MappingSteps DEF Stopped, Relocking
  <2>6. DOMAIN spaces = SpaceNames /\ HoldInv /\ RootsInv
    BY <2>3, Moving DEF SpaceInv, Shape
  <2>7. PICK sp : sp = [NoSpace EXCEPT !.areas = areas, !.nodes = Put(@, << >>, f), !.node_frames = << f >>]
    OBVIOUS
  <2>8. /\ spaces'[name] = sp /\ \A s \in SpaceNames \ {name} : spaces'[s] = spaces[s]
    BY <2>2, <2>6, <2>7
  <2>9. sp.areas = areas /\ sp.node_frames = << f >> /\ sp.entries = << >> /\ sp.nodes = Put(<< >>, << >>, f)
    BY <2>7 DEF NoSpace
  <2>10. DOMAIN sp.entries = {} /\ << >> \in DOMAIN sp.nodes /\ sp.node_frames # << >>
    <3>1. DOMAIN sp.entries = {} /\ sp.node_frames # << >>
      BY <2>9, <1>NothingYet
    <3>2. << >> \in DOMAIN sp.nodes
      BY <2>9 DEF Put
    <3> QED  BY <3>1, <3>2
  <2>11. AreasInv' /\ PathInv'
    BY <2>4, <2>8, <2>9, <2>10 DEF NF
  <2>12. RootsInv'
    <3> SUFFICES ASSUME NEW s \in SpaceNames
                 PROVE  IF NF(s)' = << >> THEN spaces'[s].nodes = << >> /\ DOMAIN spaces'[s].entries = {}
                        ELSE << >> \in DOMAIN spaces'[s].nodes
      BY DEF RootsInv
    <3>1. CASE s = name
      BY <2>8, <2>10, <3>1 DEF NF
    <3>2. CASE s # name
      BY <2>6, <2>8, <3>2 DEF NF, RootsInv
    <3> QED  BY <3>1, <3>2
  <2>13. PagesIn(name)' = Range(todo') /\ Pending(name)' = Range(todo')
    BY <2>1, <2>4, <2>5, <2>8, <2>9, ZenonT(40) DEF PagesIn, Pending
  <2>14. ASSUME NEW s \in SpaceNames \ {name} PROVE Pending(s)' = Pending(s) /\ RO(s)' = RO(s)
    <3>1. Pending(s)' = {}
      BY <2>4, <2>5, <2>14 DEF Pending
    <3>2. Pending(s) = {}
      BY <2>3, NoPending
    <3>3. s = "kernel" => Range(NF("kernel"))' = Range(NF("kernel"))
      BY <2>8, <2>14 DEF NF
    <3>4. s = "kernel" => ReadOnlyNodes' = ReadOnlyNodes
      BY <2>3, <2>5, <3>3, SameLocks
    <3> QED  BY <3>1, <3>2, <3>4 DEF RO
  <2>15. Holds(spaces'[name], PagesIn(name)' \ Pending(name)', RO(name)')
    <3>1. PagesIn(name)' \ Pending(name)' = {}
      BY <2>13
    <3>2. DOMAIN sp.entries = { Path(page.va) : page \in {} }
      BY <2>10
    <3>3. \A ro : Holds(sp, {}, ro)
      BY <3>2 DEF Holds
    <3> QED  BY <2>8, <3>1, <3>3
  <2>16. HoldInv'
    BY <2>6, <2>8, <2>14, <2>15, OneTable
  <2>17. TodoInv'
    <3>1. PICK q : q = PagesOf(areas)
      OBVIOUS
    <3>2. q \in Seq(Range(q)) /\ q # << >> /\ Distinct(q)
      BY <3>1, OwnRange
    <3>3. todo' # << >> /\ todo' \in Seq(PagesIn(name)') /\ Distinct(todo)'
      BY <2>1, <2>13, <3>1, <3>2, ZenonT(40) DEF Distinct
    <3>4. step' # "lock_table" /\ step' # "load_self"
      BY <2>5 DEF Relocking
    <3> QED  BY <2>4, <3>3, <3>4 DEF TodoInv
  <2> QED
    BY <2>5, <2>11, <2>12, <2>16, <2>17, GoesOn
(* Areas, entries and nodes of the spaces, as another space is started.    *)
<1>KernelAreasOf.
    ASSUME AreasInv, image' = image, pcb' = pcb, NEW name \in {"kernel", "another"},
           spaces'[name].areas = kernel_areas,
           \A s \in SpaceNames \ {name} : spaces'[s] = spaces[s]
    PROVE  AreasInv'
  <2> USE <1>KernelAreasOf, Zenon
  <2>1. kernel_areas' = kernel_areas /\ \A k, f : UserArea(k, f)' = UserArea(k, f)
    BY ImageKept
  <2>2. "init" \in SpaceNames \ {name}
    BY DEF SpaceNames
  <2>3. InitAreas' = InitAreas /\ NF("init")' = NF("init")
    BY <2>2 DEF InitAreas, NF
  <2>4. ASSUME NEW s \in {"kernel", "another"}, NF(s)' # << >> PROVE spaces'[s].areas = kernel_areas
    <3>1. s \in SpaceNames
      BY DEF SpaceNames
    <3>2. s # name => NF(s)' = NF(s) /\ spaces'[s] = spaces[s]
      BY <3>1 DEF NF
    <3> QED  BY <2>4, <3>2 DEF AreasInv
  <2> QED
    BY <2>1, <2>3, <2>4, ZenonT(40) DEF AreasInv
<1>KernelSeq.
    ASSUME image \in Images
    PROVE  /\ PagesOf(kernel_areas) \in Seq(PageSet) /\ Distinct(PagesOf(kernel_areas))
           /\ Range(PagesOf(kernel_areas)) # {}
  BY <1>KernelSeq, KernelPages, Zenon
(* make_kernel *)
<1>make_kernelMaps. ASSUME SpaceInv, MapInv, make_kernel PROVE MapInv'
  <2> USE <1>make_kernelMaps, Zenon
  <2>1. /\ AllocateRoot("kernel", kernel_areas, "make_kernel", "map_kernel")
        /\ UNCHANGED << image, loaded, locked, op, kernel_stacks, pcb >>
    BY DEF make_kernel
  <2>2. /\ "make_kernel" \in Plain /\ "map_kernel" \in DOMAIN Mapping /\ Mapping["map_kernel"].space = "kernel"
        /\ "kernel" \in SpaceNames /\ "kernel" \in {"kernel", "another"}
    BY MappingSteps DEF Plain, SpaceNames
  <2>3. step = "make_kernel" /\ step \notin Stopped
    BY <2>1, <2>2, <1>PlainSteps DEF AllocateRoot
  <2>4. AreasInv /\ PathInv /\ image \in Images
    BY <2>3, Moving DEF SpaceInv, Shape
  <2>5. step' = "map_kernel" => PathInv'
    BY <2>1, <2>3, <2>4 DEF PathInv, LoadedAt, Early, BeforeStacks, WithContext, Late, Second
  <2> QED
    BY <2>1, <2>2, <2>4, <2>5, <1>KernelAreasOf, <1>KernelSeq, <1>RootMaps, ZenonT(40)
(* make_another *)
<1>make_anotherMaps. ASSUME SpaceInv, MapInv, make_another PROVE MapInv'
  <2> USE <1>make_anotherMaps, Zenon
  <2>1. /\ AllocateRoot("another", kernel_areas, "lock_space", "map_another")
        /\ UNCHANGED << image, loaded, locked, op, kernel_stacks, pcb >>
    BY DEF make_another
  <2>2. /\ "lock_space" \in Plain /\ "map_another" \in DOMAIN Mapping /\ Mapping["map_another"].space = "another"
        /\ "another" \in SpaceNames /\ "another" \in {"kernel", "another"}
        /\ "kernel" \in SpaceNames \ {"another"} /\ "init" \in SpaceNames \ {"another"}
    BY MappingSteps DEF Plain, SpaceNames
  <2>3. step = "lock_space" /\ step \notin Stopped
    BY <2>1, <2>2, <1>PlainSteps DEF AllocateRoot
  <2>4. AreasInv /\ PathInv /\ image \in Images
    BY <2>3, Moving DEF SpaceInv, Shape
  <2>5. ASSUME step' = "map_another", \A s \in SpaceNames \ {"another"} : spaces'[s] = spaces[s]
        PROVE  PathInv'
    <3>1. InitAreas' = InitAreas /\ make_satp("kernel")' = make_satp("kernel")
      BY <2>2, <2>5 DEF InitAreas, make_satp
    <3>2. /\ step \in Late /\ step \in WithContext /\ step \notin BeforeStacks
          /\ step' \notin Early /\ step' # "text" /\ step' \notin {"make_init", "map_init", "init_trapframe"}
      BY <2>3, <2>5 DEF Late, WithContext, BeforeStacks, Early
    <3>3. loaded' = LoadedAt'
      BY <2>1, <2>3, <2>4, <2>5 DEF PathInv, LoadedAt, Early, Relocking
    <3> QED  BY <2>1, <2>4, <3>1, <3>2, <3>3 DEF PathInv
  <2> QED
    BY <2>1, <2>2, <2>4, <2>5, <1>KernelAreasOf, <1>KernelSeq, <1>RootMaps, ZenonT(40)
(* make_init *)
<1>make_initMaps. ASSUME SpaceInv, MapInv, make_init PROVE MapInv'
  <2> USE <1>make_initMaps, Zenon
  <2>1. /\ AllocateRoot("init", InitAreas, "make_init", "map_init")
        /\ UNCHANGED << image, loaded, locked, op, kernel_stacks, pcb >>
    BY DEF make_init, InitAreas
  <2>2. /\ "make_init" \in Plain /\ "map_init" \in DOMAIN Mapping /\ Mapping["map_init"].space = "init"
        /\ "init" \in SpaceNames
        /\ "kernel" \in SpaceNames \ {"init"} /\ "another" \in SpaceNames \ {"init"}
    BY MappingSteps DEF Plain, SpaceNames
  <2>3. step = "make_init" /\ step \notin Stopped
    BY <2>1, <2>2, <1>PlainSteps DEF AllocateRoot
  <2>4. AreasInv /\ PathInv /\ image \in Images
    BY <2>3, Moving DEF SpaceInv, Shape
  <2>5. Len(InitAreas) = 3
    BY <2>3, <2>4 DEF PathInv
  <2>6. PagesOf(InitAreas) \in Seq(PageSet) /\ Distinct(PagesOf(InitAreas))
    BY <2>4, InitTablePages
  <2>7. Range(PagesOf(InitAreas)) # {}
    <3>1. 1 \in 1 .. Len(InitAreas)
      BY <2>5, SMT
    <3>2. PICK f \in Heap(image) : InitAreas[1] = UserArea(1, f)
      BY <2>4, <3>1 DEF AreasInv
    <3>3. UserPage(1, f) \in PagesIn("init")
      BY <2>4, <3>1, <3>2, InitTablePages
    <3> QED  BY <3>3 DEF PagesIn, InitAreas
  <2>8. ASSUME spaces'["init"].areas = InitAreas, \A s \in SpaceNames \ {"init"} : spaces'[s] = spaces[s]
        PROVE  AreasInv'
    <3>1. kernel_areas' = kernel_areas /\ \A k, f : UserArea(k, f)' = UserArea(k, f)
      BY <2>1, ImageKept
    <3>2. InitAreas' = InitAreas
      BY <2>8 DEF InitAreas
    <3>3. \A s \in {"kernel", "another"} : NF(s)' # << >> => spaces'[s].areas = kernel_areas
      BY <2>2, <2>4, <2>8 DEF AreasInv, NF
    <3>4. Len(InitAreas) \in {3, 4}
      BY <2>5
    <3> QED  BY <2>1, <2>4, <3>1, <3>2, <3>3, <3>4 DEF AreasInv
  <2>9. ASSUME step' = "map_init", spaces'["init"].areas = InitAreas PROVE PathInv'
    <3>1. InitAreas' = InitAreas
      BY <2>9 DEF InitAreas
    <3>2. /\ step \notin BeforeStacks
          /\ step' \notin Early /\ step' # "text" /\ step' \notin WithContext /\ step' \notin Late
      BY <2>3, <2>9 DEF Late, Second, WithContext, BeforeStacks, Early
    <3>3. loaded' = LoadedAt'
      BY <2>1, <2>3, <2>4, <2>9 DEF PathInv, LoadedAt, Early, Relocking
    <3> QED  BY <2>1, <2>4, <2>5, <3>1, <3>2, <3>3 DEF PathInv
  <2> QED
    BY <2>1, <2>2, <2>6, <2>7, <2>8, <2>9, <1>RootMaps, ZenonT(40)
(* A new area of the init process, before it has a table. *)
<1>AreaMaps.
    ASSUME SpaceInv, MapInv, step \in Plain, step' \in Plain,
           image' = image, locked' = locked, pcb' = pcb, NF("init") = << >>,
           DOMAIN spaces' = SpaceNames,
           \A s \in SpaceNames : spaces'[s].entries = spaces[s].entries /\ NF(s)' = NF(s)
                                 /\ spaces'[s].nodes = spaces[s].nodes,
           \A s \in SpaceNames \ {"init"} : spaces'[s] = spaces[s],
           pcb.trap_context = 0, Len(InitAreas)' \in 0 .. 3,
           \A k \in 1 .. Len(InitAreas)' : \E f \in Heap(image) : InitAreas'[k] = UserArea(k, f),
           PathInv'
    PROVE  MapInv'
  <2> USE <1>AreaMaps, Zenon
  <2>1. /\ step \notin Stopped \cup DOMAIN Mapping \cup Relocking
        /\ step' \notin Stopped \cup DOMAIN Mapping \cup Relocking
    BY <1>PlainSteps
  <2>2. AreasInv /\ RootsInv /\ HoldInv
    BY <2>1, Moving
  <2>3. RootsInv'
    BY <2>2, ZenonT(40) DEF RootsInv
  <2>4. AreasInv'
    <3>1. kernel_areas' = kernel_areas /\ \A k, f : UserArea(k, f)' = UserArea(k, f)
      BY ImageKept
    <3>2. /\ "kernel" \in SpaceNames \ {"init"} /\ "another" \in SpaceNames \ {"init"}
          /\ "init" \in SpaceNames
      BY DEF SpaceNames
    <3>3. \A s \in {"kernel", "another"} : NF(s)' # << >> => spaces'[s].areas = kernel_areas
      BY <2>2, <3>2, ZenonT(40) DEF AreasInv, NF
    <3>4. Len(InitAreas)' \in 0 .. 4 /\ NF("init")' = << >>
      <4>1. NF("init")' = << >>
        BY <3>2
      <4>2. Len(InitAreas)' \in 0 .. 4
        BY SMTT(30)
      <4> QED  BY <4>1, <4>2
    <3> QED  BY <3>1, <3>3, <3>4 DEF AreasInv
  <2>5. HoldInv'
    <3>1. ASSUME NEW s \in SpaceNames \ {"init"} PROVE Pending(s)' = Pending(s) /\ RO(s)' = RO(s)
      <4>1. Pending(s)' = Pending(s)
        BY <2>1, NoPending
      <4>2. Range(NF("kernel"))' = Range(NF("kernel"))
        BY DEF SpaceNames
      <4>3. ReadOnlyNodes' = ReadOnlyNodes
        BY <2>1, <4>2, SameLocks
      <4> QED  BY <4>1, <4>3 DEF RO
    <3>2. NF("init")' = << >>
      BY DEF SpaceNames
    <3> QED  BY <2>2, <3>1, <3>2, OneTable
  <2>6. TodoInv'
    BY <2>1 DEF TodoInv, Relocking
  <2> QED
    BY <2>1, <2>3, <2>4, <2>5, <2>6, GoesOn, ZenonT(40)
(* Areas that change, alone. *)
<1>OnlyAreasChange.
    ASSUME SpaceInv, NEW areas, spaces' = [spaces EXCEPT !["init"].areas = areas]
    PROVE  /\ DOMAIN spaces' = SpaceNames
           /\ \A s \in SpaceNames : spaces'[s].entries = spaces[s].entries /\ NF(s)' = NF(s)
                                    /\ spaces'[s].nodes = spaces[s].nodes
           /\ \A s \in SpaceNames \ {"init"} : spaces'[s] = spaces[s]
           /\ InitAreas' = areas
  <2> USE <1>OnlyAreasChange
  <2>1. /\ DOMAIN spaces = SpaceNames /\ "init" \in SpaceNames
        /\ DOMAIN spaces["init"] = {"areas", "nodes", "node_frames", "entries"}
    BY DEF SpaceInv, Shape, SpaceNames
  <2>2. PICK old, sp : old = spaces["init"] /\ sp = [old EXCEPT !.areas = areas]
    BY Zenon
  <2>3. sp.areas = areas /\ sp.nodes = old.nodes /\ sp.node_frames = old.node_frames /\ sp.entries = old.entries
    BY <2>1, <2>2, SMTT(30)
  <2>4. spaces' = [spaces EXCEPT !["init"] = sp]
    BY <2>2
  <2>5. DOMAIN spaces' = SpaceNames /\ spaces'["init"] = sp /\ \A s \in SpaceNames \ {"init"} : spaces'[s] = spaces[s]
    BY <2>1, <2>4, Zenon
  <2> QED
    BY <2>2, <2>3, <2>5, Zenon DEF NF, InitAreas
(* make_init's stack *)
<1>make_init_stackMaps. ASSUME SpaceInv, MapInv, make_init_stack PROVE MapInv'
  <2> USE <1>make_init_stackMaps, Zenon
  <2>1. PICK f \in free :
          /\ spaces' = [spaces EXCEPT !["init"].areas = << make_trampoline, make_initial_user_stack(f) >>]
          /\ step' = IF Fresh(f) THEN "text" ELSE "assertion"
    BY DEF make_init_stack, Proceed
  <2>2. step = "user_stack" /\ UNCHANGED << image, loaded, locked, kernel_stacks, pcb >>
    BY DEF make_init_stack
  <2>3. step \in Plain /\ step \notin Stopped \cup {"user"} /\ step \in BeforeAreas /\ step \in BeforeInit
    BY <2>2 DEF Plain, Stopped, BeforeAreas, BeforeInit
  <2>4. f \in Heap(image) /\ step' = "text"
    BY <2>1, <2>3, FreshHeap
  <2>5. AreasInv /\ PathInv /\ NF("init") = << >> /\ InitAreas = << >>
    BY <2>3, Moving DEF SpaceInv, Stage
  <2>6. pcb.trap_context = 0
    <3>1. Len(InitAreas) # 4
      BY <2>5, SMTT(30)
    <3> QED  BY <2>5, <3>1 DEF AreasInv
  <2>7. PICK areas : areas = << make_trampoline, make_initial_user_stack(f) >>
    OBVIOUS
  <2>8. /\ DOMAIN spaces' = SpaceNames
        /\ \A s \in SpaceNames : spaces'[s].entries = spaces[s].entries /\ NF(s)' = NF(s)
                                 /\ spaces'[s].nodes = spaces[s].nodes
        /\ \A s \in SpaceNames \ {"init"} : spaces'[s] = spaces[s]
        /\ InitAreas' = areas
    BY <2>1, <2>7, <1>OnlyAreasChange
  <2>9. Len(areas) = 2 /\ areas[1] = UserArea(1, f) /\ areas[2] = UserArea(2, f)
    BY <2>7 DEF UserArea
  <2>10. Len(InitAreas)' = 2 /\ Len(InitAreas)' \in 0 .. 3
    <3>1. Len(InitAreas)' = 2
      BY <2>8, <2>9
    <3> QED  BY <3>1, SMTT(30)
  <2>11. \A k \in 1 .. Len(InitAreas)' : InitAreas'[k] = UserArea(k, f)
    <3>1. \A k \in 1 .. 2 : k = 1 \/ k = 2
      BY SMT
    <3> QED  BY <2>8, <2>9, <2>10, <3>1
  <2>12. PathInv'
    <3>1. /\ step \notin BeforeStacks /\ step' \notin Early
          /\ step' \notin {"make_init", "map_init", "init_trapframe"}
          /\ step' \notin WithContext /\ step' \notin Late
      BY <2>2, <2>4 DEF Late, Second, WithContext, BeforeStacks, Early
    <3>2. loaded' = LoadedAt'
      BY <2>2, <2>4, <2>5 DEF PathInv, LoadedAt, Early, Relocking
    <3> QED  BY <2>2, <2>5, <2>10, <3>1, <3>2 DEF PathInv
  <2>13. step' \in Plain
    BY <2>4 DEF Plain
  <2> QED
    BY <2>2, <2>3, <2>4, <2>5, <2>6, <2>8, <2>10, <2>11, <2>12, <2>13, <1>AreaMaps, ZenonT(40)
(* make_init's text *)
<1>make_init_textMaps. ASSUME SpaceInv, MapInv, make_init_text PROVE MapInv'
  <2> USE <1>make_init_textMaps, Zenon
  <2>1. PICK f \in free : /\ spaces' = [spaces EXCEPT !["init"].areas = Append(@, init_text(f))]
                          /\ step' = IF Fresh(f) THEN "make_init" ELSE "assertion"
    BY DEF make_init_text, Proceed
  <2>2. step = "text" /\ UNCHANGED << image, loaded, locked, kernel_stacks, pcb >>
    BY DEF make_init_text
  <2>3. step \in Plain /\ step \notin Stopped \cup {"user"} /\ step \in BeforeInit
    BY <2>2 DEF Plain, Stopped, BeforeAreas, BeforeInit
  <2>4. f \in Heap(image) /\ step' = "make_init"
    BY <2>1, <2>3, FreshHeap
  <2>5. AreasInv /\ PathInv /\ NF("init") = << >>
    BY <2>3, Moving DEF SpaceInv, Stage
  <2>6. Len(InitAreas) = 2
    BY <2>2, <2>5 DEF PathInv
  <2>7. pcb.trap_context = 0
    <3>1. Len(InitAreas) # 4
      BY <2>6, SMTT(30)
    <3> QED  BY <2>5, <3>1 DEF AreasInv
  <2>8. PICK areas, S : areas = Append(InitAreas, init_text(f)) /\ InitAreas \in Seq(S)
    BY DEF SpaceInv, Shape
  <2>9. spaces' = [spaces EXCEPT !["init"].areas = areas]
    BY <2>1, <2>8 DEF InitAreas
  <2>10. /\ DOMAIN spaces' = SpaceNames
         /\ \A s \in SpaceNames : spaces'[s].entries = spaces[s].entries /\ NF(s)' = NF(s)
                                  /\ spaces'[s].nodes = spaces[s].nodes
         /\ \A s \in SpaceNames \ {"init"} : spaces'[s] = spaces[s]
         /\ InitAreas' = areas
    BY <2>9, <1>OnlyAreasChange
  <2>11. /\ Len(areas) = 3 /\ areas[3] = init_text(f)
         /\ \A k \in 1 .. 2 : areas[k] = InitAreas[k]
    <3>1. PICK q, x : q = InitAreas /\ x = init_text(f)
      OBVIOUS
    <3>2. q \in Seq(S) /\ Len(q) = 2 /\ areas = Append(q, x)
      BY <2>6, <2>8, <3>1
    <3>3. Len(areas) = 3 /\ areas[3] = x /\ \A k \in 1 .. 2 : areas[k] = q[k]
      BY <3>2, SMTT(30)
    <3> QED  BY <3>1, <3>3
  <2>12. init_text(f) = UserArea(3, f)
    BY DEF UserArea
  <2>13. Len(InitAreas)' = 3 /\ Len(InitAreas)' \in 0 .. 3
    <3>1. Len(InitAreas)' = 3
      BY <2>10, <2>11
    <3> QED  BY <3>1, SMTT(30)
  <2>14. \A k \in 1 .. Len(InitAreas)' : \E g \in Heap(image) : InitAreas'[k] = UserArea(k, g)
    <3>1. \A k \in 1 .. 3 : k \in 1 .. 2 \/ k = 3
      BY SMT
    <3>2. \A k \in 1 .. 2 : \E g \in Heap(image) : InitAreas[k] = UserArea(k, g)
      BY <2>5, <2>6 DEF AreasInv
    <3>3. \A k \in 1 .. 3 : \E g \in Heap(image) : areas[k] = UserArea(k, g)
      BY <2>4, <2>11, <2>12, <3>1, <3>2
    <3> QED  BY <2>10, <2>13, <3>3
  <2>15. PathInv'
    <3>1. /\ step \notin BeforeStacks /\ step' \notin Early /\ step' # "text"
          /\ step' \notin WithContext /\ step' \notin Late
      BY <2>2, <2>4 DEF Late, Second, WithContext, BeforeStacks, Early
    <3>2. loaded' = LoadedAt'
      BY <2>2, <2>4, <2>5 DEF PathInv, LoadedAt, Early, Relocking
    <3> QED  BY <2>2, <2>5, <2>13, <3>1, <3>2 DEF PathInv
  <2>16. step' \in Plain
    BY <2>4 DEF Plain
  <2> QED
    BY <2>2, <2>3, <2>5, <2>7, <2>10, <2>13, <2>14, <2>15, <2>16, <1>AreaMaps, ZenonT(40)
<1>OneMorePage.
    ASSUME image \in Images, AreasInv, NEW f \in Heap(image), NEW areas, MoreAreas(areas, f)
    PROVE  /\ Len(areas) = 4 /\ areas[4] = UserArea(4, f)
           /\ \A k \in 1 .. 4 : \E g \in Heap(image) : areas[k] = UserArea(k, g)
           /\ Pages(make_trapframe(f)) = << UserPage(4, f) >>
           /\ Range(PagesOf(areas)) = PagesIn("init") \cup {UserPage(4, f)}
           /\ UserPage(4, f) \notin PagesIn("init")
  <2> USE <1>OneMorePage, Zenon
  <2>0. PICK S : InitAreas \in Seq(S)
    BY DEF MoreAreas
  <2>1. /\ Len(areas) = 4 /\ areas[4] = make_trapframe(f) /\ \A k \in 1 .. 3 : areas[k] = InitAreas[k]
    <3>1. PICK q, x : q = InitAreas /\ x = make_trapframe(f)
      OBVIOUS
    <3>2. q \in Seq(S)
      BY <2>0, <3>1
    <3>3. Len(Append(q, x)) = Len(q) + 1 /\ Append(q, x)[Len(q) + 1] = x
      BY <3>2, SMTT(30)
    <3>4. \A k \in 1 .. Len(q) : Append(q, x)[k] = q[k]
      BY <3>2, SMTT(30)
    <3>5. Len(q) = 3 /\ 3 + 1 = 4
      BY <3>1, SMTT(30) DEF MoreAreas
    <3> QED  BY <3>1, <3>3, <3>4, <3>5 DEF MoreAreas
  <2>2. make_trapframe(f) = UserArea(4, f)
    BY DEF UserArea
  <2>3. /\ \A k \in 1 .. 4 : k \in 1 .. 3 \/ k = 4
        /\ \A k \in 1 .. 3 : k \in 1 .. 4 /\ k # 4
        /\ 4 \in 1 .. 4 /\ 4 \in 0 .. 4
    BY SMT
  <2>4. \A k \in 1 .. 3 : \E g \in Heap(image) : InitAreas[k] = UserArea(k, g)
    BY DEF AreasInv, MoreAreas
  <2>5. \A k \in 1 .. 4 : \E g \in Heap(image) : areas[k] = UserArea(k, g)
    BY <2>1, <2>2, <2>3, <2>4, ZenonT(40)
  <2>6. \A g \in Heap(image) : g \in Nat
    BY HeapAboveZero
  <2>7. PICK area : area = make_trapframe(f)
    OBVIOUS
  <2>8. Pages(area) = << UserPage(4, f) >>
    BY <2>2, <2>3, <2>6, <2>7, UserAreaPages, SMTT(30)
  <2>9. ASSUME NEW g \in Heap(image), areas[4] = UserArea(4, g) PROVE UserPage(4, g) = UserPage(4, f)
    <3>1. \A x : x \in Range(Pages(area)) <=> x = UserPage(4, f)
      BY <2>2, <2>3, <2>6, <2>7, UserAreaPages, SMTT(30)
    <3>2. area = UserArea(4, g)
      BY <2>1, <2>7, <2>9
    <3>3. \A x : x \in Range(Pages(area)) <=> x = UserPage(4, g)
      BY <2>3, <2>6, <3>2, UserAreaPages, SMTT(30)
    <3> QED  BY <3>1, <3>3
  <2>10. \A x : x \in Range(PagesOf(areas)) <=>
                  \E k \in 1 .. 4 : \E g \in Heap(image) : areas[k] = UserArea(k, g) /\ x = UserPage(k, g)
    <3>1. PICK n : n = 4
      OBVIOUS
    <3>2. UserAreas(areas, n)
      BY <2>1, <2>3, <2>5, <3>1 DEF UserAreas
    <3>3. \A x : x \in Range(PagesOf(areas)) <=>
                  \E k \in 1 .. n : \E g \in Heap(image) : areas[k] = UserArea(k, g) /\ x = UserPage(k, g)
      BY <3>2, UserPages, SMTT(30)
    <3> QED  BY <3>1, <3>3
  <2>11. \A x : x \in PagesIn("init") <=>
                  \E k \in 1 .. 3 : \E g \in Heap(image) : InitAreas[k] = UserArea(k, g) /\ x = UserPage(k, g)
    BY InitTablePages DEF MoreAreas
  <2>12. ASSUME NEW x PROVE x \in Range(PagesOf(areas)) <=> x \in PagesIn("init") \cup {UserPage(4, f)}
    <3>1. ASSUME x \in Range(PagesOf(areas)) PROVE x \in PagesIn("init") \cup {UserPage(4, f)}
      <4>1. PICK k \in 1 .. 4 : \E g \in Heap(image) : areas[k] = UserArea(k, g) /\ x = UserPage(k, g)
        BY <2>10, <3>1
      <4>2. CASE k = 4
        BY <2>9, <4>1, <4>2
      <4>3. CASE k \in 1 .. 3
        BY <2>1, <2>11, <4>1, <4>3
      <4> QED  BY <2>3, <4>2, <4>3
    <3>2. ASSUME x \in PagesIn("init") PROVE x \in Range(PagesOf(areas))
      <4>1. PICK k \in 1 .. 3 : \E g \in Heap(image) : InitAreas[k] = UserArea(k, g) /\ x = UserPage(k, g)
        BY <2>11, <3>2
      <4> QED  BY <2>1, <2>3, <2>10, <4>1
    <3>3. UserPage(4, f) \in Range(PagesOf(areas))
      BY <2>1, <2>2, <2>3, <2>10
    <3> QED  BY <3>1, <3>2, <3>3
  <2>13. Range(PagesOf(areas)) = PagesIn("init") \cup {UserPage(4, f)}
    BY <2>12
  <2>14. UserPage(4, f) \notin PagesIn("init")
    <3> SUFFICES ASSUME UserPage(4, f) \in PagesIn("init") PROVE FALSE
      OBVIOUS
    <3>1. PICK k \in 1 .. 3 : \E g \in Heap(image) : UserPage(4, f) = UserPage(k, g)
      BY <2>11
    <3>2. PICK g \in Heap(image) : UserPage(4, f) = UserPage(k, g)
      BY <3>1
    <3>3. PICK page : page = UserPage(4, f) /\ page = UserPage(k, g)
      BY <3>2
    <3>4. page.va = get_base_addr(UserNumber[4]) /\ page.va = get_base_addr(UserNumber[k])
      BY <3>3, SMTT(30) DEF UserPage, Page
    <3>5. UserNumber[4] \in Nat /\ UserNumber[k] \in Nat
      BY <2>3, UserNumbersApart, SectionPlaces
    <3>6. UserNumber[4] = UserNumber[k]
      BY <3>4, <3>5, BaseInjective
    <3> QED  BY <2>3, <3>6, UserNumbersApart
  <2> QED
    BY <2>1, <2>2, <2>5, <2>7, <2>8, <2>13, <2>14, ZenonT(40)
(* init_trapframe *)
<1>init_trapframeMaps. ASSUME SpaceInv, MapInv, init_trapframe PROVE MapInv'
  <2> USE <1>init_trapframeMaps, Zenon
  <2>1. PICK f \in free : /\ spaces' = [spaces EXCEPT !["init"].areas = Append(@, make_trapframe(f))]
                          /\ todo' = Pages(make_trapframe(f))
                          /\ pcb' = [pcb EXCEPT !.trap_context = get_base_addr(f)]
                          /\ step' = IF Fresh(f) THEN "map_trapframe" ELSE "assertion"
    BY DEF init_trapframe, Proceed
  <2>2. step = "init_trapframe" /\ UNCHANGED << image, loaded, locked, kernel_stacks >>
    BY DEF init_trapframe
  <2>3. step \in Plain /\ step \in WithInit
    BY <2>2 DEF Plain, WithInit
  <2>4. step \notin Stopped \cup {"user"} /\ step \notin Stopped \cup DOMAIN Mapping \cup Relocking
    BY <2>3, <1>PlainSteps
  <2>5. f \in Heap(image) /\ step' = "map_trapframe"
    BY <2>1, <2>4, FreshHeap
  <2>6. /\ AreasInv /\ PathInv /\ HoldInv /\ RootsInv /\ NF("init") # << >> /\ image \in Images
        /\ "init" \in SpaceNames /\ Pending("init") = {} /\ RO("init") = {}
    BY <2>3, <2>4, Moving, NoPending DEF SpaceInv, Stage, Shape, SpaceNames, RO
  <2>7. Len(InitAreas) = 3
    BY <2>2, <2>6 DEF PathInv
  <2>8. PICK areas, S : areas = Append(InitAreas, make_trapframe(f)) /\ InitAreas \in Seq(S)
    BY DEF SpaceInv, Shape
  <2>9. spaces' = [spaces EXCEPT !["init"].areas = areas]
    BY <2>1, <2>8 DEF InitAreas
  <2>10. /\ \A s \in SpaceNames : spaces'[s].entries = spaces[s].entries /\ NF(s)' = NF(s)
                                  /\ spaces'[s].nodes = spaces[s].nodes
         /\ \A s \in SpaceNames \ {"init"} : spaces'[s] = spaces[s]
         /\ InitAreas' = areas
    BY <2>9, <1>OnlyAreasChange
  <2>11. /\ Len(areas) = 4 /\ areas[4] = UserArea(4, f)
         /\ \A k \in 1 .. 4 : \E g \in Heap(image) : areas[k] = UserArea(k, g)
         /\ Pages(make_trapframe(f)) = << UserPage(4, f) >>
         /\ Range(PagesOf(areas)) = PagesIn("init") \cup {UserPage(4, f)}
         /\ UserPage(4, f) \notin PagesIn("init")
    <3>1. MoreAreas(areas, f)
      BY <2>7, <2>8 DEF MoreAreas
    <3> QED  BY <2>5, <2>6, <3>1, <1>OneMorePage
  <2>12. pcb'.trap_context = get_base_addr(f)
    <3>1. "trap_context" \in DOMAIN pcb
      BY DEF SpaceInv, Shape, NoPcb
    <3> QED  BY <2>1, <3>1
  <2>13. AreasInv'
    <3>1. kernel_areas' = kernel_areas /\ \A k, g : UserArea(k, g)' = UserArea(k, g)
      BY <2>2, ImageKept
    <3>2. "kernel" \in SpaceNames \ {"init"} /\ "another" \in SpaceNames \ {"init"}
      BY DEF SpaceNames
    <3>3. \A s \in {"kernel", "another"} : NF(s)' # << >> => spaces'[s].areas = kernel_areas
      BY <2>6, <2>10, <3>2, ZenonT(40) DEF AreasInv, NF
    <3>4. Len(InitAreas)' = 4 /\ 4 \in 0 .. 4 /\ 4 \in {3, 4}
      <4>1. Len(InitAreas)' = 4
        BY <2>10, <2>11
      <4> QED  BY <4>1, SMT
    <3>5. \A k \in 1 .. Len(InitAreas)' : \E g \in Heap(image) : InitAreas'[k] = UserArea(k, g)
      BY <2>10, <2>11, <3>4
    <3> QED  BY <2>2, <2>5, <2>10, <2>11, <2>12, <3>1, <3>3, <3>4, <3>5, ZenonT(40) DEF AreasInv
  <2>14. RootsInv'
    BY <2>6, <2>10, ZenonT(40) DEF RootsInv
  <2>15. step' \in DOMAIN Mapping /\ step' \notin Relocking /\ step' \notin Stopped /\ Mapping[step'].space = "init"
    BY <2>5, MappingSteps, ZenonT(40) DEF Relocking, Stopped
  <2>16. Range(todo') = {UserPage(4, f)} /\ todo' = << UserPage(4, f) >>
    BY <2>1, <2>11, SMTT(20) DEF Range
  <2>17. Pending("init")' = {UserPage(4, f)} /\ PagesIn("init")' = PagesIn("init") \cup {UserPage(4, f)}
    BY <2>10, <2>11, <2>15, <2>16 DEF Pending, PagesIn, InitAreas
  <2>18. HoldInv'
    <3>1. ASSUME NEW s \in SpaceNames \ {"init"} PROVE Pending(s)' = Pending(s) /\ RO(s)' = RO(s)
      <4>1. Pending(s)' = {}
        BY <2>15, <3>1 DEF Pending
      <4>2. Pending(s) = {}
        BY <2>4, NoPending
      <4>3. Range(NF("kernel"))' = Range(NF("kernel"))
        BY <2>10 DEF SpaceNames
      <4>4. ReadOnlyNodes' = ReadOnlyNodes
        BY <2>2, <2>4, <2>15, <4>3, SameLocks
      <4> QED  BY <4>1, <4>2, <4>4 DEF RO
    <3>2. PagesIn("init")' \ Pending("init")' = PagesIn("init")
      BY <2>11, <2>17
    <3>3. Holds(spaces["init"], PagesIn("init"), {})
      BY <2>6, Complete
    <3>4. Holds(spaces'["init"], PagesIn("init"), {})
      BY <2>6, <2>10, <3>3, MoreNodes
    <3>5. RO("init")' = {}
      BY DEF RO
    <3> QED  BY <2>6, <2>10, <3>1, <3>2, <3>4, <3>5, OneTable, ZenonT(40)
  <2>19. TodoInv'
    <3>1. PICK x : x = UserPage(4, f)
      OBVIOUS
    <3>2. \A T : x \in T => << x >> \in Seq(T)
      BY SMTT(30)
    <3>3. << x >> # << >> /\ Distinct(<< x >>)
      BY SMTT(30) DEF Distinct
    <3>4. x \in PagesIn("init")'
      BY <2>17, <3>1, ZenonT(40)
    <3>5. todo' # << >> /\ todo' \in Seq(PagesIn("init")') /\ Distinct(todo')
      BY <2>16, <3>1, <3>2, <3>3, <3>4, ZenonT(40)
    <3>6. step' # "lock_table" /\ step' # "load_self"
      BY <2>15 DEF Relocking
    <3>7. Distinct(todo)'
      BY <3>5 DEF Distinct
    <3> QED  BY <2>15, <3>5, <3>6, <3>7 DEF TodoInv
  <2>20. PathInv'
    <3>1. /\ step \notin BeforeStacks /\ step' \notin Early /\ step' # "text"
          /\ step' \notin {"make_init", "map_init", "init_trapframe"} /\ step' \notin Late
      BY <2>2, <2>5 DEF Late, Second, BeforeStacks, Early
    <3>2. loaded' = LoadedAt'
      BY <2>2, <2>5, <2>6 DEF PathInv, LoadedAt, Early, Relocking
    <3>3. Len(InitAreas)' = 4
      BY <2>10, <2>11
    <3> QED  BY <2>2, <2>6, <3>1, <3>2, <3>3 DEF PathInv
  <2> QED
    BY <2>13, <2>14, <2>15, <2>18, <2>19, <2>20, GoesOn, ZenonT(40)
<1> QED
  BY <1>make_kernelMaps, <1>make_anotherMaps, <1>make_initMaps, <1>make_init_stackMaps,
     <1>make_init_textMaps, <1>init_trapframeMaps, Zenon

-----------------------------------------------------------------------------
(* The loops that map *)

(* The space a loop is for. *)
LoopOf(name) == step \in DOMAIN Mapping /\ name = Mapping[step].space

(* Nodes and entries of one table change, the areas stay. *)
LEMMA SameAreasElse ==
  ASSUME AreasInv, image' = image, pcb'.trap_context = pcb.trap_context,
         \A s \in SpaceNames : spaces'[s].areas = spaces[s].areas /\ (NF(s)' # << >> => NF(s) # << >>)
  PROVE  AreasInv' /\ \A s \in SpaceNames : PagesIn(s)' = PagesIn(s)
<1> USE Zenon
<1>1. kernel_areas' = kernel_areas /\ \A k, f : UserArea(k, f)' = UserArea(k, f)
  BY ImageKept
<1>2. "init" \in SpaceNames /\ "kernel" \in SpaceNames /\ "another" \in SpaceNames
  BY DEF SpaceNames
<1>3. InitAreas' = InitAreas
  BY <1>2 DEF InitAreas
<1>4. \A s \in {"kernel", "another"} : NF(s)' # << >> => spaces'[s].areas = kernel_areas
  BY <1>2 DEF AreasInv
<1>5. AreasInv'
  BY <1>1, <1>2, <1>3, <1>4, ZenonT(40) DEF AreasInv
<1>6. \A s \in SpaceNames : PagesIn(s)' = PagesIn(s)
  BY DEF PagesIn
<1> QED
  BY <1>5, <1>6

(* Head and tail of what is still to be done. *)
LEMMA HeadTail ==
  ASSUME NEW S, NEW q \in Seq(S), q # << >>
  PROVE  /\ Head(q) \in S /\ Head(q) \in Range(q) /\ Tail(q) \in Seq(S)
         /\ Range(q) = Range(Tail(q)) \cup {Head(q)}
         /\ Len(q) = 1 <=> Tail(q) = << >>
         /\ \A i \in DOMAIN Tail(q) : i + 1 \in DOMAIN q /\ Tail(q)[i] = q[i + 1] /\ i + 1 # 1
         /\ 1 \in DOMAIN q /\ q[1] = Head(q)
<1> USE Zenon
<1>1. /\ Head(q) \in S /\ Tail(q) \in Seq(S) /\ 1 \in DOMAIN q /\ q[1] = Head(q)
      /\ Len(Tail(q)) = Len(q) - 1 /\ Len(q) \in Nat
  BY SMTT(30)
<1>2. /\ \A i \in DOMAIN Tail(q) : i + 1 \in DOMAIN q /\ Tail(q)[i] = q[i + 1] /\ i + 1 # 1
      /\ \A i \in DOMAIN q : i = 1 \/ (i - 1 \in DOMAIN Tail(q) /\ Tail(q)[i - 1] = q[i])
  BY SMTT(30)
<1>3. Len(q) = 1 <=> Tail(q) = << >>
  <2>1. PICK t : t = Tail(q)
    OBVIOUS
  <2>2. t \in Seq(S) /\ Len(t) = Len(q) - 1
    BY <1>1, <2>1
  <2>3. t = << >> <=> Len(t) = 0
    BY <2>2, SMTT(30)
  <2> QED  BY <1>1, <2>1, <2>2, <2>3, SMTT(20)
<1>4. Head(q) \in Range(q)
  BY <1>1 DEF Range
<1>5. ASSUME NEW x \in Range(q) PROVE x \in Range(Tail(q)) \cup {Head(q)}
  <2>1. PICK i \in DOMAIN q : x = q[i]
    BY DEF Range
  <2>2. CASE i = 1
    BY <1>1, <2>1, <2>2
  <2>3. CASE i - 1 \in DOMAIN Tail(q) /\ Tail(q)[i - 1] = q[i]
    BY <2>1, <2>3 DEF Range
  <2> QED  BY <1>2, <2>2, <2>3, ZenonT(40)
<1>6. ASSUME NEW x \in Range(Tail(q)) PROVE x \in Range(q)
  <2>1. PICK i \in DOMAIN Tail(q) : x = Tail(q)[i]
    BY DEF Range
  <2> QED  BY <1>2, <2>1 DEF Range
<1>7. Range(q) = Range(Tail(q)) \cup {Head(q)}
  <2>1. \A x : x \in Range(q) <=> x \in Range(Tail(q)) \cup {Head(q)}
    BY <1>4, <1>5, <1>6, ZenonT(40)
  <2> QED  BY <2>1
<1> QED
  BY <1>1, <1>2, <1>3, <1>4, <1>7

(* Entries of one table change. *)
LEMMA OnlyEntries ==
  ASSUME SpaceInv, NEW name \in SpaceNames, NEW entries,
         spaces' = [spaces EXCEPT ![name].entries = entries]
  PROVE  /\ \A s \in SpaceNames \ {name} : spaces'[s] = spaces[s]
         /\ spaces'[name].entries = entries
         /\ \A s \in SpaceNames : /\ spaces'[s].areas = spaces[s].areas /\ NF(s)' = NF(s)
                                  /\ spaces'[s].nodes = spaces[s].nodes
<1>1. DOMAIN spaces = SpaceNames /\ DOMAIN spaces[name] = {"areas", "nodes", "node_frames", "entries"}
  BY Zenon DEF SpaceInv, Shape
<1>2. PICK old, sp : old = spaces[name] /\ sp = [old EXCEPT !.entries = entries]
  BY Zenon
<1>3. sp.entries = entries /\ sp.areas = old.areas /\ sp.nodes = old.nodes /\ sp.node_frames = old.node_frames
  BY <1>1, <1>2, SMTT(30)
<1>4. spaces'[name] = sp /\ \A s \in SpaceNames \ {name} : spaces'[s] = spaces[s]
  BY <1>1, <1>2, SMTT(30)
<1> QED
  BY <1>2, <1>3, <1>4, ZenonT(40) DEF NF

(* The loops that map the pages of the areas. *)
LEMMA LoopsMap ==
  SpaceInv /\ MapInv /\ (allocate_node \/ map_one_allocate) => MapInv'
<1>LoopSpaces.
    ASSUME NEW name, LoopOf(name)
    PROVE  /\ << step, name, Mapping[step].then >> \in
                { << "map_kernel", "kernel", "verify" >>, << "map_init", "init", "init_trapframe" >>,
                  << "map_trapframe", "init", "first_execution_init" >>,
                  << "map_another", "another", "load_another" >> }
           /\ name \in SpaceNames /\ step \notin Stopped \cup Relocking
  <2> USE <1>LoopSpaces
  <2>1. << step, name, Mapping[step].then >> \in
          { << "map_kernel", "kernel", "verify" >>, << "map_init", "init", "init_trapframe" >>,
            << "map_trapframe", "init", "first_execution_init" >>,
            << "map_another", "another", "load_another" >> }
    BY SMTT(30) DEF LoopOf, Mapping
  <2>2. name \in SpaceNames /\ step \notin Stopped \cup Relocking
    BY <2>1, SMTT(30) DEF SpaceNames, Stopped, Relocking
  <2> QED
    BY <2>1, <2>2, Zenon
(* What there is in such a loop. *)
<1>InLoop.
    ASSUME SpaceInv, MapInv, NEW name, LoopOf(name)
    PROVE  /\ HoldInv /\ TodoInv /\ PathInv /\ AreasInv /\ RootsInv /\ image \in Images
           /\ name \in SpaceNames /\ NF(name) # << >> /\ RO(name) = {}
           /\ Pending(name) = Range(todo) /\ \A s \in SpaceNames \ {name} : Pending(s) = {}
           /\ PagesIn(name) \in SUBSET PageSet /\ Distinct(PagesOf(spaces[name].areas))
           /\ todo \in Seq(PagesIn(name)) /\ todo # << >> /\ Distinct(todo)
           /\ << >> \in DOMAIN spaces[name].nodes
           /\ name = "kernel" <=> step = "map_kernel"
  <2> USE <1>InLoop, Zenon
  <2>1. /\ << step, name, Mapping[step].then >> \in
             { << "map_kernel", "kernel", "verify" >>, << "map_init", "init", "init_trapframe" >>,
               << "map_trapframe", "init", "first_execution_init" >>,
               << "map_another", "another", "load_another" >> }
        /\ name \in SpaceNames /\ step \notin Stopped \cup Relocking
    BY <1>LoopSpaces
  <2>2. HoldInv /\ TodoInv /\ PathInv /\ AreasInv /\ RootsInv /\ image \in Images
    BY <2>1, Moving DEF SpaceInv, Shape
  <2>3. name = "kernel" <=> step = "map_kernel"
    BY <2>1
  <2>4. NF(name) # << >>
    <3>1. step # "make_kernel" /\ (name = "init" => step \in WithInit) /\ (name = "another" => step \in Second)
      BY <2>1 DEF WithInit, WithContext, Second
    <3> QED  BY <2>1, <3>1 DEF SpaceInv, Stage, SpaceNames
  <2>5. RO(name) = {}
    <3>1. name = "kernel" => step \in Early
      BY <2>3 DEF Early
    <3>2. name = "kernel" => ~locked
      BY <2>2, <3>1 DEF PathInv
    <3>3. name = "kernel" => ReadOnlyNodes = {}
      BY <2>1, <3>2, AllOrNone
    <3> QED  BY <3>3 DEF RO
  <2>6. Pending(name) = Range(todo) /\ \A s \in SpaceNames \ {name} : Pending(s) = {}
    BY DEF Pending, LoopOf
  <2>7. PagesIn(name) \in SUBSET PageSet /\ Distinct(PagesOf(spaces[name].areas))
    BY <2>1, <2>2, <2>4, TablePages
  <2>8. todo \in Seq(PagesIn(name)) /\ todo # << >> /\ Distinct(todo)
    BY <2>2 DEF TodoInv, LoopOf
  <2>9. << >> \in DOMAIN spaces[name].nodes
    BY <2>1, <2>2, <2>4 DEF RootsInv
  <2> QED
    BY <2>1, <2>2, <2>3, <2>4, <2>5, <2>6, <2>7, <2>8, <2>9, ZenonT(40)
(* The nodes of the table that is being filled can be written. *)
<1>NodeStorable.
    ASSUME SpaceInv, MapInv, NEW name, LoopOf(name),
           NEW path \in DOMAIN spaces[name].nodes
    PROVE  Storable(get_base_addr(spaces[name].nodes[path]))
  <2> USE <1>NodeStorable, Zenon
  <2>1. /\ HoldInv /\ PathInv /\ AreasInv /\ name \in SpaceNames
        /\ name = "kernel" <=> step = "map_kernel"
    BY <1>InLoop
  <2>2. PICK g : g = spaces[name].nodes[path]
    OBVIOUS
  <2>3. g \in Range(NF(name)) /\ NF(name) \in Seq(Heap(image))
    <3>1. Range(spaces[name].nodes) = Range(NF(name)) /\ NF(name) \in Seq(Heap(image))
      BY <2>1 DEF SpaceInv, Shape
    <3>2. g \in Range(spaces[name].nodes)
      BY <2>2 DEF Range
    <3> QED  BY <3>1, <3>2
  <2>4. g \in Heap(image)
    <3>1. PICK q : q = NF(name)
      OBVIOUS
    <3>2. q \in Seq(Heap(image)) /\ g \in Range(q)
      BY <2>3, <3>1
    <3> QED  BY <3>2, SMTT(30) DEF Range
  <2>5. name = "kernel" => loaded = "bare"
    BY <2>1 DEF PathInv, LoadedAt, Early
  <2>6. name # "kernel" => loaded = "kernel"
    BY <2>1, MappingSteps DEF PathInv, LoadedAt, Early, Relocking, LoopOf
  <2>7. name # "kernel" => g \notin Range(NF("kernel"))
    BY <2>1, <2>3, <2>4, Apart, ZenonT(40) DEF SpaceNames
  <2> QED
    BY <2>1, <2>2, <2>4, <2>5, <2>6, <2>7, StoreHeap, ZenonT(40)
(* The first missing node has its parent. *)
<1>Parent.
    ASSUME NEW space, NEW va, Missing(space, va) # {}, << >> \in DOMAIN space.nodes
    PROVE  /\ Min(Missing(space, va)) \in 1 .. 2
           /\ Node(va, Min(Missing(space, va)) - 1) \in DOMAIN space.nodes
  <2> USE <1>Parent, Zenon
  <2>1. PICK m : m = Missing(space, va)
    OBVIOUS
  <2>2. m \subseteq 1 .. 2 /\ m # {}
    BY <2>1 DEF Missing
  <2>3. PICK d : d = Min(m)
    OBVIOUS
  <2>4. \E x \in m : \A y \in m : x <= y
    <3>1. CASE 1 \in m
      BY <2>2, <3>1, SMTT(30)
    <3>2. CASE 1 \notin m
      <4>1. \A y \in m : y = 2 /\ y <= y
        BY <2>2, <3>2, SMTT(30)
      <4> QED  BY <2>2, <4>1
    <3> QED  BY <3>1, <3>2
  <2>5. d \in m /\ \A y \in m : d <= y
    BY <2>3, <2>4 DEF Min
  <2>6. d = 1 \/ (d = 2 /\ 1 \notin m)
    BY <2>2, <2>5, SMTT(30)
  <2>7. CASE d = 1
    <3>1. d - 1 = 0
      BY <2>7, SMTT(30)
    <3>2. Node(va, 0) = << >>
      BY SMT DEF Node, Path
    <3> QED  BY <2>1, <2>2, <2>3, <2>5, <3>1, <3>2
  <2>8. CASE d = 2 /\ 1 \notin m
    <3>1. d - 1 = 1 /\ 1 \in 1 .. 2
      BY <2>8, SMTT(30)
    <3>2. Node(va, 1) \in DOMAIN space.nodes
      BY <2>1, <2>8, <3>1 DEF Missing
    <3> QED  BY <2>1, <2>2, <2>3, <2>5, <3>1, <3>2
  <2> QED
    BY <2>6, <2>7, <2>8, ZenonT(40)
(* The path stays where it is, or goes on from a loop that maps. *)
<1>LoopPath.
    ASSUME PathInv, step \in DOMAIN Mapping, step' \in {step, Mapping[step].then},
           UNCHANGED << image, loaded, locked, kernel_stacks, pcb >>, InitAreas' = InitAreas,
           step \in Late => make_satp("kernel")' = make_satp("kernel")
    PROVE  PathInv'
  <2> USE <1>LoopPath, Zenon
  <2>1. PICK name : name = Mapping[step].space
    OBVIOUS
  <2>2. << step, name, Mapping[step].then >> \in
          { << "map_kernel", "kernel", "verify" >>, << "map_init", "init", "init_trapframe" >>,
            << "map_trapframe", "init", "first_execution_init" >>,
            << "map_another", "another", "load_another" >> }
    BY <2>1, <1>LoopSpaces DEF LoopOf
  <2>3. /\ step' \in Early <=> step \in Early
        /\ step' \notin Relocking /\ step \notin Relocking /\ step' # "user" /\ step # "user"
        /\ step' # "text"
        /\ step' \in {"make_init", "map_init", "init_trapframe"} =>
             step \in {"make_init", "map_init", "init_trapframe"}
        /\ step' \in WithContext => step \in WithContext
        /\ step' \in BeforeStacks <=> step \in BeforeStacks
        /\ step' \in Late <=> step \in Late
    BY <2>2 DEF Early, Relocking, WithContext, Late, Second, BeforeStacks
  <2>4. loaded' = LoadedAt'
    BY <2>3 DEF PathInv, LoadedAt
  <2> QED
    BY <2>3, <2>4 DEF PathInv
(* allocate_node *)
<1>allocate_nodeMaps. ASSUME SpaceInv, MapInv, allocate_node PROVE MapInv'
  <2> USE <1>allocate_nodeMaps, Zenon
  <2>1. PICK name, va : name = Mapping[step].space /\ va = Head(todo).va
    OBVIOUS
  <2>2. step \in DOMAIN Mapping /\ UNCHANGED << image, todo, loaded, locked, op, kernel_stacks, pcb >>
    BY DEF allocate_node
  <2>3. PICK d : d = Min(Missing(spaces[name], va))
    OBVIOUS
  <2>4. /\ Missing(spaces[name], va) # {}
        /\ \E f \in free :
             /\ spaces' = [spaces EXCEPT ![name].nodes = Put(@, Node(va, d), f),
                                         ![name].node_frames = Append(@, f)]
             /\ step' = IF (/\ Fresh(f) /\ Storable(get_base_addr(spaces[name].nodes[Node(va, d - 1)]))
                            /\ PTE2PA(make_entry(get_base_addr(f), {"VALID"})) = get_base_addr(f)
                            /\ flags(make_entry(get_base_addr(f), {"VALID"})) = {"VALID"})
                        THEN step ELSE "assertion"
    BY <2>1, <2>3 DEF allocate_node, Proceed
  <2>5. PICK f \in free :
          /\ spaces' = [spaces EXCEPT ![name].nodes = Put(@, Node(va, d), f),
                                      ![name].node_frames = Append(@, f)]
          /\ step' = IF (/\ Fresh(f) /\ Storable(get_base_addr(spaces[name].nodes[Node(va, d - 1)]))
                         /\ PTE2PA(make_entry(get_base_addr(f), {"VALID"})) = get_base_addr(f)
                         /\ flags(make_entry(get_base_addr(f), {"VALID"})) = {"VALID"})
                     THEN step ELSE "assertion"
    BY <2>4
  <2>6. /\ HoldInv /\ TodoInv /\ PathInv /\ AreasInv /\ RootsInv /\ image \in Images
        /\ name \in SpaceNames /\ NF(name) # << >> /\ RO(name) = {}
        /\ Pending(name) = Range(todo) /\ \A s \in SpaceNames \ {name} : Pending(s) = {}
        /\ << >> \in DOMAIN spaces[name].nodes /\ (name = "kernel" <=> step = "map_kernel")
    <3>1. LoopOf(name)
      BY <2>1, <2>2 DEF LoopOf
    <3> QED  BY <3>1, <1>InLoop
  <2>7. /\ step \notin Stopped \cup Relocking /\ step \notin Stopped \cup {"user"}
    BY <2>2, MappingSteps DEF Stopped, Relocking
  <2>8. Fresh(f) /\ f \in Heap(image)
    BY <2>7, FreshHeap
  <2>9. Storable(get_base_addr(spaces[name].nodes[Node(va, d - 1)]))
    <3>1. Node(va, d - 1) \in DOMAIN spaces[name].nodes
      BY <2>3, <2>4, <2>6, <1>Parent
    <3> QED  BY <2>1, <2>2, <3>1, <1>NodeStorable, ZenonT(40) DEF LoopOf
  <2>10. /\ PTE2PA(make_entry(get_base_addr(f), {"VALID"})) = get_base_addr(f)
         /\ flags(make_entry(get_base_addr(f), {"VALID"})) = {"VALID"}
    <3>1. f \in Nat
      BY <2>6, <2>8, HeapAboveZero
    <3>2. {"VALID"} \in SUBSET PTEFlags
      BY DEF PTEFlags, FlagBit
    <3> QED  BY <3>1, <3>2, EntryRoundTrip
  <2>11. step' = step
    BY <2>5, <2>8, <2>9, <2>10
  <2>12. PICK old, path : old = spaces[name] /\ path = Node(va, d)
    OBVIOUS
  <2>13. /\ \A s \in SpaceNames \ {name} : spaces'[s] = spaces[s]
         /\ spaces'[name].nodes = Put(old.nodes, path, f) /\ NF(name)' = Append(old.node_frames, f)
         /\ spaces'[name].areas = old.areas /\ spaces'[name].entries = old.entries
    <3>1. DOMAIN spaces = SpaceNames /\ DOMAIN old = {"areas", "nodes", "node_frames", "entries"}
      BY <2>6, <2>12 DEF SpaceInv, Shape
    <3>2. PICK sp : sp = [old EXCEPT !.nodes = Put(@, path, f), !.node_frames = Append(@, f)]
      OBVIOUS
    <3>3. /\ sp.nodes = Put(old.nodes, path, f) /\ sp.node_frames = Append(old.node_frames, f)
          /\ sp.areas = old.areas /\ sp.entries = old.entries
      BY <3>1, <3>2
    <3>4. spaces'[name] = sp /\ \A s \in SpaceNames \ {name} : spaces'[s] = spaces[s]
      BY <2>5, <2>6, <2>12, <3>1, <3>2, ZenonT(40)
    <3> QED  BY <3>3, <3>4 DEF NF
  <2>14. NF(name)' # << >>
    <3>1. PICK q : q = old.node_frames
      OBVIOUS
    <3>2. q \in Seq(Heap(image))
      BY <2>6, <2>12, <3>1 DEF SpaceInv, Shape, NF
    <3>3. Len(Append(q, f)) = Len(q) + 1 /\ Len(q) \in Nat
      BY <3>2, SMTT(30)
    <3>4. Append(q, f) # << >>
      BY <3>3, SMTT(30)
    <3> QED  BY <2>13, <3>1, <3>4, ZenonT(40)
  <2>15. DOMAIN spaces[name].nodes \subseteq DOMAIN spaces'[name].nodes
    BY <2>12, <2>13 DEF Put
  <2>16. AreasInv' /\ \A s \in SpaceNames : PagesIn(s)' = PagesIn(s)
    <3>1. ASSUME NEW s \in SpaceNames
          PROVE  spaces'[s].areas = spaces[s].areas /\ (NF(s)' # << >> => NF(s) # << >>)
      BY <2>6, <2>12, <2>13 DEF NF
    <3> QED  BY <2>2, <2>6, <3>1, SameAreasElse, ZenonT(40)
  <2>17. RootsInv'
    <3> SUFFICES ASSUME NEW s \in SpaceNames
                 PROVE  IF NF(s)' = << >> THEN spaces'[s].nodes = << >> /\ DOMAIN spaces'[s].entries = {}
                        ELSE << >> \in DOMAIN spaces'[s].nodes
      BY DEF RootsInv
    <3>1. CASE s = name
      BY <2>6, <2>14, <2>15, <3>1
    <3>2. CASE s # name
      BY <2>6, <2>13, <3>2, ZenonT(40) DEF NF, RootsInv
    <3> QED  BY <3>1, <3>2
  <2>18. \A s \in SpaceNames : Pending(s)' = Pending(s)
    BY <2>2, <2>11 DEF Pending
  <2>19. \A s \in SpaceNames \ {name} : RO(s)' = RO(s)
    <3>1. name # "kernel" => Range(NF("kernel"))' = Range(NF("kernel"))
      BY <2>13 DEF NF, SpaceNames
    <3>2. name # "kernel" => ReadOnlyNodes' = ReadOnlyNodes
      BY <2>2, <2>7, <2>11, <3>1, SameLocks, ZenonT(40)
    <3> QED  BY <3>2 DEF RO
  <2>20. RO(name)' = {}
    <3>1. name = "kernel" => ~locked'
      <4>1. name = "kernel" => step \in Early
        BY <2>6 DEF Early
      <4> QED  BY <2>2, <2>6, <4>1 DEF PathInv
    <3>2. name = "kernel" => ReadOnlyNodes' = {}
      BY <2>7, <2>11, <3>1, AllOrNone
    <3> QED  BY <3>2 DEF RO
  <2>21. HoldInv'
    <3>1. Holds(spaces[name], PagesIn(name) \ Pending(name), {})
      BY <2>6 DEF HoldInv
    <3>2. Holds(spaces'[name], PagesIn(name) \ Pending(name), {})
      BY <2>12, <2>13, <2>15, <3>1, MoreNodes, ZenonT(40)
    <3>3. PagesIn(name)' \ Pending(name)' = PagesIn(name) \ Pending(name)
      BY <2>6, <2>16, <2>18
    <3>4. Holds(spaces'[name], PagesIn(name)' \ Pending(name)', RO(name)')
      BY <2>20, <3>2, <3>3, ZenonT(40)
    <3> QED  BY <2>6, <2>13, <2>18, <2>19, <3>4, OneTable, ZenonT(40)
  <2>22. TodoInv'
    <3>1. step' # "lock_table" /\ step' # "load_self"
      BY <2>7, <2>11 DEF Relocking
    <3>2. todo' # << >> /\ todo' \in Seq(PagesIn(name)') /\ Distinct(todo)'
      BY <2>1, <2>2, <2>6, <2>16 DEF TodoInv, Distinct
    <3> QED  BY <2>1, <2>2, <2>11, <3>1, <3>2, ZenonT(40) DEF TodoInv
  <2>23. PathInv'
    <3>1. InitAreas' = InitAreas
      BY <2>12, <2>13 DEF InitAreas, SpaceNames
    <3>2. step \in Late => name # "kernel"
      BY <2>6 DEF Late, Second
    <3>3. step \in Late => make_satp("kernel")' = make_satp("kernel")
      BY <2>13, <3>2 DEF make_satp, SpaceNames
    <3> QED  BY <2>2, <2>6, <2>11, <3>1, <3>3, <1>LoopPath, ZenonT(40)
  <2>24. step' \notin Stopped
    BY <2>7, <2>11
  <2> QED
    BY <2>16, <2>17, <2>21, <2>22, <2>23, <2>24, GoesOn, ZenonT(40)
<1>DistinctTail.
    ASSUME NEW S, NEW q \in Seq(S), q # << >>, Distinct(q)
    PROVE  Distinct(Tail(q)) /\ Head(q) \notin Range(Tail(q))
  <2> USE <1>DistinctTail, Zenon
  <2>1. /\ \A i \in DOMAIN Tail(q) : i + 1 \in DOMAIN q /\ Tail(q)[i] = q[i + 1] /\ i + 1 # 1
        /\ 1 \in DOMAIN q /\ q[1] = Head(q) /\ Tail(q) \in Seq(S)
    BY HeadTail
  <2>2. Head(q) \notin Range(Tail(q))
    <3> SUFFICES ASSUME Head(q) \in Range(Tail(q)) PROVE FALSE
      OBVIOUS
    <3>1. PICK i \in DOMAIN Tail(q) : Head(q) = Tail(q)[i]
      BY DEF Range
    <3>2. PICK j : j = i + 1
      OBVIOUS
    <3>3. j \in DOMAIN q /\ q[j] = q[1] /\ j # 1
      BY <2>1, <3>1, <3>2
    <3> QED  BY <2>1, <3>3 DEF Distinct
  <2>3. \A i \in DOMAIN Tail(q) : i \in Nat
    BY <2>1, SMTT(30)
  <2>4. ASSUME NEW i \in DOMAIN Tail(q), NEW j \in DOMAIN Tail(q), Tail(q)[i].va = Tail(q)[j].va
        PROVE  i = j
    <3>1. PICK a, b : a = i + 1 /\ b = j + 1
      OBVIOUS
    <3>2. a \in DOMAIN q /\ b \in DOMAIN q /\ q[a].va = q[b].va
      BY <2>1, <2>4, <3>1
    <3>3. a = b
      BY <3>2 DEF Distinct
    <3> QED  BY <2>3, <3>1, <3>3, SMTT(20)
  <2> QED
    BY <2>2, <2>4 DEF Distinct
(* map_one_allocate *)
<1>map_one_allocateMaps. ASSUME SpaceInv, MapInv, map_one_allocate PROVE MapInv'
  <2> USE <1>map_one_allocateMaps, Zenon
  <2>1. PICK name, page, space : /\ name = Mapping[step].space /\ page = Head(todo)
                                 /\ space = spaces[Mapping[step].space]
    OBVIOUS
  <2>2. PICK entry, entries : /\ entry = make_entry(page.pa, page.flags)
                              /\ entries = Put(space.entries, Path(page.va), entry)
    OBVIOUS
  <2>3. /\ step \in DOMAIN Mapping /\ todo' = Tail(todo)
        /\ UNCHANGED << image, free, loaded, locked, op, kernel_stacks, pcb >>
        /\ Missing(space, page.va) = {}
    BY <2>1 DEF map_one_allocate
  <2>4. spaces' = [spaces EXCEPT ![name].entries = entries]
    BY <2>1, <2>2 DEF map_one_allocate
  <2>5. step' = IF (/\ ~is_valid(find(space, page.va))
                    /\ Storable(get_base_addr(space.nodes[Node(page.va, 2)]))
                    /\ PTE2PA(entry) = page.pa /\ flags(entry) = page.flags)
                THEN (IF Len(todo) = 1 THEN Mapping[step].then ELSE step) ELSE "assertion"
    BY <2>1, <2>2 DEF map_one_allocate, Proceed
  <2>6. /\ HoldInv /\ TodoInv /\ PathInv /\ AreasInv /\ RootsInv /\ image \in Images
        /\ name \in SpaceNames /\ NF(name) # << >> /\ RO(name) = {}
        /\ Pending(name) = Range(todo) /\ \A s \in SpaceNames \ {name} : Pending(s) = {}
        /\ PagesIn(name) \in SUBSET PageSet /\ Distinct(PagesOf(spaces[name].areas))
        /\ todo \in Seq(PagesIn(name)) /\ todo # << >> /\ Distinct(todo)
        /\ name = "kernel" <=> step = "map_kernel"
    <3>1. LoopOf(name)
      BY <2>1, <2>3 DEF LoopOf
    <3> QED  BY <3>1, <1>InLoop
  <2>7. /\ << step, name, Mapping[step].then >> \in
             { << "map_kernel", "kernel", "verify" >>, << "map_init", "init", "init_trapframe" >>,
               << "map_trapframe", "init", "first_execution_init" >>,
               << "map_another", "another", "load_another" >> }
        /\ step \notin Stopped \cup Relocking
    BY <2>1, <2>3, <1>LoopSpaces DEF LoopOf
  <2>8. /\ page \in PagesIn(name) /\ page \in Range(todo) /\ Range(todo) = Range(todo') \cup {page}
        /\ page \notin Range(todo') /\ todo' \in Seq(PagesIn(name)) /\ Distinct(todo')
        /\ Len(todo) = 1 <=> todo' = << >>
    BY <2>1, <2>3, <2>6, HeadTail, <1>DistinctTail
  <2>9. PICK pages : pages = PagesIn(name) \ Pending(name)
    OBVIOUS
  <2>10. pages \in SUBSET PageSet /\ Holds(space, pages, {}) /\ page \in PageSet
    BY <2>1, <2>6, <2>8, <2>9 DEF HoldInv
  <2>11. \A x \in pages : x.va # page.va
    <3>1. \A x \in PagesIn(name) : x.va = page.va => x = page
      <4>1. PICK q : q = PagesOf(spaces[name].areas)
        OBVIOUS
      <4>2. Distinct(q) /\ PagesIn(name) = Range(q)
        BY <2>6, <4>1 DEF PagesIn
      <4>3. \A x \in Range(q) : \A y \in Range(q) : x.va = y.va => x = y
        BY <4>2 DEF Distinct, Range
      <4> QED  BY <2>8, <4>2, <4>3
    <3> QED  BY <2>6, <2>8, <2>9, <3>1
  <2>12. /\ \A s \in SpaceNames \ {name} : spaces'[s] = spaces[s]
         /\ spaces'[name].entries = entries
         /\ \A s \in SpaceNames : /\ spaces'[s].areas = spaces[s].areas /\ NF(s)' = NF(s)
                                  /\ spaces'[s].nodes = spaces[s].nodes
    BY <2>4, <2>6, OnlyEntries
  <2>13. PICK next : next = spaces'[name]
    OBVIOUS
  <2>14. next.nodes = space.nodes /\ next.entries = Put(space.entries, Path(page.va), make_entry(page.pa, page.flags))
    BY <2>1, <2>2, <2>6, <2>12, <2>13
  <2>15. get_number(page.pa) \notin {}
    OBVIOUS
  <2>16. Holds(next, pages \cup {page}, {}) /\ find(space, page.va) = 0
    BY <2>3, <2>10, <2>11, <2>14, <2>15, MapOne, ZenonT(40)
  <2>17. ~is_valid(find(space, page.va))
    BY <2>16, NoEntry
  <2>18. Storable(get_base_addr(space.nodes[Node(page.va, 2)]))
    <3>1. 2 \in 1 .. 2
      BY SMT
    <3>2. Node(page.va, 2) \in DOMAIN space.nodes
      BY <2>3, <3>1 DEF Missing
    <3> QED  BY <2>1, <2>3, <3>2, <1>NodeStorable, ZenonT(40) DEF LoopOf
  <2>19. PTE2PA(entry) = page.pa /\ flags(entry) = page.flags
    <3>1. page.flags \in SUBSET PTEFlags
      BY <2>10, PageParts
    <3> QED  BY <2>2, <2>10, <3>1, PageEntry
  <2>20. step' = IF Len(todo) = 1 THEN Mapping[step].then ELSE step
    BY <2>5, <2>17, <2>18, <2>19
  <2>21. /\ step' \in {step, Mapping[step].then} /\ step' \notin Stopped \cup Relocking
         /\ Mapping[step].then \notin DOMAIN Mapping
    BY <2>7, <2>20, MappingSteps DEF Stopped, Relocking
  <2>22. AreasInv' /\ \A s \in SpaceNames : PagesIn(s)' = PagesIn(s)
    BY <2>3, <2>6, <2>12, SameAreasElse
  <2>23. RootsInv'
    <3> SUFFICES ASSUME NEW s \in SpaceNames
                 PROVE  IF NF(s)' = << >> THEN spaces'[s].nodes = << >> /\ DOMAIN spaces'[s].entries = {}
                        ELSE << >> \in DOMAIN spaces'[s].nodes
      BY DEF RootsInv
    <3>1. CASE s = name
      BY <2>6, <2>12, <3>1 DEF RootsInv
    <3>2. CASE s # name
      BY <2>6, <2>12, <3>2 DEF RootsInv
    <3> QED  BY <3>1, <3>2
  <2>24. Pending(name)' = Range(todo') /\ \A s \in SpaceNames \ {name} : Pending(s)' = {}
    <3>1. CASE Len(todo) = 1
      <4>1. step' \notin DOMAIN Mapping /\ todo' = << >>
        BY <2>8, <2>20, <2>21, <3>1
      <4>2. Range(<< >>) = {}
        BY SMT DEF Range
      <4> QED  BY <4>1, <4>2, NoPending
    <3>2. CASE Len(todo) # 1
      <4>1. step' = step
        BY <2>20, <3>2
      <4> QED  BY <2>1, <2>3, <4>1 DEF Pending
    <3> QED  BY <3>1, <3>2
  <2>25. ReadOnlyNodes' = ReadOnlyNodes
    <3>1. Range(NF("kernel"))' = Range(NF("kernel"))
      BY <2>12 DEF SpaceNames
    <3> QED  BY <2>3, <2>7, <2>21, <3>1, SameLocks
  <2>26. HoldInv'
    <3>1. PagesIn(name)' \ Pending(name)' = pages \cup {page}
      <4>1. \A x : x \in PagesIn(name)' \ Pending(name)' <=> x \in pages \cup {page}
        BY <2>6, <2>8, <2>9, <2>22, <2>24
      <4> QED  BY <4>1
    <3>2. \A s \in SpaceNames : RO(s)' = RO(s)
      BY <2>25 DEF RO
    <3>3. Holds(spaces'[name], PagesIn(name)' \ Pending(name)', RO(name)')
      BY <2>6, <2>13, <2>16, <3>1, <3>2
    <3> QED  BY <2>6, <2>12, <2>24, <3>2, <3>3, OneTable, ZenonT(40)
  <2>27. TodoInv'
    <3>1. step' # "lock_table" /\ step' # "load_self"
      BY <2>21 DEF Relocking
    <3>2. step' \in DOMAIN Mapping => step' = step /\ todo' # << >>
      BY <2>8, <2>20, <2>21
    <3>3. todo' \in Seq(PagesIn(name)') /\ Distinct(todo)'
      BY <2>6, <2>8, <2>22 DEF Distinct
    <3> QED  BY <2>1, <3>1, <3>2, <3>3 DEF TodoInv
  <2>28. PathInv'
    <3>1. InitAreas' = InitAreas /\ make_satp("kernel")' = make_satp("kernel")
      BY <2>12 DEF InitAreas, make_satp, SpaceNames
    <3> QED  BY <2>3, <2>6, <2>21, <3>1, <1>LoopPath
  <2>29. step' \notin Stopped
    BY <2>21
  <2> QED
    BY <2>22, <2>23, <2>26, <2>27, <2>28, <2>29, GoesOn, ZenonT(40)
<1> QED
  BY <1>allocate_nodeMaps, <1>map_one_allocateMaps, Zenon

-----------------------------------------------------------------------------

(* lock_space and unlock_space. *)
LEMMA RelockingMaps ==
  SpaceInv /\ MapInv /\ (load_another \/ lock_table \/ load_self) => MapInv'
<1>DifferentTail.
    ASSUME NEW S, NEW q \in Seq(S), q # << >>,
           \A i \in DOMAIN q : \A j \in DOMAIN q : q[i] = q[j] => i = j
    PROVE  /\ \A i \in DOMAIN Tail(q) : \A j \in DOMAIN Tail(q) : Tail(q)[i] = Tail(q)[j] => i = j
           /\ Head(q) \notin Range(Tail(q))
  <2> USE <1>DifferentTail, Zenon
  <2>1. /\ \A i \in DOMAIN Tail(q) : i + 1 \in DOMAIN q /\ Tail(q)[i] = q[i + 1] /\ i + 1 # 1
        /\ 1 \in DOMAIN q /\ q[1] = Head(q) /\ Tail(q) \in Seq(S)
    BY HeadTail
  <2>2. Head(q) \notin Range(Tail(q))
    <3> SUFFICES ASSUME Head(q) \in Range(Tail(q)) PROVE FALSE
      OBVIOUS
    <3>1. PICK i \in DOMAIN Tail(q) : Head(q) = Tail(q)[i]
      BY DEF Range
    <3>2. PICK j : j = i + 1
      OBVIOUS
    <3>3. j \in DOMAIN q /\ q[j] = q[1] /\ j # 1
      BY <2>1, <3>1, <3>2
    <3> QED  BY <2>1, <3>3
  <2>3. \A i \in DOMAIN Tail(q) : i \in Nat
    BY <2>1, SMTT(30)
  <2>4. ASSUME NEW i \in DOMAIN Tail(q), NEW j \in DOMAIN Tail(q), Tail(q)[i] = Tail(q)[j]
        PROVE  i = j
    <3>1. i + 1 = j + 1
      BY <2>1, <2>4
    <3> QED  BY <2>3, <3>1, SMTT(30)
  <2> QED
    BY <2>2, <2>4
(* lock_space and unlock_space *)

(* The state of the path while the nodes are locked or unlocked. *)
<1>SecondPath.
    ASSUME PathInv, step \in Second, step' \in Second \cup {"usertrapret"}, loaded' = LoadedAt',
           UNCHANGED << image, kernel_stacks, pcb >>, InitAreas' = InitAreas,
           make_satp("kernel")' = make_satp("kernel")
    PROVE  PathInv'
  <2> USE <1>SecondPath
  <2>1. /\ step' \notin Early /\ step' # "text" /\ step' \notin {"make_init", "map_init", "init_trapframe"}
        /\ step \notin BeforeStacks /\ step \in WithContext /\ step \in Late
    BY DEF Late, Second, WithContext, Early, BeforeStacks
  <2> QED
    BY <2>1, Zenon DEF PathInv
(* load_another *)
<1>load_anotherMaps. ASSUME SpaceInv, MapInv, load_another PROVE MapInv'
  <2> USE <1>load_anotherMaps, Zenon
  <2>1. /\ step = "load_another" /\ loaded' = "another" /\ todo' = NF("kernel") /\ step' = "lock_table"
        /\ UNCHANGED << image, free, spaces, locked, op, kernel_stacks, pcb >>
    BY DEF load_another, NF
  <2>2. /\ step \notin Stopped \cup DOMAIN Mapping \cup Relocking
        /\ step' \notin Stopped \cup DOMAIN Mapping /\ step \in Second /\ step' \in Second
        /\ step # "make_kernel"
    BY <2>1, MappingSteps DEF Stopped, Relocking, Second
  <2>3. /\ HoldInv /\ PathInv /\ AreasInv /\ RootsInv /\ NF("kernel") # << >>
        /\ NF("kernel") \in Seq(Heap(image)) /\ "kernel" \in SpaceNames
    BY <2>2, Moving DEF SpaceInv, Shape, Stage, SpaceNames
  <2>4. AreasInv' /\ RootsInv'
    BY <2>1, <2>3, SameAreas
  <2>5. ReadOnlyNodes' = ReadOnlyNodes
    <3>1. NF("kernel")' = NF("kernel")
      BY <2>1 DEF NF
    <3>2. step \notin {"lock_table", "load_self"} /\ step' = "lock_table"
      BY <2>1
    <3>3. \A f : f \in ReadOnlyNodes <=> f \in Range(NF("kernel")) /\ locked
      BY <3>2 DEF ReadOnlyNodes, NF
    <3>4. \A f : f \in ReadOnlyNodes' <=> f \in Range(NF("kernel")')
                                               /\ (IF f \in Range(todo') THEN locked' ELSE op' = "lock")
      BY <3>2 DEF ReadOnlyNodes, NF
    <3>5. \A f : f \in ReadOnlyNodes' <=> f \in ReadOnlyNodes
      BY <2>1, <3>1, <3>3, <3>4
    <3> QED  BY <3>5
  <2>6. \A s \in SpaceNames : Pending(s)' = Pending(s)
    BY <2>2, NoPending
  <2>7. HoldInv'
    BY <2>1, <2>3, <2>5, <2>6, SameHolds
  <2>8. TodoInv'
    <3>1. PICK q : q = NF("kernel")
      OBVIOUS
    <3>2. q \in Seq(Heap(image)) /\ q # << >>
      BY <2>3, <3>1
    <3>3. q \in Seq(Range(q)) /\ \A i \in DOMAIN q : q[i] \in Heap(image)
      <4>1. q \in Seq(Range(q))
        BY <3>2, OwnRange
      <4>2. \A i \in DOMAIN q : q[i] \in Heap(image)
        BY <3>2, SMTT(30)
      <4> QED  BY <4>1, <4>2
    <3>4. \A i \in DOMAIN q : \A j \in DOMAIN q : q[i] = q[j] => i = j
      BY <2>3, <3>1, <3>3, Apart
    <3>5. todo' = q /\ NF("kernel")' = q
      BY <2>1, <3>1 DEF NF
    <3>6. step' \notin DOMAIN Mapping /\ step' # "load_self"
      BY <2>1, <2>2
    <3> QED  BY <3>2, <3>3, <3>4, <3>5, <3>6 DEF TodoInv
  <2>9. loaded' = LoadedAt'
    BY <2>1 DEF LoadedAt, Early, Relocking
  <2>10. PathInv'
    <3>1. InitAreas' = InitAreas /\ make_satp("kernel")' = make_satp("kernel")
      BY <2>1 DEF InitAreas, make_satp
    <3> QED  BY <2>1, <2>2, <2>3, <2>9, <3>1, <1>SecondPath
  <2> QED
    BY <2>2, <2>4, <2>7, <2>8, <2>10, GoesOn, ZenonT(40)
(* The nodes that are read-only while lock_table goes through them. *)
<1>WhileRelocking.
    /\ step \in Relocking => \A g : g \in ReadOnlyNodes <=> g \in Range(NF("kernel"))
                                      /\ (IF g \in Range(todo) THEN locked ELSE op = "lock")
    /\ step' \in Relocking => \A g : g \in ReadOnlyNodes' <=> g \in Range(NF("kernel")')
                                      /\ (IF g \in Range(todo') THEN locked' ELSE op' = "lock")
  BY ZenonT(40) DEF ReadOnlyNodes, NF, Relocking
(* lock_table *)
<1>lock_tableMaps. ASSUME SpaceInv, MapInv, lock_table PROVE MapInv'
  <2> USE <1>lock_tableMaps, Zenon
  <2>1. PICK kernel, f, va, old : /\ kernel = spaces["kernel"] /\ f = Head(todo) /\ va = get_base_addr(Head(todo))
                                  /\ old = find(spaces["kernel"], get_base_addr(Head(todo)))
    OBVIOUS
  <2>2. PICK fl, entries : /\ fl = IF op = "lock" THEN flags(old) \ {"WRITABLE"} ELSE flags(old) \cup {"WRITABLE"}
                           /\ entries = Put(kernel.entries, Path(va), make_entry(PTE2PA(old), fl))
    OBVIOUS
  <2>3. /\ step = "lock_table" /\ todo' = Tail(todo)
        /\ UNCHANGED << image, free, loaded, locked, op, kernel_stacks, pcb >>
    BY DEF lock_table
  <2>4. spaces' = [spaces EXCEPT !["kernel"].entries = entries]
    BY <2>1, <2>2 DEF lock_table
  <2>5. step' = IF Found(kernel, va) /\ Storable(get_base_addr(kernel.nodes[Node(va, 2)]))
                THEN (IF Len(todo) = 1 THEN "load_self" ELSE step) ELSE "assertion"
    BY <2>1 DEF lock_table, Proceed
  <2>6. /\ step \notin Stopped \cup DOMAIN Mapping /\ step \in Second /\ step \in Relocking
        /\ step # "make_kernel"
    BY <2>3, MappingSteps DEF Stopped, Relocking, Second
  <2>7. /\ HoldInv /\ TodoInv /\ PathInv /\ AreasInv /\ RootsInv /\ NF("kernel") # << >>
        /\ NF("kernel") \in Seq(Heap(image)) /\ "kernel" \in SpaceNames /\ image \in Images
        /\ "kernel" \in {"kernel", "another"}
    BY <2>6, Moving DEF SpaceInv, Shape, Stage, SpaceNames
  <2>8. /\ todo # << >> /\ todo \in Seq(Range(NF("kernel")))
        /\ \A i \in DOMAIN todo : \A j \in DOMAIN todo : todo[i] = todo[j] => i = j
    BY <2>3, <2>7 DEF TodoInv
  <2>9. /\ f \in Range(NF("kernel")) /\ Range(todo) = Range(todo') \cup {f} /\ f \notin Range(todo')
        /\ todo' \in Seq(Range(NF("kernel"))) /\ (Len(todo) = 1 <=> todo' = << >>)
        /\ \A i \in DOMAIN todo' : \A j \in DOMAIN todo' : todo'[i] = todo'[j] => i = j
    BY <2>1, <2>3, <2>8, HeadTail, <1>DifferentTail, ZenonT(30)
  <2>10. \A g \in Range(NF("kernel")) : g \in Heap(image)
    <3>1. PICK q : q = NF("kernel")
      OBVIOUS
    <3>2. q \in Seq(Heap(image))
      BY <2>7, <3>1
    <3>3. \A g \in Range(q) : g \in Heap(image)
      BY <3>2, SMTT(30) DEF Range
    <3> QED  BY <3>1, <3>3
  <2>11. f \in Heap(image) /\ f \in Nat
    BY <2>7, <2>9, <2>10, HeapAboveZero
  <2>12. Pending("kernel") = {}
    BY <2>6, NoPending
  <2>13. PICK pages, ro : pages = PagesIn("kernel") /\ ro = ReadOnlyNodes
    OBVIOUS
  <2>14. Holds(kernel, pages, ro) /\ pages \in SUBSET PageSet
    BY <2>1, <2>7, <2>12, <2>13, Complete DEF RO
  <2>15. PICK page : page = Page(f, f, RW)
    OBVIOUS
  <2>16. /\ page \in pages
         /\ \A x \in pages : get_number(x.pa) = f => x = page
    BY <2>7, <2>11, <2>13, <2>15, KernelTablePages
  <2>17. page.va = va /\ page.pa = va /\ page.flags = RW \cup {"VALID"}
    BY <2>1, <2>15 DEF Page
  <2>18. get_number(page.pa) = f
    BY <2>1, <2>11, <2>17, PageNumber
  <2>19. Path(va) = Path(page.va)
    BY <2>17
  <2>20. Found(kernel, va) /\ PTE2PA(old) = page.pa /\ flags(old) = Left(page, ro)
    <3>1. Of(va, page)
      BY <2>19 DEF Of
    <3>2. Reached(kernel, va, page.pa, Left(page, ro))
      BY <2>14, <2>16, <3>1, Held
    <3> QED  BY <2>1, <3>2 DEF Reached
  <2>21. Storable(get_base_addr(kernel.nodes[Node(va, 2)]))
    <3>1. PICK g : g = kernel.nodes[Node(va, 2)]
      OBVIOUS
    <3>2. g \in Range(kernel.nodes)
      BY <2>20, <3>1 DEF Found, Range
    <3>3. Range(kernel.nodes) = Range(NF("kernel"))
      BY <2>1, <2>7 DEF SpaceInv, Shape
    <3>4. loaded = "another"
      BY <2>3, <2>7 DEF PathInv, LoadedAt, Early, Relocking
    <3> QED  BY <2>7, <2>10, <3>1, <3>2, <3>3, <3>4, StoreHeap, ZenonT(40)
  <2>22. step' = IF Len(todo) = 1 THEN "load_self" ELSE "lock_table"
    BY <2>3, <2>5, <2>20, <2>21
  <2>23. /\ step' \in Relocking /\ step' \in Second /\ step' \notin Stopped \cup DOMAIN Mapping
         /\ step' = "load_self" => Len(todo) = 1
         /\ step' = "lock_table" => Len(todo) # 1
    BY <2>22, MappingSteps DEF Relocking, Second, Stopped
  <2>24. /\ \A s \in SpaceNames \ {"kernel"} : spaces'[s] = spaces[s]
         /\ spaces'["kernel"].entries = entries
         /\ \A s \in SpaceNames : /\ spaces'[s].areas = spaces[s].areas /\ NF(s)' = NF(s)
                                  /\ spaces'[s].nodes = spaces[s].nodes
    BY <2>4, <2>7, OnlyEntries
  <2>25. PICK next, to : next = spaces'["kernel"] /\ to = ReadOnlyNodes'
    OBVIOUS
  <2>26. \A g : g \in ro <=> g \in Range(NF("kernel")) /\ (IF g \in Range(todo) THEN locked ELSE op = "lock")
    BY <2>6, <2>13, <1>WhileRelocking
  <2>27. \A g : g \in to <=> g \in Range(NF("kernel")) /\ (IF g \in Range(todo') THEN locked ELSE op = "lock")
    <3>1. NF("kernel")' = NF("kernel")
      BY <2>7, <2>24
    <3>2. \A g : g \in ReadOnlyNodes' <=> g \in Range(NF("kernel")')
                                      /\ (IF g \in Range(todo') THEN locked' ELSE op' = "lock")
      BY <2>23, <1>WhileRelocking
    <3> QED  BY <2>3, <2>25, <3>1, <3>2
  <2>28. \A g : g # f => (g \in to <=> g \in ro)
    BY <2>9, <2>26, <2>27
  <2>29. f \in to <=> op = "lock"
    BY <2>9, <2>27
  <2>30. fl = Left(page, to)
    <3>1. flags(old) = page.flags \/ flags(old) = page.flags \ {"WRITABLE"}
      BY <2>20 DEF Left
    <3>2. "WRITABLE" \in page.flags
      BY <2>17 DEF RW
    <3>3. CASE op = "lock"
      <4>1. Left(page, to) = page.flags \ {"WRITABLE"}
        BY <2>18, <2>29, <3>3 DEF Left
      <4>2. fl = flags(old) \ {"WRITABLE"}
        BY <2>2, <3>3
      <4> QED  BY <3>1, <4>1, <4>2
    <3>4. CASE op # "lock"
      <4>1. Left(page, to) = page.flags
        BY <2>18, <2>29, <3>4 DEF Left
      <4>2. fl = flags(old) \cup {"WRITABLE"}
        BY <2>2, <3>4
      <4> QED  BY <3>1, <3>2, <4>1, <4>2
    <3> QED  BY <3>3, <3>4
  <2>31. /\ next.nodes = kernel.nodes
         /\ next.entries = Put(kernel.entries, Path(page.va), make_entry(page.pa, Left(page, to)))
    BY <2>1, <2>2, <2>7, <2>17, <2>20, <2>24, <2>25, <2>30, ZenonT(40)
  <2>32. Holds(next, pages, to)
    BY <2>14, <2>16, <2>18, <2>28, <2>31, Relock, ZenonT(40)
  <2>33. AreasInv' /\ \A s \in SpaceNames : PagesIn(s)' = PagesIn(s)
    BY <2>3, <2>7, <2>24, SameAreasElse
  <2>34. RootsInv'
    <3> SUFFICES ASSUME NEW s \in SpaceNames
                 PROVE  IF NF(s)' = << >> THEN spaces'[s].nodes = << >> /\ DOMAIN spaces'[s].entries = {}
                        ELSE << >> \in DOMAIN spaces'[s].nodes
      BY DEF RootsInv
    <3>1. CASE s = "kernel"
      BY <2>7, <2>24, <3>1 DEF RootsInv
    <3>2. CASE s # "kernel"
      BY <2>7, <2>24, <3>2 DEF RootsInv
    <3> QED  BY <3>1, <3>2
  <2>35. HoldInv'
    <3>1. \A s : Pending(s)' = {} /\ Pending(s) = {}
      BY <2>6, <2>23, NoPending
    <3>2. \A s \in SpaceNames \ {"kernel"} : RO(s)' = RO(s)
      BY DEF RO
    <3>3. PagesIn("kernel")' \ Pending("kernel")' = pages
      BY <2>7, <2>13, <2>33, <3>1
    <3>4. Holds(spaces'["kernel"], PagesIn("kernel")' \ Pending("kernel")', RO("kernel")')
      BY <2>25, <2>32, <3>3 DEF RO
    <3> QED  BY <2>7, <2>24, <3>1, <3>2, <3>4, OneTable, ZenonT(40)
  <2>36. TodoInv'
    <3>1. NF("kernel")' = NF("kernel")
      BY <2>7, <2>24
    <3>2. /\ step' = "lock_table" => todo' # << >>
          /\ step' = "load_self" => todo' = << >>
      BY <2>9, <2>23
    <3>3. step' \notin DOMAIN Mapping
      BY <2>23
    <3> QED  BY <2>9, <3>1, <3>2, <3>3, ZenonT(40) DEF TodoInv
  <2>37. loaded' = LoadedAt'
    BY <2>3, <2>7, <2>22 DEF PathInv, LoadedAt, Early, Relocking
  <2>38. PathInv'
    <3>1. InitAreas' = InitAreas /\ make_satp("kernel")' = make_satp("kernel")
      BY <2>24 DEF InitAreas, make_satp, SpaceNames
    <3> QED  BY <2>3, <2>6, <2>7, <2>23, <2>37, <3>1, <1>SecondPath, ZenonT(40)
  <2>39. step' \notin Stopped
    BY <2>23
  <2> QED
    BY <2>33, <2>34, <2>35, <2>36, <2>38, <2>39, GoesOn
(* load_self *)
<1>load_selfMaps. ASSUME SpaceInv, MapInv, load_self PROVE MapInv'
  <2> USE <1>load_selfMaps, Zenon
  <2>1. /\ step = "load_self" /\ loaded' = "kernel" /\ locked' = (op = "lock") /\ step' = "usertrapret"
        /\ spaces' = [spaces EXCEPT !["another"] = NoSpace]
        /\ UNCHANGED << image, todo, op, kernel_stacks, pcb >>
    BY DEF load_self
  <2>2. /\ step \notin Stopped \cup DOMAIN Mapping /\ step \in Second /\ step \in Relocking
        /\ step' \notin Stopped \cup DOMAIN Mapping \cup Relocking
    BY <2>1, MappingSteps DEF Stopped, Relocking, Second
  <2>3. HoldInv /\ TodoInv /\ PathInv /\ AreasInv /\ RootsInv /\ DOMAIN spaces = SpaceNames
    BY <2>2, Moving DEF SpaceInv, Shape
  <2>4. /\ "another" \in SpaceNames /\ "kernel" \in SpaceNames \ {"another"} /\ "init" \in SpaceNames \ {"another"}
        /\ "kernel" # "another"
    BY DEF SpaceNames
  <2>5. spaces'["another"] = NoSpace /\ \A s \in SpaceNames \ {"another"} : spaces'[s] = spaces[s]
    BY <2>1, <2>3, <2>4
  <2>6. NoSpace.node_frames = << >> /\ NoSpace.nodes = << >> /\ DOMAIN NoSpace.entries = {}
    BY SMTT(30) DEF NoSpace
  <2>7. AreasInv'
    <3>1. kernel_areas' = kernel_areas /\ \A k, f : UserArea(k, f)' = UserArea(k, f)
      BY <2>1, ImageKept
    <3>2. InitAreas' = InitAreas /\ NF("init")' = NF("init") /\ NF("another")' = << >>
      BY <2>4, <2>5, <2>6 DEF InitAreas, NF
    <3>3. \A s \in {"kernel", "another"} : NF(s)' # << >> => spaces'[s].areas = kernel_areas
      BY <2>3, <2>4, <2>5, <3>2 DEF AreasInv, NF
    <3> QED  BY <2>1, <2>3, <3>1, <3>2, <3>3, ZenonT(40) DEF AreasInv
  <2>8. RootsInv'
    <3> SUFFICES ASSUME NEW s \in SpaceNames
                 PROVE  IF NF(s)' = << >> THEN spaces'[s].nodes = << >> /\ DOMAIN spaces'[s].entries = {}
                        ELSE << >> \in DOMAIN spaces'[s].nodes
      BY DEF RootsInv
    <3>1. CASE s = "another"
      BY <2>5, <2>6, <3>1 DEF NF
    <3>2. CASE s # "another"
      BY <2>3, <2>5, <3>2 DEF NF, RootsInv
    <3> QED  BY <3>1, <3>2
  <2>9. ReadOnlyNodes' = ReadOnlyNodes
    <3>1. Range(NF("kernel"))' = Range(NF("kernel"))
      BY <2>4, <2>5 DEF NF
    <3>2. todo = << >>
      BY <2>1, <2>3 DEF TodoInv
    <3>3. \A g : g \notin Range(todo)
      BY <3>2, SMTT(30) DEF Range
    <3>4. \A g : g \in ReadOnlyNodes <=> g \in Range(NF("kernel")) /\ op = "lock"
      BY <2>2, <3>3, <1>WhileRelocking
    <3>5. ReadOnlyNodes' = IF locked' THEN Range(NF("kernel"))' ELSE {}
      BY <2>2, AllOrNone
    <3>6. \A g : g \in ReadOnlyNodes' <=> g \in ReadOnlyNodes
      BY <2>1, <3>1, <3>4, <3>5
    <3> QED  BY <3>6
  <2>10. HoldInv'
    <3>1. \A s \in SpaceNames : Pending(s)' = Pending(s) /\ RO(s)' = RO(s)
      BY <2>2, <2>9, NoPending DEF RO
    <3>2. NF("another")' = << >>
      BY <2>5, <2>6 DEF NF
    <3> QED  BY <2>3, <2>5, <3>1, <3>2, OneTable
  <2>11. TodoInv'
    BY <2>2 DEF TodoInv, Relocking
  <2>12. loaded' = LoadedAt'
    BY <2>1 DEF LoadedAt, Early, Relocking
  <2>13. PathInv'
    <3>1. InitAreas' = InitAreas /\ make_satp("kernel")' = make_satp("kernel")
      BY <2>4, <2>5 DEF InitAreas, make_satp
    <3>2. step' \in Second \cup {"usertrapret"}
      BY <2>1
    <3> QED  BY <2>1, <2>2, <2>3, <2>12, <3>1, <3>2, <1>SecondPath, ZenonT(40)
  <2> QED
    BY <2>2, <2>7, <2>8, <2>10, <2>11, <2>13, GoesOn, ZenonT(40)
<1> QED
  BY <1>load_anotherMaps, <1>lock_tableMaps, <1>load_selfMaps, Zenon

-----------------------------------------------------------------------------
(* The invariant holds at the start and is kept *)

(* Before make_kernel there is no table. *)
LEMMA MapInvInit == InitSpaces => MapInv
<1> SUFFICES ASSUME InitSpaces PROVE MapInv
  OBVIOUS
<1>1. /\ spaces = [s \in SpaceNames |-> NoSpace] /\ todo = << >> /\ loaded = "bare" /\ locked = FALSE
      /\ pcb = NoPcb /\ step = "make_kernel"
  BY Zenon DEF InitSpaces
<1>2. NoSpace.node_frames = << >> /\ NoSpace.nodes = << >> /\ DOMAIN NoSpace.entries = {}
      /\ NoSpace.areas = << >> /\ NoPcb.trap_context = 0
  BY DEF NoSpace, NoPcb
<1>3. \A s \in SpaceNames : NF(s) = << >> /\ spaces[s].nodes = << >> /\ DOMAIN spaces[s].entries = {}
  BY <1>1, <1>2, Zenon DEF NF
<1>4. /\ "init" \in SpaceNames /\ \A s \in {"kernel", "another"} : s \in SpaceNames
  BY DEF SpaceNames
<1>5. Len(InitAreas) = 0 /\ 0 \in 0 .. 4 /\ \A k \in 1 .. 0 : FALSE
  <2>1. InitAreas = << >>
    BY <1>1, <1>2, <1>4, Zenon DEF InitAreas
  <2> QED  BY <2>1
<1>6. AreasInv
  BY <1>1, <1>2, <1>3, <1>4, <1>5, Zenon DEF AreasInv
<1>7. RootsInv /\ WithinInv /\ HoldInv
  BY <1>3, Zenon DEF RootsInv, WithinInv, HoldInv, Within
<1>8. step \notin DOMAIN Mapping /\ step # "lock_table" /\ step # "load_self" /\ step \in Early
      /\ step # "assertion" /\ step # "page_fault"
  BY <1>1, MappingSteps, SMTT(30) DEF Early
<1>9. TodoInv /\ AssertionsHold
  BY <1>8, Zenon DEF TodoInv, AssertionsHold
<1>10. PathInv
  BY <1>1, <1>8, SMTT(30) DEF PathInv, LoadedAt, WithContext, Late, Second, BeforeStacks
<1> QED
  BY <1>6, <1>7, <1>9, <1>10, Zenon DEF MapInv

(* Every step of the path, and of the other harts, keeps the invariant. *)
LEMMA MapInvKept ==
  SpaceInv /\ MapInv /\ [SpaceNext]_spaceVars => MapInv'
(* What the other harts do: kernel stacks of other processes, and tp. *)
<1>MapInvElsewhere.
    ASSUME MapInv, UNCHANGED << image, spaces, todo, loaded, locked, op, step >>,
           pcb'.trap_context = pcb.trap_context, pcb'.satp = pcb.satp, pcb'.sepc = pcb.sepc,
           pcb'.kernel_sp = pcb.kernel_sp,
           InitPid \in DOMAIN kernel_stacks =>
             InitPid \in DOMAIN kernel_stacks' /\ kernel_stacks'[InitPid] = kernel_stacks[InitPid]
    PROVE  MapInv'
  <2> USE <1>MapInvElsewhere, Zenon
  <2>1. AreasInv' /\ RootsInv'
    BY SameAreas DEF MapInv
  <2>2. WithinInv' /\ AssertionsHold'
    BY DEF MapInv, WithinInv, PagesIn, AssertionsHold
  <2>3. ReadOnlyNodes' = ReadOnlyNodes /\ \A s \in SpaceNames : Pending(s)' = Pending(s)
    BY DEF ReadOnlyNodes, Pending
  <2>4. step \notin Stopped => HoldInv'
    BY <2>3, SameHolds DEF MapInv
  <2>5. step \notin Stopped => TodoInv'
    BY DEF MapInv, TodoInv, PagesIn, NF, Distinct
  <2>6. LoadedAt' = LoadedAt /\ InitAreas' = InitAreas /\ make_satp("kernel")' = make_satp("kernel")
    BY DEF LoadedAt, InitAreas, make_satp
  <2>7. \A x \in Late : x \notin BeforeStacks
    BY DEF Late, Second, BeforeStacks
  <2>8. step \notin Stopped => PathInv'
    BY <2>6, <2>7 DEF MapInv, PathInv
  <2> QED
    BY <2>1, <2>2, <2>4, <2>5, <2>8 DEF MapInv
(* The stack of another process, and tp. *)
<1>OtherStepMaps. ASSUME SpaceInv, MapInv, OtherStep PROVE MapInv'
  <2> USE <1>OtherStepMaps, Zenon
  <2>1. CASE /\ step \in Underway
             /\ \E p \in DOMAIN kernel_stacks' \ DOMAIN kernel_stacks : \E f \in free : AllocateStack(p, f)
             /\ UNCHANGED << image, spaces, todo, loaded, locked, op, pcb, step >>
    <3>1. PICK p \in DOMAIN kernel_stacks' \ DOMAIN kernel_stacks : \E f \in free : AllocateStack(p, f)
      BY <2>1
    <3>2. PICK f \in free : kernel_stacks' = Put(kernel_stacks, p, f)
      BY <3>1 DEF AllocateStack
    <3>3. InitPid \in DOMAIN kernel_stacks =>
            InitPid \in DOMAIN kernel_stacks' /\ kernel_stacks'[InitPid] = kernel_stacks[InitPid]
      BY <3>1, <3>2 DEF Put
    <3>4. UNCHANGED << image, spaces, todo, loaded, locked, op, step >> /\ pcb' = pcb
      BY <2>1
    <3> QED  BY <3>3, <3>4, <1>MapInvElsewhere
  <2>2. CASE /\ set_tp(pcb'.tp)
             /\ UNCHANGED << image, free, spaces, todo, loaded, locked, op, kernel_stacks, step >>
    <3>1. /\ pcb'.trap_context = pcb.trap_context /\ pcb'.satp = pcb.satp
          /\ pcb'.sepc = pcb.sepc /\ pcb'.kernel_sp = pcb.kernel_sp
      BY <2>2, SMTT(20) DEF set_tp, SpaceInv, Shape, NoPcb
    <3>2. UNCHANGED << image, spaces, todo, loaded, locked, op, step >> /\ kernel_stacks' = kernel_stacks
      BY <2>2
    <3> QED  BY <3>1, <3>2, <1>MapInvElsewhere
  <2> QED
    BY <2>1, <2>2 DEF OtherStep
<1>1. ASSUME SpaceInv, MapInv, SpaceStep PROVE MapInv'
  BY <1>1, TestsMap, AllocationsMap, LoopsMap, RelockingMaps, Zenon DEF SpaceStep
<1>2. ASSUME MapInv, UNCHANGED spaceVars PROVE MapInv'
  BY <1>2, <1>MapInvElsewhere, Zenon DEF spaceVars
<1> QED
  BY <1>OtherStepMaps, <1>1, <1>2, Zenon DEF SpaceNext

-----------------------------------------------------------------------------

(* The invariant says what the tables map. *)
LEMMA MapsFollow ==
  SpaceInv /\ MapInv => MapsMatchAreas
(* What it says *)

(* A page next to those of the process is not mapped. *)
<1>Gap.
    ASSUME SpaceInv, MapInv, step \notin Stopped, NEW n \in PageNumbers, NEW va, va = get_base_addr(n),
           \A k \in 1 .. 4 : UserNumber[k] # n
    PROVE  ~is_valid(find(spaces["init"], va))
  <2> USE <1>Gap, Zenon
  <2>1. HoldInv /\ AreasInv /\ RootsInv /\ image \in Images /\ "init" \in SpaceNames
    BY Moving DEF SpaceInv, Shape, SpaceNames
  <2>2. find(spaces["init"], va) = 0
    <3>1. CASE NF("init") = << >>
      <4>1. DOMAIN spaces["init"].entries = {}
        BY <2>1, <3>1 DEF RootsInv
      <4> QED  BY <4>1 DEF find
    <3>2. CASE NF("init") # << >>
      <4>1. PICK pages : pages = PagesIn("init") \ Pending("init")
        OBVIOUS
      <4>2. Holds(spaces["init"], pages, {}) /\ pages \in SUBSET PageSet
        <5>1. Holds(spaces["init"], pages, RO("init"))
          BY <2>1, <3>2, <4>1 DEF HoldInv
        <5> QED  BY <2>1, <4>1, <5>1, InitTablePages DEF RO
      <4>3. ASSUME NEW page \in pages, Path(page.va) = Path(va) PROVE FALSE
        <5>1. PICK k \in 1 .. Len(InitAreas) : \E f \in Heap(image) : page = UserPage(k, f)
          BY <2>1, <4>1, InitTablePages
        <5>2. PICK f \in Heap(image) : page = UserPage(k, f)
          BY <5>1
        <5>3. page.va = get_base_addr(UserNumber[k])
          BY <5>2 DEF UserPage, Page
        <5>4. k \in 1 .. 4
          <6>1. Len(InitAreas) \in 0 .. 4
            BY <2>1 DEF AreasInv
          <6>2. \A m \in 0 .. 4 : \A j \in 1 .. m : j \in 1 .. 4
            BY SMTT(30)
          <6> QED  BY <6>1, <6>2
        <5>5. UserNumber[k] \in PageNumbers
          BY <2>1, <5>4, UserNumbersApart
        <5>6. UserNumber[k] = n
          BY <4>3, <5>3, <5>5, PathsOfPages, ZenonT(40)
        <5> QED  BY <5>4, <5>6
      <4> QED  BY <4>2, <4>3, NotHeld
    <3> QED  BY <3>1, <3>2
  <2> QED
    BY <2>2, NoEntry, ZenonT(40)
<1>MapsFollow. ASSUME SpaceInv, MapInv PROVE MapsMatchAreas
  <2> USE <1>MapsFollow, Zenon
  <2> SUFFICES ASSUME step \notin Stopped
               PROVE  /\ \A name \in { s \in SpaceNames : spaces[s].nodes # << >> } :
                           /\ DOMAIN spaces[name].entries = { Path(page.va) : page \in PagesIn(name) \ Pending(name) }
                           /\ \A page \in PagesIn(name) \ Pending(name) :
                                /\ PTE2PA(find(spaces[name], page.va)) = page.pa
                                /\ flags(find(spaces[name], page.va)) =
                                     page.flags \ IF get_number(page.pa) \in RO(name) THEN {"WRITABLE"} ELSE {}
                      /\ \A va \in {text_va_end, TRAPFRAME_BASE_USER_VA + PAGE_SIZE} :
                           ~is_valid(find(spaces["init"], va))
    BY DEF MapsMatchAreas, PagesIn, RO
  <2>1. HoldInv /\ AreasInv /\ RootsInv /\ image \in Images
    BY Moving DEF SpaceInv, Shape
  <2>2. ASSUME NEW name \in SpaceNames, spaces[name].nodes # << >>
        PROVE  /\ DOMAIN spaces[name].entries = { Path(page.va) : page \in PagesIn(name) \ Pending(name) }
               /\ \A page \in PagesIn(name) \ Pending(name) :
                    /\ PTE2PA(find(spaces[name], page.va)) = page.pa
                    /\ flags(find(spaces[name], page.va)) =
                         page.flags \ IF get_number(page.pa) \in RO(name) THEN {"WRITABLE"} ELSE {}
    <3>1. NF(name) # << >>
      BY <2>1, <2>2 DEF RootsInv
    <3>2. PICK pages : pages = PagesIn(name) \ Pending(name)
      OBVIOUS
    <3>3. Holds(spaces[name], pages, RO(name)) /\ pages \in SUBSET PageSet
      BY <2>1, <3>1, <3>2, TablePages DEF HoldInv
    <3>4. ASSUME NEW page \in pages
          PROVE  /\ PTE2PA(find(spaces[name], page.va)) = page.pa
                 /\ flags(find(spaces[name], page.va)) =
                      page.flags \ IF get_number(page.pa) \in RO(name) THEN {"WRITABLE"} ELSE {}
      <4>1. /\ PTE2PA(find(spaces[name], page.va)) = page.pa
            /\ flags(find(spaces[name], page.va)) = Left(page, RO(name))
        <5>1. PICK space, va, ro : space = spaces[name] /\ va = page.va /\ ro = RO(name)
          OBVIOUS
        <5>2. Holds(space, pages, ro) /\ Of(va, page)
          BY <3>3, <5>1 DEF Of
        <5>3. Reached(space, va, page.pa, Left(page, ro))
          BY <3>3, <5>2, Held
        <5> QED  BY <5>1, <5>3 DEF Reached
      <4>2. PICK all : all = page.flags
        OBVIOUS
      <4>3. Left(page, RO(name)) = all \ IF get_number(page.pa) \in RO(name) THEN {"WRITABLE"} ELSE {}
        <5>1. CASE get_number(page.pa) \in RO(name)
          BY <4>2, <5>1 DEF Left
        <5>2. CASE get_number(page.pa) \notin RO(name)
          <6>1. all \ {} = all
            OBVIOUS
          <6> QED  BY <4>2, <5>2, <6>1 DEF Left
        <5> QED  BY <5>1, <5>2
      <4> QED  BY <4>1, <4>2, <4>3
    <3> QED  BY <3>2, <3>3, <3>4 DEF Holds
  <2>3. ~is_valid(find(spaces["init"], text_va_end))
    <3>1. PICK n : n = get_number(text_va_end)
      OBVIOUS
    <3>2. n \in PageNumbers /\ \A k \in 1 .. 4 : UserNumber[k] # n
      BY <2>1, <3>1, UserNumbersApart
    <3>3. text_va_end = get_base_addr(n)
      BY <2>1, <3>1, UserNumbers, AlignedNumber
    <3> QED  BY <3>2, <3>3, <1>Gap
  <2>4. ~is_valid(find(spaces["init"], TRAPFRAME_BASE_USER_VA + PAGE_SIZE))
    <3>1. PICK n, va : n = get_number(TRAPFRAME_BASE_USER_VA) + 1 /\ va = TRAPFRAME_BASE_USER_VA + PAGE_SIZE
      OBVIOUS
    <3>2. n \in PageNumbers /\ \A k \in 1 .. 4 : UserNumber[k] # n
      BY <2>1, <3>1, UserNumbersApart
    <3>3. va \in Aligned /\ get_number(va) = n
      BY <2>1, <3>1, Addresses, NumberOrder
    <3>4. va = get_base_addr(n)
      BY <3>3, AlignedNumber
    <3> QED  BY <3>1, <3>2, <3>4, <1>Gap
  <2> QED
    BY <2>2, <2>3, <2>4
<1> QED
  BY <1>MapsFollow, Zenon

(* And what user mode reaches. *)
LEMMA Isolated ==
  SpaceInv /\ MapInv => Isolation
(* A frame a space reaches is one of its pages. *)
<1>ReachedFrames.
    ASSUME SpaceInv, MapInv, NEW s \in SpaceNames, NEW flag, NEW g \in FramesWith(s, {flag})
    PROVE  /\ \E page \in PagesIn(s) : g = get_number(page.pa) /\ flag \in page.flags
           /\ NF(s) # << >>
  <2> USE <1>ReachedFrames, Zenon
  <2>1. PICK e \in Range(spaces[s].entries) : {flag} \subseteq flags(e) /\ g = get_number(PTE2PA(e))
    BY DEF FramesWith
  <2>2. PICK path \in DOMAIN spaces[s].entries : e = spaces[s].entries[path]
    BY DEF Range
  <2>3. AreasInv /\ RootsInv /\ WithinInv /\ image \in Images
    BY DEF MapInv, SpaceInv, Shape
  <2>4. NF(s) # << >>
    BY <2>2, <2>3 DEF RootsInv
  <2>5. PICK page \in PagesIn(s) : e \in { make_entry(page.pa, page.flags),
                                           make_entry(page.pa, page.flags \ {"WRITABLE"}) }
    BY <2>2, <2>3 DEF WithinInv, Within
  <2>6. page \in PageSet
    BY <2>3, <2>4, TablePages
  <2>7. page.flags \in SUBSET PTEFlags /\ page.flags \ {"WRITABLE"} \in SUBSET PTEFlags
    BY <2>6, PageParts
  <2>8. PTE2PA(e) = page.pa /\ flags(e) \subseteq page.flags
    BY <2>5, <2>6, <2>7, PageEntry, ZenonT(40)
  <2> QED
    BY <2>1, <2>4, <2>8
(* The frame behind a page of the process. *)
<1>UserFrames.
    ASSUME SpaceInv, AreasInv, NEW k \in 1 .. Len(InitAreas), NEW f \in Heap(image),
           InitAreas[k] = UserArea(k, f)
    PROVE  /\ k \in 1 .. 4
           /\ get_number(UserPage(k, f).pa) = UserFrame(k, f)
           /\ UserPage(k, f).flags = UserPerms[k] \cup {"VALID"}
           /\ k # 1 => k \in Tracking(f)
  <2> USE <1>UserFrames, Zenon
  <2>1. image \in Images /\ Len(InitAreas) \in 0 .. 4
    BY DEF SpaceInv, Shape, AreasInv
  <2>2. k \in 1 .. 4
    BY <2>1, SMTT(30)
  <2>3. f \in Nat /\ get_number(trampoline_start(image)) \in Nat
    <3>1. 7 \in 1 .. 11
      BY SMT
    <3>2. f \in Nat
      BY <2>1, HeapAboveZero
    <3> QED  BY <2>1, <3>1, <3>2, SectionPlaces
  <2>4. UserFrame(k, f) \in Nat
    BY <2>3 DEF UserFrame
  <2>5. UserPage(k, f).pa = get_base_addr(UserFrame(k, f)) /\ UserPage(k, f).flags = UserPerms[k] \cup {"VALID"}
    BY DEF UserPage, Page
  <2>6. get_number(UserPage(k, f).pa) = UserFrame(k, f)
    BY <2>4, <2>5, PageNumber
  <2>7. ASSUME k # 1 PROVE k \in Tracking(f)
    <3>1. PICK area : area = InitAreas[k]
      OBVIOUS
    <3>2. area.owned = IF k = 1 THEN {} ELSE {f}
      BY <2>1, <2>2, <2>3, <3>1, UserAreaPages, ZenonT(30)
    <3>3. k \in DOMAIN InitAreas
      <4>1. PICK S : InitAreas \in Seq(S)
        BY DEF SpaceInv, Shape
      <4>2. DOMAIN InitAreas = 1 .. Len(InitAreas)
        BY <4>1, SMTT(30)
      <4> QED  BY <4>2
    <3> QED  BY <2>7, <3>1, <3>2, <3>3 DEF Tracking
  <2> QED
    BY <2>2, <2>5, <2>6, <2>7
<1>PermsOf.
    \A k \in 1 .. 4 : /\ "WRITABLE" \in UserPerms[k] \cup {"VALID"} => k # 1 /\ k # 3
                      /\ "EXECUTABLE" \in UserPerms[k] \cup {"VALID"} => k = 1 \/ k = 3
                      /\ "USER" \in UserPerms[k] \cup {"VALID"} => k # 1 /\ k # 4
  <2>1. \A k \in 1 .. 4 : k = 1 \/ k = 2 \/ k = 3 \/ k = 4
    OBVIOUS
  <2> QED
    BY <2>1 DEF UserPerms, RW, RX
(* Which frames the process reaches with a flag. *)
<1>UserReached.
    ASSUME SpaceInv, MapInv, NEW flag, NEW g \in FramesWith("init", {flag})
    PROVE  \E k \in 1 .. 4 : \E f \in Heap(image) :
             /\ g = UserFrame(k, f) /\ flag \in UserPerms[k] \cup {"VALID"}
             /\ k # 1 => k \in Tracking(f)
  <2> USE <1>UserReached, Zenon
  <2>1. AreasInv /\ image \in Images /\ "init" \in SpaceNames
    BY DEF MapInv, SpaceInv, Shape, SpaceNames
  <2>2. PICK page \in PagesIn("init") : g = get_number(page.pa) /\ flag \in page.flags
    BY <2>1, <1>ReachedFrames
  <2>3. PICK k \in 1 .. Len(InitAreas) : \E f \in Heap(image) :
          InitAreas[k] = UserArea(k, f) /\ page = UserPage(k, f)
    BY <2>1, InitTablePages
  <2>4. PICK f \in Heap(image) : InitAreas[k] = UserArea(k, f) /\ page = UserPage(k, f)
    BY <2>3
  <2>5. /\ k \in 1 .. 4 /\ (k # 1 => k \in Tracking(f))
        /\ get_number(UserPage(k, f).pa) = UserFrame(k, f)
        /\ UserPage(k, f).flags = UserPerms[k] \cup {"VALID"}
    BY <2>1, <2>4, <1>UserFrames
  <2>6. g = UserFrame(k, f) /\ flag \in UserPerms[k] \cup {"VALID"}
    BY <2>2, <2>4, <2>5
  <2> QED
    BY <2>5, <2>6
<1>Isolated. ASSUME SpaceInv, MapInv PROVE Isolation
  <2> USE <1>Isolated, Zenon
  <2>1. AreasInv /\ image \in Images
    BY DEF MapInv, SpaceInv, Shape
  <2>2. ASSUME NEW s \in SpaceNames, NEW g \in FramesWith(s, {"WRITABLE"}), g \in FramesWith(s, {"EXECUTABLE"})
        PROVE  FALSE
    <3>1. CASE s \in {"kernel", "another"}
      <4>1. /\ NF(s) # << >>
            /\ \E page \in PagesIn(s) : g = get_number(page.pa) /\ "WRITABLE" \in page.flags
            /\ \E page \in PagesIn(s) : g = get_number(page.pa) /\ "EXECUTABLE" \in page.flags
        BY <2>2, <1>ReachedFrames
      <4> QED  BY <2>1, <3>1, <4>1, KernelTablePages
    <3>2. CASE s = "init"
      <4>1. PICK k \in 1 .. 4 : \E f \in Heap(image) :
              /\ g = UserFrame(k, f) /\ "WRITABLE" \in UserPerms[k] \cup {"VALID"}
              /\ k # 1 => k \in Tracking(f)
        BY <2>2, <3>2, <1>UserReached
      <4>2. PICK j \in 1 .. 4 : \E f \in Heap(image) :
              /\ g = UserFrame(j, f) /\ "EXECUTABLE" \in UserPerms[j] \cup {"VALID"}
              /\ j # 1 => j \in Tracking(f)
        BY <2>2, <3>2, <1>UserReached
      <4>3. k # 1 /\ k # 3 /\ (j = 1 \/ j = 3)
        BY <4>1, <4>2, <1>PermsOf
      <4>4. g \in Heap(image) /\ k \in Tracking(g)
        BY <4>1, <4>3 DEF UserFrame
      <4>5. j # 1
        <5> SUFFICES ASSUME j = 1 PROVE FALSE
          OBVIOUS
        <5>1. g \in SectionPages(7) /\ g \in SectionPages(2)
          BY <2>1, <4>2, <4>4, SectionPlaces DEF UserFrame
        <5>2. 7 \in 1 .. 11 /\ 2 \in 1 .. 11 /\ 7 # 2
          BY SMTT(30)
        <5> QED  BY <2>1, <5>1, <5>2, SectionsApart
      <4>6. 3 \in Tracking(g)
        BY <4>2, <4>3, <4>5 DEF UserFrame
      <4> QED  BY <4>3, <4>4, <4>6, Apart, ZenonT(30)
    <3> QED  BY <3>1, <3>2 DEF SpaceNames
  <2>3. \A s \in SpaceNames : FramesWith(s, {"WRITABLE"}) \cap FramesWith(s, {"EXECUTABLE"}) = {}
    BY <2>2
  <2>4. ASSUME NEW s \in {"kernel", "another"} PROVE FramesWith(s, {"USER"}) = {}
    <3>1. ASSUME NEW g \in FramesWith(s, {"USER"}) PROVE FALSE
      <4>1. s \in SpaceNames
        BY DEF SpaceNames
      <4>2. NF(s) # << >> /\ \E page \in PagesIn(s) : "USER" \in page.flags
        BY <4>1, <3>1, <1>ReachedFrames
      <4> QED  BY <2>1, <4>2, KernelTablePages
    <3> QED  BY <3>1
  <2>5. ASSUME NEW g \in FramesWith("init", {"USER"})
        PROVE  /\ g \in Heap(image) /\ g \notin free /\ Stacks(g) = {}
               /\ \A s \in SpaceNames : g \notin Range(NF(s))
               /\ 4 \notin Tracking(g)
    <3>1. PICK k \in 1 .. 4 : \E f \in Heap(image) :
            /\ g = UserFrame(k, f) /\ "USER" \in UserPerms[k] \cup {"VALID"}
            /\ k # 1 => k \in Tracking(f)
      BY <1>UserReached
    <3>2. k # 1 /\ k # 4
      BY <3>1, <1>PermsOf
    <3>3. g \in Heap(image) /\ k \in Tracking(g)
      BY <3>1, <3>2 DEF UserFrame
    <3> QED  BY <3>2, <3>3, Apart
  <2>6. get_number(pcb.trap_context) \notin FramesWith("init", {"USER"})
    <3>1. CASE pcb.trap_context = 0
      <4>1. get_number(0) = 0
        BY SMT DEF get_number, PAGE_SIZE
      <4>2. 0 \notin Heap(image)
        <5> SUFFICES ASSUME 0 \in Heap(image) PROVE FALSE
          OBVIOUS
        <5>1. get_base_addr(0) > 0
          BY <2>1, HeapAboveZero
        <5> QED  BY <5>1, SMTT(30) DEF get_base_addr, PAGE_SIZE
      <4> QED  BY <2>5, <3>1, <4>1, <4>2
    <3>2. CASE pcb.trap_context # 0
      <4>1. PICK f \in Heap(image) : InitAreas[4] = UserArea(4, f) /\ pcb.trap_context = get_base_addr(f)
        BY <2>1, <3>2 DEF AreasInv
      <4>2. Len(InitAreas) = 4
        BY <2>1, <3>2 DEF AreasInv
      <4>3. 4 \in 1 .. Len(InitAreas) /\ 4 # 1
        BY <4>2, SMTT(30)
      <4>4. 4 \in Tracking(f)
        BY <2>1, <4>1, <4>3, <1>UserFrames
      <4>5. get_number(pcb.trap_context) = f
        <5>1. f \in Nat
          BY <2>1, HeapAboveZero
        <5> QED  BY <4>1, <5>1, PageNumber
      <4> QED  BY <2>5, <4>4, <4>5
    <3> QED  BY <3>1, <3>2
  <2>7. FramesWith("init", {"USER"}) \cap Range(kernel_stacks) = {}
    BY <2>5 DEF Range, Stacks
  <2>8. /\ FramesWith("init", {"USER"}) \subseteq Heap(image) \ free
        /\ \A s \in SpaceNames : FramesWith("init", {"USER"}) \cap Range(spaces[s].node_frames) = {}
    BY <2>5 DEF NF
  <2> QED
    BY <2>3, <2>4, <2>6, <2>7, <2>8, ZenonT(40) DEF Isolation
<1> QED
  BY <1>Isolated, Zenon

-----------------------------------------------------------------------------

(* The two invariants of the spaces. *)
LEMMA SpacesKept == SpaceSpec => [](SpaceInv /\ MapInv)
BY SpaceInvInit, MapInvInit, SpaceInvKept, MapInvKept, PTL DEF SpaceSpec

(* No assertion, unwrap or store of the path fails, though other harts     *)
(* take frames for kernel stacks and write tp between any two of its steps *)
(* from lock_space on.                                                     *)
THEOREM SpacesAssert == SpaceSpec => []AssertionsHold
<1>1. MapInv => AssertionsHold
  BY Zenon DEF MapInv
<1> QED
  BY <1>1, SpacesKept, PTL

(* Each table maps the pages of its areas and nothing else, while hart 0   *)
(* builds, locks and unlocks the spaces among those harts.                 *)
THEOREM SpacesMatch == SpaceSpec => []MapsMatchAreas
BY MapsFollow, SpacesKept, PTL

(* User mode reaches frames of its own only, and none that another hart    *)
(* takes for a kernel stack meanwhile.                                     *)
THEOREM SpacesIsolate == SpaceSpec => []Isolation
BY Isolated, SpacesKept, PTL
=============================================================================

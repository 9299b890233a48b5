------------------------ MODULE ProcessManagerProofs ------------------------
(***************************************************************************)
(* For any harts, images and initial capacity: no id is issued twice, an   *)
(* initialised process is in exactly one place, every frame has one owner, *)
(* the program that runs has its hart's id in its trap context, and what   *)
(* MapProofs shows of the spaces holds while the harts run.                *)
(***************************************************************************)
EXTENDS ProcessManager, MapProofs, TLAPS

-----------------------------------------------------------------------------
(* The table of processes *)

IdsInv ==
  /\ capacity \in Nat \ {0}
  /\ IdsPartitioned
  /\ active_slots \in [DOMAIN active_slots -> BOOLEAN]

Initialised == { p \in DOMAIN active_slots : active_slots[p] = TRUE }

(* A reservation enters a new id, uninitialised. *)
LEMMA ReserveEntry ==
  ASSUME IdsInv, NEW id \in Pool, reserve_entry(id)
  PROVE  /\ IdsInv'
         /\ id \in Nat /\ id \notin DOMAIN active_slots
         /\ DOMAIN active_slots' = DOMAIN active_slots \cup {id}
         /\ Initialised' = Initialised
<1>1. id \in Nat /\ id \notin DOMAIN active_slots
  BY DEF IdsInv, IdsPartitioned, Pool, Grown
<1>2. active_slots' = With(id, FALSE)
  BY DEF reserve_entry
<1>3. /\ DOMAIN active_slots' = DOMAIN active_slots \cup {id}
      /\ active_slots' \in [DOMAIN active_slots' -> BOOLEAN]
      /\ active_slots'[id] = FALSE
      /\ \A i \in DOMAIN active_slots : active_slots'[i] = active_slots[i]
  BY <1>1, <1>2, Zenon DEF With, IdsInv
<1>4. Initialised' = Initialised
  BY <1>3, Zenon DEF Initialised
<1>5. capacity' \in Nat \ {0} /\ IdsPartitioned'
  <2>1. free_ids' = Pool \ {id} /\ capacity' = IF free_ids = {} THEN capacity * 2 ELSE capacity
    BY DEF reserve_entry, allocate_one, Popped
  <2>2. CASE free_ids = {}
    <3>1. /\ free_ids' = (capacity .. capacity * 2 - 1) \ {id} /\ capacity' = capacity * 2
          /\ id \in capacity .. capacity * 2 - 1
          /\ DOMAIN active_slots = 0 .. capacity - 1 /\ capacity \in Nat \ {0}
      BY <2>1, <2>2, SMTT(30) DEF Pool, Grown, IdsInv, IdsPartitioned
    <3>2. capacity' \in Nat \ {0}
      BY <3>1, SMTT(30)
    <3>3. free_ids' \cap DOMAIN active_slots' = {}
      BY <1>3, <3>1, SMTT(30)
    <3>4. free_ids' \cup DOMAIN active_slots' = 0 .. capacity * 2 - 1
      BY <1>3, <3>1, SMTT(30)
    <3> QED  BY <3>1, <3>2, <3>3, <3>4, SMTT(20) DEF IdsPartitioned
  <2>3. CASE free_ids # {}
    BY <1>1, <1>3, <2>1, <2>3, SMTT(30) DEF Pool, IdsInv, IdsPartitioned
  <2> QED  BY <2>2, <2>3, SMTT(30)
<1> QED
  BY <1>1, <1>3, <1>4, <1>5, SMTT(30) DEF IdsInv

(* Initialising an entry changes no id. *)
LEMMA InitialiseEntry ==
  ASSUME IdsInv, NEW id, initialise_entry(id)
  PROVE  /\ IdsInv'
         /\ DOMAIN active_slots' = DOMAIN active_slots
         /\ Initialised' = Initialised \cup {id}
<1>1. id \in DOMAIN active_slots /\ active_slots' = With(id, TRUE)
  BY DEF initialise_entry
<1>2. /\ DOMAIN active_slots' = DOMAIN active_slots
      /\ active_slots' \in [DOMAIN active_slots' -> BOOLEAN]
      /\ active_slots'[id] = TRUE
      /\ \A i \in DOMAIN active_slots : i # id => active_slots'[i] = active_slots[i]
  BY <1>1, Zenon DEF With, IdsInv
<1>3. Initialised' = Initialised \cup {id}
  BY <1>1, <1>2, Zenon DEF Initialised
<1>4. IdsPartitioned' /\ capacity' \in Nat \ {0}
  BY <1>2, ZenonT(40) DEF IdsInv, IdsPartitioned, initialise_entry
<1> QED
  BY <1>2, <1>3, <1>4, SMTT(30) DEF IdsInv

(* Every other operation leaves the table alone. *)
LEMMA TableStep ==
  ASSUME Next
  PROVE  \/ UNCHANGED tableVars
         \/ \E id \in Pool : reserve_entry(id)
         \/ \E id : initialise_entry(id)
<1> USE DEF Lock, Panic
<1>1. ASSUME NEW k \in Harts, InManager(k)
      PROVE  \/ UNCHANGED tableVars
             \/ \E id \in Pool : reserve_entry(id)
             \/ \E id : initialise_entry(id)
  BY <1>1, SMTT(20) DEF InManager, OnPath, ReserveInit, ReserveProcess, Reserve, create_initcode,
              create_process, Enqueue, AllocatePcb, AllocatePanic, PopInit, pop_one, PopOne,
              PopPanic, push_one
<1>2. ASSUME NEW k \in Harts, ~InManager(k),
             \/ CallCreateInitcode(k) \/ CallPopInit(k) \/ CallCreateProcess(k) \/ CallPopOne(k)
             \/ take_executing_process(k) \/ CallPushOne(k) \/ Start(k)
             \/ kmain(k) \/ usertrapret_on(k) \/ usertrapret_panic(k) \/ usertrap(k)
      PROVE  UNCHANGED tableVars
  BY <1>2, SMTT(30) DEF CallCreateInitcode, CallPopInit, CallCreateProcess, CallPopOne,
              take_executing_process, CallPushOne, Start, kmain, usertrapret_on,
              usertrapret_panic, usertrap
<1> QED
  BY <1>1, <1>2, SMTT(20) DEF Next

(* The ids below capacity are divided between the pool and the table,      *)
(* through any number of reservations and growths: reserve_entry never     *)
(* meets an id that is in use.                                             *)
THEOREM IdsNeverCollide == Spec => []IdsPartitioned
<1>1. Init => IdsInv
  BY ResourceTableAssumption, SMTT(30) DEF Init, new, IdsInv, IdsPartitioned
<1>2. IdsInv /\ [Next]_vars => IdsInv'
  <2>1. ASSUME IdsInv, UNCHANGED tableVars PROVE IdsInv'
    BY <2>1, SMTT(30) DEF IdsInv, IdsPartitioned, tableVars
  <2>2. ASSUME IdsInv, Next PROVE IdsInv'
    <3>1. ASSUME NEW id \in Pool, reserve_entry(id) PROVE IdsInv'
      BY <2>2, <3>1, ReserveEntry, Zenon
    <3>2. ASSUME NEW id, initialise_entry(id) PROVE IdsInv'
      BY <2>2, <3>2, InitialiseEntry, SMTT(20)
    <3> QED  BY <2>1, <2>2, <3>1, <3>2, TableStep, SMTT(20)
  <2> QED
    BY <2>1, <2>2, SMTT(30) DEF vars
<1> QED
  BY <1>1, <1>2, PTL DEF Spec, IdsInv

-----------------------------------------------------------------------------
(* The places of a process *)

\* the labels of a hart that has locked PROCESS_MANAGER
Holding == { "reserve_init", "make_initcode", "enqueue_init", "init_pop_one",
             "reserve", "allocate", "enqueue", "pop_one", "push_one" }

\* between reserve_entry and initialise_entry
Creating == { "make_initcode", "enqueue_init", "allocate", "enqueue" }

\* between take_executing_process and the end of push_one
Yielding == { "yield", "push_one" }

\* before pop_one has given the hart a process
Taking == { "mm_init", "init", "reserve_init", "make_initcode", "enqueue_init", "init_dispatch",
            "init_pop_one", "pop_one" }

Queued(p) == { i \in 1 .. Len(ready_queue) : ready_queue[i] = p }
Executing(p) == { h \in Harts : running[h] = p }
PutBack(p) == { h \in Harts : pc[h] \in Yielding /\ pid[h] = p }

Nowhere(p) == Queued(p) = {} /\ Executing(p) = {} /\ PutBack(p) = {}

OnePlace(p) ==
  \/ (\E x : Queued(p) = {x}) /\ Executing(p) = {} /\ PutBack(p) = {}
  \/ Queued(p) = {} /\ (\E x : Executing(p) = {x}) /\ PutBack(p) = {}
  \/ Queued(p) = {} /\ Executing(p) = {} /\ (\E x : PutBack(p) = {x})

\* control of the harts, and the lock
HartsInv ==
  /\ DOMAIN pc = Harts
  /\ pid \in [Harts -> Nat \cup {NoPid}] /\ running \in [Harts -> Nat \cup {NoPid}]
  /\ \A h \in Harts : pc[h] \in Holding => manager = h
  /\ \A h \in Harts : pc[h] \in Yielding => pid[h] # NoPid
  /\ \A h \in Harts : pc[h] \in Taking => running[h] = NoPid
  /\ \A h \in Harts : pc[h] \in Creating => pid[h] \in DOMAIN active_slots \ Initialised

PlacesInv ==
  /\ ready_queue \in Seq(Nat)
  /\ \A p \in Nat : IF p \in Initialised THEN OnePlace(p) ELSE Nowhere(p)

PlaceInv == IdsInv /\ HartsInv /\ PlacesInv

\* the positions of p in a queue
At(s, p) == { i \in 1 .. Len(s) : s[i] = p }

-----------------------------------------------------------------------------

(* The places are as they should be initially, and every step keeps them. *)
LEMMA PlaceInit == Init => PlaceInv
<1> SUFFICES ASSUME Init PROVE PlaceInv
  OBVIOUS
<1>1. IdsInv /\ Initialised = {}
  BY ResourceTableAssumption, SMTT(30) DEF Init, new, IdsInv, IdsPartitioned, Initialised
<1>2. /\ DOMAIN pc = Harts /\ \A h \in Harts : pc[h] \in { "mm_init", "boot_wait" }
      /\ pid = [h \in Harts |-> NoPid] /\ running = [h \in Harts |-> NoPid]
      /\ ready_queue = << >>
  BY DEF Init
<1>3. HartsInv
  BY <1>2, SMTT(30) DEF HartsInv, Holding, Yielding, Creating, Taking
<1>4. ASSUME NEW p \in Nat PROVE Nowhere(p)
  BY <1>2, ProcessManagerAssumption, SMTT(20) DEF Nowhere, Queued, Executing, PutBack, Yielding
<1> QED  BY <1>1, <1>2, <1>3, <1>4, SMTT(20) DEF PlaceInv, PlacesInv

(* Every step of the machine keeps the invariant.  What moves a process,   *)
(* or none, first; then one fact per kind of step.                         *)
LEMMA PlaceNext ==
  PlaceInv /\ [Next]_vars => PlaceInv'
(* A step that moves no process and creates none: hart h goes on to "to",  *)
(* with the lock or without it.                                            *)
<1>NoMove.
    ASSUME PlaceInv, NEW h \in Harts, NEW to, pc' = [pc EXCEPT ![h] = to],
           UNCHANGED << tableVars, ready_queue, running, pid >>,
           pc[h] \in Yielding <=> to \in Yielding,
           to \in Creating => pc[h] \in Creating,
           to \in Taking => pc[h] \in Taking \/ running[h] = NoPid,
           to \in Holding => manager' = h,
           manager' = manager \/ manager = NoHart
    PROVE  PlaceInv'
  <2> USE <1>NoMove
  <2>1. IdsInv' /\ Initialised' = Initialised
    BY SMTT(30) DEF PlaceInv, IdsInv, IdsPartitioned, Initialised, tableVars
  <2>2. \A p \in Nat : /\ Queued(p)' = Queued(p) /\ Executing(p)' = Executing(p)
                       /\ PutBack(p)' = PutBack(p)
    BY DEF PlaceInv, HartsInv, Queued, Executing, PutBack
  <2>3. PlacesInv'
    <3> SUFFICES ASSUME NEW p \in Nat
                 PROVE  (IF p \in Initialised THEN OnePlace(p) ELSE Nowhere(p))'
      BY SMTT(30) DEF PlaceInv, PlacesInv
    <3> QED  BY <2>1, <2>2, Zenon DEF PlaceInv, PlacesInv, OnePlace, Nowhere
  <2>4. HartsInv'
    BY <2>1, ProcessManagerAssumption, SMTT(20) DEF PlaceInv, HartsInv, tableVars
  <2> QED
    BY <2>1, <2>3, <2>4, SMTT(20) DEF PlaceInv
(* The hart that holds the lock leaves its operation: the other harts are  *)
(* where they were, none of them in an operation.                          *)
<1>Release.
    ASSUME HartsInv, NEW h \in Harts, pc[h] \in Holding,
           NEW to \in { "idle", "init_dispatch" }, pc' = [pc EXCEPT ![h] = to],
           pid' \in [Harts -> Nat \cup {NoPid}], running' \in [Harts -> Nat \cup {NoPid}],
           \A k \in Harts \ {h} : pid'[k] = pid[k] /\ running'[k] = running[k],
           to = "init_dispatch" => running'[h] = NoPid
    PROVE  HartsInv'
  <2> USE <1>Release
  <2>1. \A k \in Harts \ {h} : pc'[k] = pc[k] /\ pc[k] \notin Holding
    BY SMTT(30) DEF HartsInv
  <2>2. pc'[h] = to /\ DOMAIN pc' = Harts
    BY SMTT(30) DEF HartsInv
  <2>3. \A k \in Harts : pc'[k] \notin Holding
    BY <2>1, <2>2, SMTT(20) DEF Holding
  <2>4. \A k \in Harts : pc'[k] \notin Creating
    BY <2>3, SMTT(30) DEF Creating, Holding
  <2>5. \A k \in Harts : pc'[k] \in Yielding => k # h /\ pc[k] \in Yielding
    BY <2>1, <2>2, SMTT(20) DEF Yielding
  <2>6. \A k \in Harts : pc'[k] \in Taking => running'[k] = NoPid
    <3>1. "idle" \notin Taking
      BY SMTT(30) DEF Taking
    <3> QED  BY <2>1, <2>2, <3>1, SMTT(20) DEF HartsInv
  <2> QED
    BY <2>2, <2>3, <2>4, <2>5, <2>6, SMTT(20) DEF HartsInv
(* A step concerns the places of one process p; any other stays where it   *)
(* is, though it may get another position in the queue.                    *)
<1>OneMoves.
    ASSUME PlacesInv, ready_queue' \in Seq(Nat), NEW p \in Nat,
           \A q \in Nat \ {p} :
             /\ q \in Initialised' <=> q \in Initialised
             /\ Queued(q) = {} => Queued(q)' = {}
             /\ \A x : Queued(q) = {x} => \E y : Queued(q)' = {y}
             /\ Executing(q)' = Executing(q) /\ PutBack(q)' = PutBack(q),
           IF p \in Initialised' THEN OnePlace(p)' ELSE Nowhere(p)'
    PROVE  PlacesInv'
  <2> USE <1>OneMoves
  <2> SUFFICES ASSUME NEW q \in Nat \ {p}
               PROVE  (IF q \in Initialised THEN OnePlace(q) ELSE Nowhere(q))'
    BY DEF PlacesInv
  <2>1. CASE q \in Initialised
    BY <2>1, Zenon DEF PlacesInv, OnePlace
  <2>2. CASE q \notin Initialised
    BY <2>2, SMTT(30) DEF PlacesInv, Nowhere
  <2> QED
    BY <2>1, <2>2, SMTT(20)
(* What push_back, push_front and pop_front do to the positions. *)
<1>AppendAt.
    ASSUME NEW s \in Seq(Nat), NEW p \in Nat, At(s, p) = {}
    PROVE  /\ Append(s, p) \in Seq(Nat)
           /\ At(Append(s, p), p) = {Len(s) + 1}
           /\ \A q \in Nat \ {p} : At(Append(s, p), q) = At(s, q)
  BY <1>AppendAt, SMTT(30) DEF At
(* push_front moves the others by one. *)
<1>PrependAt.
    ASSUME NEW s \in Seq(Nat), NEW p \in Nat, At(s, p) = {}
    PROVE  /\ <<p>> \o s \in Seq(Nat)
           /\ At(<<p>> \o s, p) = {1}
           /\ \A q \in Nat \ {p} : /\ At(s, q) = {} => At(<<p>> \o s, q) = {}
                                   /\ \A x : At(s, q) = {x} => At(<<p>> \o s, q) = {x + 1}
  <2> USE <1>PrependAt
  <2> DEFINE t == <<p>> \o s
  <2>1. t \in Seq(Nat) /\ Len(t) = Len(s) + 1 /\ t[1] = p /\ Len(s) \in Nat
    OBVIOUS
  <2>2. \A i \in 2 .. Len(s) + 1 : i - 1 \in 1 .. Len(s) /\ t[i] = s[i - 1]
    OBVIOUS
  <2> HIDE DEF t
  <2>0. ASSUME NEW q \in Nat, NEW i \in At(t, q), i # 1
        PROVE  i \in 2 .. Len(s) + 1 /\ i - 1 \in At(s, q)
    <3>1. i \in 2 .. Len(s) + 1 /\ t[i] = q
      BY <2>0, <2>1, SMTT(30) DEF At
    <3> QED  BY <2>2, <3>1, SMTT(30) DEF At
  <2>3. At(t, p) = {1}
    <3>1. 1 \in At(t, p)
      BY <2>1, SMTT(30) DEF At
    <3> QED  BY <2>0, <3>1, SMTT(30)
  <2>4. ASSUME NEW q \in Nat \ {p}, At(s, q) = {} PROVE At(t, q) = {}
    <3>1. 1 \notin At(t, q)
      BY <2>1, SMTT(30) DEF At
    <3> QED  BY <2>0, <2>4, <3>1, SMTT(20)
  <2>5. ASSUME NEW q \in Nat \ {p}, NEW x, At(s, q) = {x} PROVE At(t, q) = {x + 1}
    <3>1. x \in 1 .. Len(s) /\ s[x] = q
      BY <2>5, SMTT(30) DEF At
    <3>2. x + 1 \in 2 .. Len(s) + 1 /\ (x + 1) - 1 = x
      BY <2>1, <3>1, SMTT(30)
    <3>5. t[x + 1] = q
      BY <2>2, <3>1, <3>2, SMTT(20)
    <3>3. ASSUME NEW i \in At(t, q) PROVE i = x + 1
      <4>1. i # 1
        BY <2>1, SMTT(30) DEF At
      <4> QED  BY <2>0, <2>5, <4>1, SMTT(20)
    <3>4. x + 1 \in At(t, q)
      BY <2>1, <3>2, <3>5, SMTT(20) DEF At
    <3> QED  BY <3>3, <3>4, SMTT(20)
  <2> QED
    BY <2>1, <2>3, <2>4, <2>5, SMTT(20) DEF t
(* pop_front takes the first and moves the others back. *)
<1>TailAt.
    ASSUME NEW s \in Seq(Nat), s # << >>, NEW x, At(s, Head(s)) = {x}
    PROVE  /\ Tail(s) \in Seq(Nat) /\ Head(s) \in Nat
           /\ At(Tail(s), Head(s)) = {}
           /\ \A q \in Nat \ {Head(s)} :
                /\ At(s, q) = {} => At(Tail(s), q) = {}
                /\ \A y : At(s, q) = {y} => At(Tail(s), q) = {y - 1}
  <2> USE <1>TailAt
  <2> DEFINE t == Tail(s)  p == Head(s)
  <2>1. t \in Seq(Nat) /\ p \in Nat /\ Len(s) \in Nat \ {0} /\ Len(t) = Len(s) - 1 /\ s[1] = p
    BY SMTT(30)
  <2>2. \A i \in 1 .. Len(s) - 1 : i + 1 \in 1 .. Len(s) /\ t[i] = s[i + 1]
    BY SMTT(30)
  <2>3. At(s, p) = {1}
    <3>1. 1 \in At(s, p)
      BY <2>1, SMTT(30) DEF At
    <3> QED  BY <3>1, SMTT(30)
  <2> HIDE DEF t, p
  <2>0. ASSUME NEW q \in Nat, NEW i \in At(t, q)
        PROVE  i \in 1 .. Len(s) - 1 /\ i + 1 \in At(s, q)
    <3>1. i \in 1 .. Len(s) - 1 /\ t[i] = q
      BY <2>1, SMTT(30) DEF At
    <3> QED  BY <2>2, <3>1, SMTT(20) DEF At
  <2>4. At(t, p) = {}
    BY <2>0, <2>1, <2>3, SMTT(20)
  <2>5. ASSUME NEW q \in Nat \ {p}, At(s, q) = {} PROVE At(t, q) = {}
    BY <2>0, <2>5, SMTT(20)
  <2>6. ASSUME NEW q \in Nat \ {p}, NEW y, At(s, q) = {y} PROVE At(t, q) = {y - 1}
    <3>1. y \in 1 .. Len(s) /\ s[y] = q
      BY <2>6, SMTT(30) DEF At
    <3>2. y - 1 \in 1 .. Len(s) - 1 /\ (y - 1) + 1 = y
      BY <2>1, <3>1, SMTT(20)
    <3>3. y - 1 \in At(t, q)
      BY <2>1, <2>2, <3>1, <3>2, SMTT(20) DEF At
    <3>4. ASSUME NEW i \in At(t, q) PROVE i = y - 1
      BY <2>0, <2>6, <3>1, SMTT(20)
    <3> QED  BY <3>3, <3>4, SMTT(20)
  <2> QED
    BY <2>1, <2>4, <2>5, <2>6, SMTT(20) DEF t, p
(* The operations *)

(* reserve_entry creates a process that is in no place. *)
<1>ReserveStep.
    ASSUME PlaceInv, NEW h \in Harts, ReserveInit(h) \/ ReserveProcess(h)
    PROVE  PlaceInv'
  <2> USE <1>ReserveStep
  <2>1. PICK to \in { "make_initcode", "allocate" } :
          /\ pc' = [pc EXCEPT ![h] = to] /\ pc[h] \in { "reserve_init", "reserve" }
          /\ to = "make_initcode" => pc[h] = "reserve_init"
          /\ \E id \in Pool : reserve_entry(id) /\ pid' = [pid EXCEPT ![h] = id]
          /\ UNCHANGED << ready_queue, running, manager >>
    BY DEF ReserveInit, ReserveProcess, Reserve, Goto
  <2>2. PICK id \in Pool : reserve_entry(id) /\ pid' = [pid EXCEPT ![h] = id]
    BY <2>1, ZenonT(40)
  <2>3. /\ IdsInv' /\ Initialised' = Initialised /\ id \in Nat /\ id \notin DOMAIN active_slots
        /\ DOMAIN active_slots' = DOMAIN active_slots \cup {id}
    BY <2>2, ReserveEntry, SMTT(20) DEF PlaceInv
  <2>4. /\ manager = h
        /\ \A k \in Harts \ {h} : pc'[k] = pc[k] /\ pid'[k] = pid[k] /\ pc[k] \notin Holding
    BY <2>1, <2>2, SMTT(20) DEF PlaceInv, HartsInv, Holding
  <2>5. pc'[h] = to /\ pid'[h] = id /\ DOMAIN pc' = Harts /\ pid' \in [Harts -> Nat \cup {NoPid}]
    BY <2>1, <2>2, <2>3, SMTT(20) DEF PlaceInv, HartsInv
  <2>6. HartsInv'
    <3>1. \A k \in Harts : pc'[k] \in Holding => manager' = k
      BY <2>1, <2>4, SMTT(20)
    <3>2. \A k \in Harts : pc'[k] \in Yielding => pid'[k] # NoPid
      BY <2>1, <2>4, <2>5, SMTT(20) DEF PlaceInv, HartsInv, Yielding
    <3>3. \A k \in Harts : pc'[k] \in Taking => running'[k] = NoPid
      <4>1. to \in Taking => pc[h] \in Taking
        BY <2>1, SMTT(20) DEF Taking
      <4> QED  BY <2>1, <2>4, <2>5, <4>1, SMTT(20) DEF PlaceInv, HartsInv
    <3>4. \A k \in Harts : pc'[k] \in Creating => pid'[k] \in DOMAIN active_slots' \ Initialised'
      <4>1. id \notin Initialised
        BY <2>3, SMTT(30) DEF Initialised
      <4>2. Creating \subseteq Holding
        BY DEF Creating, Holding
      <4> QED  BY <2>3, <2>4, <2>5, <4>1, <4>2, SMTT(20)
    <3> QED  BY <2>1, <2>5, <3>1, <3>2, <3>3, <3>4, SMTT(20) DEF PlaceInv, HartsInv
  <2>7. PlacesInv'
    <3>1. ASSUME NEW q \in Nat
          PROVE  Queued(q)' = Queued(q) /\ Executing(q)' = Executing(q) /\ PutBack(q)' = PutBack(q)
      <4>1. Queued(q)' = Queued(q) /\ Executing(q)' = Executing(q)
        BY <2>1, SMTT(30) DEF Queued, Executing
      <4>2. pc[h] \notin Yielding /\ pc'[h] \notin Yielding
        BY <2>1, <2>5, SMTT(20) DEF Yielding
      <4>3. PutBack(q)' = PutBack(q)
        BY <2>4, <4>2, SMTT(30) DEF PutBack
      <4> QED  BY <4>1, <4>3, SMTT(20)
    <3>2. (IF id \in Initialised THEN OnePlace(id) ELSE Nowhere(id))'
      BY <2>3, <3>1, Zenon DEF PlaceInv, PlacesInv, OnePlace, Nowhere
    <3> QED  BY <2>1, <2>3, <3>1, <3>2, <1>OneMoves, ZenonT(40) DEF PlaceInv, PlacesInv
  <2> QED
    BY <2>3, <2>6, <2>7, SMTT(20) DEF PlaceInv
(* The process is initialised and put into the queue, at either end. *)
<1>EnqueueStep.
    ASSUME PlaceInv, NEW h \in Harts, create_initcode(h) \/ create_process(h)
    PROVE  PlaceInv'
  <2> USE <1>EnqueueStep
  <2>0. PICK p : p = pid[h]
    BY SMTT(30)
  <2>1. PICK to \in { "idle", "init_dispatch" } :
          /\ pc' = [pc EXCEPT ![h] = to] /\ pc[h] \in { "enqueue_init", "enqueue" }
          /\ to = "init_dispatch" => pc[h] = "enqueue_init"
          /\ initialise_entry(p) /\ pid' = [pid EXCEPT ![h] = NoPid]
          /\ ready_queue' \in { Append(ready_queue, p), <<p>> \o ready_queue }
          /\ UNCHANGED running
    BY <2>0, SMTT(30) DEF create_initcode, create_process, Enqueue, Goto
  <2>2. p \in DOMAIN active_slots \ Initialised /\ pc[h] \in Holding /\ pc[h] \notin Yielding
    BY <2>0, <2>1, SMTT(30) DEF PlaceInv, HartsInv, Holding, Creating, Yielding
  <2>3. p \in Nat
    BY <2>2, SMTT(20) DEF PlaceInv, IdsInv, IdsPartitioned
  <2>4. IdsInv' /\ Initialised' = Initialised \cup {p}
    BY <2>1, InitialiseEntry, SMTT(20) DEF PlaceInv
  <2>5. /\ \A k \in Harts \ {h} : pc'[k] = pc[k] /\ pid'[k] = pid[k]
        /\ pc'[h] = to /\ pid' \in [Harts -> Nat \cup {NoPid}]
    BY <2>1, SMTT(30) DEF PlaceInv, HartsInv
  <2>6. HartsInv'
    <3>1. running[h] = NoPid \/ to = "idle"
      BY <2>1, SMTT(20) DEF PlaceInv, HartsInv, Taking
    <3>2. running' = running /\ running' \in [Harts -> Nat \cup {NoPid}]
      BY <2>1, SMTT(20) DEF PlaceInv, HartsInv
    <3>3. to = "init_dispatch" => running'[h] = NoPid
      BY <3>1, <3>2, SMTT(20)
    <3> QED  BY <2>1, <2>2, <2>5, <3>2, <3>3, <1>Release, ZenonT(40) DEF PlaceInv
  <2>7. ready_queue \in Seq(Nat) /\ At(ready_queue, p) = {} /\ Executing(p) = {} /\ PutBack(p) = {}
    BY <2>2, <2>3, SMTT(20) DEF PlaceInv, PlacesInv, Nowhere, Queued, At
  <2>8. ASSUME NEW q \in Nat PROVE Executing(q)' = Executing(q) /\ PutBack(q)' = PutBack(q)
    <3>1. pc'[h] \notin Yielding
      BY <2>5, SMTT(30) DEF Yielding
    <3> QED  BY <2>1, <2>2, <2>5, <3>1, SMTT(20) DEF Executing, PutBack
  <2>9. /\ ready_queue' \in Seq(Nat)
        /\ \E x : At(ready_queue', p) = {x}
        /\ \A q \in Nat \ {p} : /\ At(ready_queue, q) = {} => At(ready_queue', q) = {}
                               /\ \A x : At(ready_queue, q) = {x} => \E y : At(ready_queue', q) = {y}
    <3>1. CASE ready_queue' = Append(ready_queue, p)
      BY <2>3, <2>7, <3>1, <1>AppendAt, ZenonT(40)
    <3>2. CASE ready_queue' = <<p>> \o ready_queue
      <4>1. /\ <<p>> \o ready_queue \in Seq(Nat)
            /\ At(<<p>> \o ready_queue, p) = {1}
            /\ \A q \in Nat \ {p} :
                 /\ At(ready_queue, q) = {} => At(<<p>> \o ready_queue, q) = {}
                 /\ \A x : At(ready_queue, q) = {x} => At(<<p>> \o ready_queue, q) = {x + 1}
        BY <2>3, <2>7, <1>PrependAt, ZenonT(40)
      <4> QED  BY <3>2, <4>1, Zenon
    <3> QED  BY <2>1, <3>1, <3>2, ZenonT(40)
  <2>10. PlacesInv'
    <3>1. OnePlace(p)'
      <4>1. (\E x : Queued(p)' = {x}) /\ Executing(p)' = {} /\ PutBack(p)' = {}
        BY <2>3, <2>7, <2>8, <2>9, ZenonT(40) DEF Queued, At
      <4> QED  BY <4>1, SMTT(30) DEF OnePlace
    <3>2. \A q \in Nat \ {p} :
            /\ q \in Initialised' <=> q \in Initialised
            /\ Queued(q) = {} => Queued(q)' = {}
            /\ \A x : Queued(q) = {x} => \E y : Queued(q)' = {y}
      BY <2>4, <2>9, ZenonT(40) DEF Queued, At
    <3> QED  BY <2>3, <2>4, <2>8, <2>9, <3>1, <3>2, <1>OneMoves, ZenonT(40) DEF PlaceInv
  <2> QED
    BY <2>4, <2>6, <2>10, SMTT(20) DEF PlaceInv
(* pop_one moves the head of the queue to a hart without a process. *)
<1>PopStep.
    ASSUME PlaceInv, NEW h \in Harts, pop_one(h) \/ PopInit(h)
    PROVE  PlaceInv'
  <2> USE <1>PopStep
  <2>0. PICK p : p = Head(ready_queue)
    BY SMTT(30)
  <2>1. /\ ready_queue # << >> /\ ready_queue' = Tail(ready_queue)
        /\ pc[h] \in { "pop_one", "init_pop_one" } /\ pc' = [pc EXCEPT ![h] = "idle"]
        /\ running' = [running EXCEPT ![h] = p]
        /\ UNCHANGED << tableVars, pid >>
    BY <2>0, SMTT(30) DEF pop_one, PopInit, PopOne, Goto, AfterPop
  <2>2. IdsInv' /\ Initialised' = Initialised
    BY <2>1, SMTT(20) DEF PlaceInv, IdsInv, IdsPartitioned, Initialised, tableVars
  <2>3. pc[h] \in Holding /\ pc[h] \in Taking /\ pc[h] \notin Yielding /\ pc'[h] \notin Yielding
    BY <2>1, SMTT(30) DEF PlaceInv, HartsInv, Holding, Taking, Yielding
  <2>4. ready_queue \in Seq(Nat) /\ p \in Nat /\ 1 \in At(ready_queue, p)
    BY <2>0, <2>1, SMTT(30) DEF PlaceInv, PlacesInv, At
  <2>5. /\ p \in Initialised /\ Executing(p) = {} /\ PutBack(p) = {}
        /\ \E x : At(ready_queue, p) = {x}
    BY <2>4, Zenon DEF PlaceInv, PlacesInv, OnePlace, Nowhere, Queued, At
  <2>6. /\ ready_queue' \in Seq(Nat) /\ At(ready_queue', p) = {}
        /\ \A q \in Nat \ {p} : /\ At(ready_queue, q) = {} => At(ready_queue', q) = {}
                               /\ \A x : At(ready_queue, q) = {x} => At(ready_queue', q) = {x - 1}
    BY <2>0, <2>1, <2>4, <2>5, <1>TailAt, ZenonT(40)
  <2>7. running[h] = NoPid /\ NoPid \notin Nat
    BY <2>3, ProcessManagerAssumption, SMTT(30) DEF PlaceInv, HartsInv
  <2>8. HartsInv'
    <3>1. pid' \in [Harts -> Nat \cup {NoPid}] /\ running' \in [Harts -> Nat \cup {NoPid}]
      BY <2>1, <2>4, SMTT(20) DEF PlaceInv, HartsInv
    <3>2. \A k \in Harts \ {h} : pid'[k] = pid[k] /\ running'[k] = running[k]
      BY <2>1, SMTT(20) DEF PlaceInv, HartsInv
    <3> QED  BY <2>1, <2>3, <3>1, <3>2, <1>Release, ZenonT(40) DEF PlaceInv
  <2>9. Executing(p)' = {h} /\ \A q \in Nat \ {p} : Executing(q)' = Executing(q)
    BY <2>1, <2>5, <2>7, SMTT(20) DEF PlaceInv, HartsInv, Executing
  <2>10. \A q \in Nat : PutBack(q)' = PutBack(q)
    BY <2>1, <2>3, SMTT(30) DEF PlaceInv, HartsInv, PutBack
  <2>11. PlacesInv'
    <3>1. OnePlace(p)'
      <4>1. Queued(p)' = {} /\ Executing(p)' = {h} /\ PutBack(p)' = {}
        BY <2>4, <2>5, <2>6, <2>9, <2>10, ZenonT(40) DEF Queued, At
      <4> QED  BY <4>1, Zenon DEF OnePlace
    <3>2. \A q \in Nat \ {p} :
            /\ Queued(q) = {} => Queued(q)' = {}
            /\ \A x : Queued(q) = {x} => \E y : Queued(q)' = {y}
      BY <2>6, Zenon DEF Queued, At
    <3> QED  BY <2>2, <2>4, <2>5, <2>6, <2>9, <2>10, <3>1, <3>2, <1>OneMoves, ZenonT(40) DEF PlaceInv
  <2> QED
    BY <2>2, <2>8, <2>11, SMTT(20) DEF PlaceInv
(* take_executing_process moves the process from "executing" to "being put *)
(* back", in the hands of the same hart.                                   *)
<1>TakeStep.
    ASSUME PlaceInv, NEW h \in Harts, take_executing_process(h)
    PROVE  PlaceInv'
  <2> USE <1>TakeStep
  <2>0. PICK p : p = running[h]
    BY SMTT(30)
  <2>1. /\ p # NoPid /\ pc[h] = "idle" /\ pc' = [pc EXCEPT ![h] = "yield"]
        /\ pid' = [pid EXCEPT ![h] = p] /\ running' = [running EXCEPT ![h] = NoPid]
        /\ UNCHANGED << tableVars, ready_queue, manager >>
    BY <2>0, SMTT(20) DEF take_executing_process, Goto
  <2>2. IdsInv' /\ Initialised' = Initialised
    BY <2>1, SMTT(20) DEF PlaceInv, IdsInv, IdsPartitioned, Initialised, tableVars
  <2>3. p \in Nat /\ h \in Executing(p) /\ NoPid \notin Nat
    BY <2>0, <2>1, ProcessManagerAssumption, SMTT(20) DEF PlaceInv, HartsInv, Executing
  <2>4. p \in Initialised /\ Queued(p) = {} /\ Executing(p) = {h} /\ PutBack(p) = {}
    BY <2>3, SMTT(20) DEF PlaceInv, PlacesInv, OnePlace, Nowhere
  <2>5. /\ \A k \in Harts \ {h} : pc'[k] = pc[k] /\ pid'[k] = pid[k] /\ running'[k] = running[k]
        /\ pc'[h] = "yield" /\ pid'[h] = p /\ running'[h] = NoPid /\ DOMAIN pc' = Harts
        /\ pid' \in [Harts -> Nat \cup {NoPid}] /\ running' \in [Harts -> Nat \cup {NoPid}]
    BY <2>1, <2>3, SMTT(20) DEF PlaceInv, HartsInv
  <2>6. HartsInv'
    <3>1. "yield" \notin Holding /\ "yield" \notin Taking /\ "yield" \notin Creating
      BY DEF Holding, Taking, Creating
    <3>2. DOMAIN active_slots' = DOMAIN active_slots
      BY <2>1, SMTT(20) DEF tableVars
    <3> QED  BY <2>1, <2>2, <2>5, <3>1, <3>2, SMTT(20) DEF PlaceInv, HartsInv
  <2>7. \A q \in Nat : Executing(q)' = Executing(q) \ {h}
    BY <2>3, <2>5, SMTT(20) DEF Executing
  <2>8. PutBack(p)' = PutBack(p) \cup {h} /\ \A q \in Nat \ {p} : PutBack(q)' = PutBack(q)
    BY <2>1, <2>5, SMTT(20) DEF PutBack, Yielding
  <2>9. \A q \in Nat \ {p} : h \notin Executing(q)
    BY <2>0, SMTT(30) DEF Executing
  <2>10. PlacesInv'
    <3>1. OnePlace(p)'
      <4>1. Queued(p)' = {} /\ Executing(p)' = {} /\ (\E x : PutBack(p)' = {x})
        BY <2>1, <2>3, <2>4, <2>7, <2>8, ZenonT(40) DEF Queued
      <4> QED  BY <4>1 DEF OnePlace
    <3>2. \A q \in Nat \ {p} : Queued(q)' = Queued(q) /\ Executing(q)' = Executing(q)
      BY <2>1, <2>7, <2>9, SMTT(20) DEF Queued
    <3>3. ready_queue' \in Seq(Nat)
      BY <2>1, SMTT(20) DEF PlaceInv, PlacesInv
    <3> QED  BY <2>2, <2>3, <2>4, <2>8, <3>1, <3>2, <3>3, <1>OneMoves, ZenonT(40) DEF PlaceInv
  <2> QED
    BY <2>2, <2>6, <2>10, SMTT(20) DEF PlaceInv
(* push_one moves it from there to the end of the queue. *)
<1>PushStep.
    ASSUME PlaceInv, NEW h \in Harts, push_one(h)
    PROVE  PlaceInv'
  <2> USE <1>PushStep
  <2>0. PICK p : p = pid[h]
    OBVIOUS
  <2>1. /\ pc[h] = "push_one" /\ pc' = [pc EXCEPT ![h] = "idle"]
        /\ ready_queue' = Append(ready_queue, p) /\ pid' = [pid EXCEPT ![h] = NoPid]
        /\ UNCHANGED << tableVars, running >>
    BY <2>0, SMTT(20) DEF push_one, Goto
  <2>2. IdsInv' /\ Initialised' = Initialised
    BY <2>1, SMTT(20) DEF PlaceInv, IdsInv, IdsPartitioned, Initialised, tableVars
  <2>3. pc[h] \in Holding /\ pc[h] \in Yielding
    BY <2>1, SMTT(20) DEF Holding, Yielding
  <2>4. p \in Nat /\ h \in PutBack(p) /\ NoPid \notin Nat
    BY <2>0, <2>3, ProcessManagerAssumption, SMTT(20) DEF PlaceInv, HartsInv, PutBack
  <2>5. p \in Initialised /\ Queued(p) = {} /\ Executing(p) = {} /\ PutBack(p) = {h}
    BY <2>4, SMTT(20) DEF PlaceInv, PlacesInv, OnePlace, Nowhere
  <2>6. /\ \A k \in Harts \ {h} : pc'[k] = pc[k] /\ pid'[k] = pid[k]
        /\ pc'[h] = "idle" /\ pid' \in [Harts -> Nat \cup {NoPid}]
    BY <2>1, SMTT(30) DEF PlaceInv, HartsInv
  <2>7. HartsInv'
    <3>1. running' = running /\ running' \in [Harts -> Nat \cup {NoPid}]
      BY <2>1, SMTT(20) DEF PlaceInv, HartsInv
    <3> QED  BY <2>1, <2>3, <2>6, <3>1, <1>Release, ZenonT(40) DEF PlaceInv
  <2>8. \A q \in Nat : PutBack(q)' = PutBack(q) \ {h} /\ Executing(q)' = Executing(q)
    BY <2>1, <2>6, SMTT(20) DEF PutBack, Executing, Yielding
  <2>9. \A q \in Nat \ {p} : h \notin PutBack(q)
    BY <2>0, SMTT(20) DEF PutBack
  <2>10. /\ ready_queue' \in Seq(Nat) /\ At(ready_queue', p) = {Len(ready_queue) + 1}
         /\ \A q \in Nat \ {p} : At(ready_queue', q) = At(ready_queue, q)
    <3>1. ready_queue \in Seq(Nat) /\ At(ready_queue, p) = {}
      BY <2>5, SMTT(30) DEF PlaceInv, PlacesInv, Queued, At
    <3> QED  BY <2>1, <2>4, <3>1, <1>AppendAt, SMTT(20)
  <2>11. PlacesInv'
    <3>1. OnePlace(p)'
      <4>1. (\E x : Queued(p)' = {x}) /\ Executing(p)' = {} /\ PutBack(p)' = {}
        BY <2>4, <2>5, <2>8, <2>10, ZenonT(40) DEF Queued, At
      <4> QED  BY <4>1, SMTT(30) DEF OnePlace
    <3>2. \A q \in Nat \ {p} : Queued(q)' = Queued(q) /\ PutBack(q)' = PutBack(q)
      <4>1. \A q \in Nat \ {p} : Queued(q)' = Queued(q)
        BY <2>10, ZenonT(40) DEF Queued, At
      <4>2. \A q \in Nat \ {p} : PutBack(q)' = PutBack(q)
        BY <2>8, <2>9, SMTT(20)
      <4> QED  BY <4>1, <4>2, SMTT(20)
    <3> QED  BY <2>2, <2>4, <2>5, <2>8, <2>10, <3>1, <3>2, <1>OneMoves, ZenonT(40) DEF PlaceInv
  <2> QED
    BY <2>2, <2>7, <2>11 DEF PlaceInv
(* All other steps move no process. *)
<1>QuietStep.
    ASSUME PlaceInv, NEW h \in Harts,
           \/ OnPath(h) \/ AllocatePcb(h) \/ AllocatePanic(h) \/ PopPanic(h)
           \/ CallCreateInitcode(h) \/ CallPopInit(h) \/ CallCreateProcess(h) \/ CallPopOne(h)
           \/ CallPushOne(h) \/ Start(h) \/ kmain(h)
           \/ usertrapret_on(h) \/ usertrapret_panic(h) \/ usertrap(h)
    PROVE  PlaceInv'
  <2> USE <1>QuietStep
  <2> USE DEF Goto
  <2>1. CASE OnPath(h)
    <3>1. UNCHANGED << tableVars, ready_queue, running, manager, pid >>
      BY <2>1, Zenon DEF OnPath
    <3>2. PICK to : /\ pc' = [pc EXCEPT ![h] = to]
                    /\ pc[h] \in DOMAIN PathSteps
                    /\ to \in {"panic", pc[h], PathEnd[pc[h]]}
      BY <2>1, ZenonT(40) DEF OnPath, PlaceInv, HartsInv
    <3>3. \/ pc[h] = "mm_init" /\ to \in {"panic", "mm_init", "init"}
          \/ pc[h] = "make_initcode" /\ to \in {"panic", "make_initcode", "enqueue_init"}
          \/ pc[h] = "kmain" /\ to \in {"panic", "kmain"}
      BY <3>2, SMTT(20) DEF PathSteps, PathEnd
    <3>4. to \in Holding => pc[h] \in Holding
      BY <3>3, SMTT(20) DEF Holding
    <3>5. to \in Creating => pc[h] \in Creating
      BY <3>3, SMTT(20) DEF Creating
    <3>6. to \in Taking => pc[h] \in Taking
      BY <3>3, SMTT(20) DEF Taking
    <3>7. pc[h] \notin Yielding /\ to \notin Yielding
      BY <3>3, SMTT(20) DEF Yielding
    <3>8. to \in Holding => manager' = h
      BY <3>1, <3>4, SMTT(20) DEF PlaceInv, HartsInv
    <3> QED  BY <3>1, <3>2, <3>5, <3>6, <3>7, <3>8, <1>NoMove, ZenonT(40)
  <2>2. CASE AllocatePcb(h) \/ AllocatePanic(h) \/ PopPanic(h) \/ Start(h) \/ kmain(h)
             \/ usertrapret_on(h) \/ usertrapret_panic(h) \/ usertrap(h)
    <3>1. PICK to \in { "enqueue", "panic", "idle", "kmain", "user" } :
            /\ pc' = [pc EXCEPT ![h] = to]
            /\ UNCHANGED << tableVars, ready_queue, running, manager, pid >>
            /\ pc[h] \in { "allocate", "pop_one", "boot_wait", "idle", "user" }
            /\ to = "enqueue" => pc[h] = "allocate"
      BY <2>2, ZenonT(40) DEF AllocatePcb, AllocatePanic, PopPanic, Start, kmain, usertrapret_on,
                  usertrapret_panic, usertrap, Panic
    <3>2. to \in Holding => manager' = h
      BY <3>1, SMTT(20) DEF PlaceInv, HartsInv, Holding
    <3>3. /\ to \in Creating => pc[h] \in Creating
          /\ to \notin Taking /\ pc[h] \notin Yielding /\ to \notin Yielding
      BY <3>1, SMTT(20) DEF Creating, Taking, Yielding
    <3> QED  BY <3>1, <3>2, <3>3, <1>NoMove, ZenonT(40)
  <2>3. CASE CallCreateInitcode(h) \/ CallPopInit(h) \/ CallCreateProcess(h) \/ CallPopOne(h)
             \/ CallPushOne(h)
    <3>1. PICK to : /\ pc' = [pc EXCEPT ![h] = to]
                    /\ UNCHANGED << tableVars, ready_queue, running, pid >>
                    /\ manager = NoHart /\ manager' = h
                    /\ \/ pc[h] = "init" /\ to = "reserve_init"
                       \/ pc[h] = "init_dispatch" /\ to = "init_pop_one"
                       \/ pc[h] = "idle" /\ to = "reserve"
                       \/ pc[h] = "idle" /\ to = "pop_one" /\ running[h] = NoPid
                       \/ pc[h] = "yield" /\ to = "push_one"
      BY <2>3, SMTT(20) DEF CallCreateInitcode, CallPopInit, CallCreateProcess, CallPopOne,
         CallPushOne, Lock
    <3>2. to \in Taking => pc[h] \in Taking \/ running[h] = NoPid
      BY <3>1, SMTT(20) DEF Taking
    <3>3. (pc[h] \in Yielding <=> to \in Yielding) /\ to \notin Creating
      BY <3>1, SMTT(30) DEF Yielding, Creating
    <3> QED  BY <3>1, <3>2, <3>3, <1>NoMove, ZenonT(40)
  <2> QED
    BY <2>1, <2>2, <2>3, SMTT(20)
(* No step leaves a process in two places or in none. *)
<1>PlaceNext. PlaceInv /\ [Next]_vars => PlaceInv'
  <2> SUFFICES ASSUME PlaceInv, [Next]_vars PROVE PlaceInv'
    BY SMTT(20)
  <2>1. CASE UNCHANGED vars
    <3>1. UNCHANGED << active_slots, free_ids, capacity, ready_queue, running, manager, pc, pid >>
      BY <2>1, SMTT(20) DEF vars, tableVars
    <3>2. IdsInv' /\ Initialised' = Initialised
      BY <3>1, SMTT(20) DEF PlaceInv, IdsInv, IdsPartitioned, Initialised
    <3>3. HartsInv'
      BY <3>1, <3>2, SMTT(20) DEF PlaceInv, HartsInv
    <3>4. \A p \in Nat : /\ Queued(p)' = Queued(p) /\ Executing(p)' = Executing(p)
                         /\ PutBack(p)' = PutBack(p)
      BY <3>1, SMTT(30) DEF Queued, Executing, PutBack
    <3>5. \A p \in Nat : OnePlace(p)' = OnePlace(p) /\ Nowhere(p)' = Nowhere(p)
      BY <3>4, Zenon DEF OnePlace, Nowhere
    <3>6. PlacesInv'
      BY <3>1, <3>2, <3>5, ZenonT(40) DEF PlaceInv, PlacesInv
    <3> QED  BY <3>2, <3>3, <3>6, SMTT(20) DEF PlaceInv
  <2>2. CASE Next
    BY <2>2, <1>ReserveStep, <1>EnqueueStep, <1>PopStep, <1>TakeStep, <1>PushStep, <1>QuietStep, SMTT(20)
       DEF Next, InManager
  <2> QED  BY <2>1, <2>2, SMTT(20)
<1> QED
  BY <1>PlaceNext, SMTT(30)

-----------------------------------------------------------------------------
(* The memory under the manager *)

(* What ties the memory to the manager: kernel stacks are of processes in  *)
(* the table, a process that is being created has none, and the harts      *)
(* create processes when the path has come to lock_space.  A hart that is  *)
(* in user mode executes init, with its own id in the trap context.        *)
MemoryInv ==
  /\ SpaceInv
  /\ manager \in Harts \cup {NoHart}
  /\ pc[Hart0] # "boot_wait"
  /\ DOMAIN kernel_stacks \subseteq DOMAIN active_slots
  /\ \A h \in Harts : pid[h] # NoPid => pid[h] \in DOMAIN active_slots
  /\ \A h \in Harts : pc[h] \in {"reserve", "allocate"} => step \in Late \cup Stopped
  /\ \A h \in Harts : pc[h] = "allocate" => pid[h] \notin DOMAIN kernel_stacks
  /\ \A h \in Harts : pc[h] = "kmain" => h = Hart0 /\ running[h] = InitPid
  /\ \A h \in Harts : pc[h] = "user" => /\ running[h] = InitPid
                                        /\ pcb.trap_context # 0 /\ pcb.tp = h
  /\ step \in {"userret", "user"} => pcb.tp = Hart0


(* A process that a hart executes is in the table, initialised. *)
LEMMA Executed ==
  ASSUME PlaceInv, NEW h \in Harts, running[h] # NoPid
  PROVE  running[h] \in Initialised /\ running[h] \in DOMAIN active_slots
<1>1. running[h] \in Nat
  BY SMTT(30) DEF PlaceInv, HartsInv
<1>2. PICK p \in Nat : p = running[h]
  BY <1>1, SMTT(30)
<1>3. h \in Executing(p)
  BY <1>2, SMTT(30) DEF Executing
<1>4. p \in Initialised
  BY <1>3, SMTT(20) DEF PlaceInv, PlacesInv, Nowhere
<1> QED
  BY <1>2, <1>4, SMTT(20) DEF Initialised

(* It holds initially, and every step keeps it. *)
LEMMA MemoryInit == Init => MemoryInv
<1> SUFFICES ASSUME Init PROVE MemoryInv
  OBVIOUS
<1>1. SpaceInv
  BY SpaceInvInit, SMTT(20) DEF Init
<1>2. /\ \A h \in Harts : pid[h] = NoPid /\ pc[h] \in {"mm_init", "boot_wait"}
      /\ manager = NoHart /\ step = "make_kernel" /\ kernel_stacks = << >>
  BY DEF Init, InitSpaces
<1>3. pc[Hart0] = "mm_init"
  BY ProcessManagerAssumption, SMTT(30) DEF Init
<1> QED
  BY <1>1, <1>2, <1>3, SMTT(20) DEF MemoryInv

(* Every step keeps the invariant, and touches the memory only as the      *)
(* spaces allow.                                                           *)
LEMMA MemoryNext ==
  PlaceInv /\ MemoryInv /\ [Next]_vars => MemoryInv' /\ [SpaceNext]_spaceVars
(* A step of hart h that leaves the memory alone. *)
<1>MemoryAlone.
    ASSUME PlaceInv, MemoryInv, NEW h \in Harts, UNCHANGED spaceVars,
           manager' \in Harts \cup {NoHart},
           DOMAIN active_slots \subseteq DOMAIN active_slots',
           \A k \in Harts \ {h} : /\ pc'[k] = pc[k]
                                  /\ pid'[k] = pid[k] /\ running'[k] = running[k],
           pid'[h] # NoPid => pid'[h] \in DOMAIN active_slots',
           pc'[h] \in {"reserve", "allocate"} => step \in Late \cup Stopped,
           pc'[h] = "allocate" => pid'[h] \notin DOMAIN kernel_stacks,
           pc'[h] = "kmain" => h = Hart0 /\ running'[h] = InitPid,
           pc'[h] \notin {"user", "boot_wait"}
    PROVE  MemoryInv'
  <2> USE <1>MemoryAlone
  <2>1. /\ UNCHANGED << image, free, spaces, loaded, locked, op, kernel_stacks, step >>
        /\ UNCHANGED pcb
    BY Zenon DEF spaceVars
  <2>2. SpaceInv'
    BY SpaceInvKept, Zenon DEF MemoryInv
  <2>4. DOMAIN kernel_stacks' \subseteq DOMAIN active_slots'
    BY <2>1, ZenonT(40) DEF MemoryInv
  <2>5. pc'[Hart0] # "boot_wait"
    BY ProcessManagerAssumption, Zenon DEF MemoryInv
  <2>6. ASSUME NEW k \in Harts
        PROVE  /\ pid'[k] # NoPid => pid'[k] \in DOMAIN active_slots'
               /\ pc'[k] \in {"reserve", "allocate"} => step' \in Late \cup Stopped
               /\ pc'[k] = "allocate" => pid'[k] \notin DOMAIN kernel_stacks'
               /\ pc'[k] = "kmain" => k = Hart0 /\ running'[k] = InitPid
               /\ pc'[k] = "user" => running'[k] = InitPid /\ pcb'.trap_context # 0 /\ pcb'.tp = k
    <3>1. CASE k = h
      BY <2>1, <3>1, ZenonT(40)
    <3>2. CASE k # h
      <4>1. /\ pid[k] # NoPid => pid[k] \in DOMAIN active_slots
            /\ pc[k] \in {"reserve", "allocate"} => step \in Late \cup Stopped
            /\ pc[k] = "allocate" => pid[k] \notin DOMAIN kernel_stacks
            /\ pc[k] = "kmain" => k = Hart0 /\ running[k] = InitPid
            /\ pc[k] = "user" => running[k] = InitPid /\ pcb.trap_context # 0 /\ pcb.tp = k
        BY Zenon DEF MemoryInv
      <4>2. pc'[k] = pc[k] /\ pid'[k] = pid[k] /\ running'[k] = running[k]
        BY <3>2, Zenon
      <4>3. step' = step /\ kernel_stacks' = kernel_stacks /\ pcb' = pcb
        BY <2>1, Zenon
      <4> QED  BY <4>1, <4>2, <4>3, Zenon
    <3> QED  BY <3>1, <3>2, Zenon
  <2>7. step' \in {"userret", "user"} => pcb'.tp = Hart0
    <3>1. step \in {"userret", "user"} => pcb.tp = Hart0
      BY Zenon DEF MemoryInv
    <3>2. step' = step /\ pcb' = pcb
      BY <2>1, Zenon
    <3> QED  BY <3>1, <3>2, Zenon
  <2> QED
    BY <2>2, <2>4, <2>5, <2>6, <2>7, ZenonT(40) DEF MemoryInv
(* The operations of the manager, but for the allocation of the stack. *)
<1>MemoryManager.
    ASSUME PlaceInv, MemoryInv, NEW h \in Harts,
           \/ ReserveInit(h) \/ ReserveProcess(h) \/ create_initcode(h) \/ create_process(h)
           \/ PopInit(h) \/ pop_one(h) \/ push_one(h) \/ take_executing_process(h)
    PROVE  MemoryInv' /\ UNCHANGED spaceVars
  <2> USE <1>MemoryManager
  <2>0. /\ pid \in [Harts -> Nat \cup {NoPid}] /\ running \in [Harts -> Nat \cup {NoPid}]
        /\ h \in Harts \cup {NoHart} /\ DOMAIN pc = Harts /\ manager \in Harts \cup {NoHart}
    BY ZenonT(40) DEF PlaceInv, HartsInv, MemoryInv
  <2>1. CASE ReserveInit(h) \/ ReserveProcess(h)
    <3>1. PICK to \in { "make_initcode", "allocate" } :
            /\ pc' = [pc EXCEPT ![h] = to]
            /\ to = "allocate" => pc[h] = "reserve"
            /\ \E id \in Pool : reserve_entry(id) /\ pid' = [pid EXCEPT ![h] = id]
            /\ UNCHANGED << running, manager, spaceVars >>
      BY <2>1 DEF ReserveInit, ReserveProcess, Reserve, Goto
    <3>2. PICK id \in Pool : reserve_entry(id) /\ pid' = [pid EXCEPT ![h] = id]
      BY <3>1, Zenon
    <3>3. /\ id \notin DOMAIN active_slots
          /\ DOMAIN active_slots' = DOMAIN active_slots \cup {id}
      BY <3>2, ReserveEntry, SMTT(20) DEF PlaceInv
    <3>4. pid'[h] = id /\ pc'[h] = to
          /\ \A k \in Harts \ {h} : pc'[k] = pc[k] /\ pid'[k] = pid[k] /\ running'[k] = running[k]
      BY <2>0, <3>1, <3>2, SMTT(20)
    <3>5. id \notin DOMAIN kernel_stacks
      BY <3>3, Zenon DEF MemoryInv
    <3>6. to \in {"reserve", "allocate"} => step \in Late \cup Stopped
      BY <3>1, ZenonT(40) DEF MemoryInv
    <3> QED  BY <2>0, <3>1, <3>3, <3>4, <3>5, <3>6, <1>MemoryAlone, SMTT(20)
  <2>2. CASE create_initcode(h) \/ create_process(h)
    <3>1. PICK to \in { "idle", "init_dispatch" } :
            /\ pc' = [pc EXCEPT ![h] = to] /\ initialise_entry(pid[h])
            /\ pid' = [pid EXCEPT ![h] = NoPid] /\ manager' = NoHart
            /\ UNCHANGED << running, spaceVars >>
      BY <2>2, SMTT(20) DEF create_initcode, create_process, Enqueue, Goto
    <3>2. DOMAIN active_slots \subseteq DOMAIN active_slots'
      BY <3>1, SMTT(20) DEF initialise_entry, With
    <3>3. pid'[h] = NoPid /\ pc'[h] = to
          /\ \A k \in Harts \ {h} : pc'[k] = pc[k] /\ pid'[k] = pid[k] /\ running'[k] = running[k]
      BY <2>0, <3>1, SMTT(20)
    <3> QED  BY <2>0, <3>1, <3>2, <3>3, <1>MemoryAlone, SMTT(20)
  <2>3. CASE PopInit(h) \/ pop_one(h)
    <3>1. /\ pc' = [pc EXCEPT ![h] = "idle"] /\ running' = [running EXCEPT ![h] = Head(ready_queue)]
          /\ manager' = NoHart
          /\ UNCHANGED << tableVars, spaceVars, pid >>
      BY <2>3, SMTT(20) DEF PopInit, pop_one, PopOne, Goto
    <3>2. pc'[h] = "idle"
          /\ \A k \in Harts \ {h} : pc'[k] = pc[k] /\ pid'[k] = pid[k] /\ running'[k] = running[k]
      BY <2>0, <3>1, SMTT(20)
    <3>3. active_slots' = active_slots
      BY <3>1, SMTT(20) DEF tableVars
    <3>4. pid'[h] # NoPid => pid'[h] \in DOMAIN active_slots'
      BY <3>1, <3>3, ZenonT(40) DEF MemoryInv
    <3> QED  BY <2>0, <3>1, <3>2, <3>3, <3>4, <1>MemoryAlone, SMTT(20)
  <2>4. CASE push_one(h)
    <3>1. /\ pc' = [pc EXCEPT ![h] = "idle"] /\ pid' = [pid EXCEPT ![h] = NoPid]
          /\ manager' = NoHart
          /\ UNCHANGED << tableVars, spaceVars, running >>
      BY <2>4, SMTT(20) DEF push_one, Goto
    <3>2. pid'[h] = NoPid /\ pc'[h] = "idle"
          /\ \A k \in Harts \ {h} : pc'[k] = pc[k] /\ pid'[k] = pid[k] /\ running'[k] = running[k]
      BY <2>0, <3>1, SMTT(20)
    <3>3. active_slots' = active_slots
      BY <3>1, SMTT(20) DEF tableVars
    <3> QED  BY <2>0, <3>1, <3>2, <3>3, <1>MemoryAlone, SMTT(20)
  <2>5. CASE take_executing_process(h)
    <3>1. /\ pc' = [pc EXCEPT ![h] = "yield"] /\ pid' = [pid EXCEPT ![h] = running[h]]
          /\ running[h] # NoPid /\ running' = [running EXCEPT ![h] = NoPid]
          /\ UNCHANGED << tableVars, manager, spaceVars >>
      BY <2>5, SMTT(20) DEF take_executing_process, Goto
    <3>2. pid'[h] = running[h] /\ pc'[h] = "yield"
          /\ \A k \in Harts \ {h} : pc'[k] = pc[k] /\ pid'[k] = pid[k] /\ running'[k] = running[k]
      BY <2>0, <3>1, SMTT(20)
    <3>3. active_slots' = active_slots
      BY <3>1, SMTT(20) DEF tableVars
    <3>4. running[h] \in DOMAIN active_slots
      BY <3>1, Executed, SMTT(20)
    <3> QED  BY <2>0, <3>1, <3>2, <3>3, <3>4, <1>MemoryAlone, SMTT(20)
  <2> QED
    BY <2>1, <2>2, <2>3, <2>4, <2>5, SMTT(20)
(* The locks, the panics, and the ways to and from user mode that write no *)
(* trap context.                                                           *)
<1>MemoryQuiet.
    ASSUME PlaceInv, MemoryInv, NEW h \in Harts,
           \/ AllocatePanic(h) \/ PopPanic(h) \/ CallCreateInitcode(h) \/ CallPopInit(h)
           \/ CallCreateProcess(h) \/ CallPopOne(h) \/ CallPushOne(h) \/ Start(h) \/ kmain(h)
           \/ usertrapret_panic(h) \/ usertrap(h)
    PROVE  MemoryInv' /\ UNCHANGED spaceVars
  <2> USE <1>MemoryQuiet
  <2>0. DOMAIN pc = Harts /\ manager \in Harts \cup {NoHart}
    BY Zenon DEF PlaceInv, HartsInv, MemoryInv
  <2> DEFINE Quiet(to) ==
               /\ pc' = [pc EXCEPT ![h] = to]
               /\ UNCHANGED << tableVars, spaceVars, running, pid >>
               /\ manager' \in {manager, h}
               /\ \/ to \in {"panic", "reserve_init", "init_pop_one", "pop_one", "push_one", "idle"}
                  \/ to = "reserve" /\ Shared
                  \/ to = "kmain" /\ running[h] = InitPid
                     /\ \A other \in Harts \ {h} : pc[other] = "boot_wait"
  <2>1. PICK to : Quiet(to)
    <3>1. AllocatePanic(h) => Quiet("panic")
      BY ZenonT(40) DEF AllocatePanic, Panic, Goto
    <3>2. PopPanic(h) => Quiet("panic")
      BY SMTT(20) DEF PopPanic, Panic, Goto
    <3>3. CallCreateInitcode(h) => Quiet("reserve_init")
      BY SMTT(20) DEF CallCreateInitcode, Lock, Goto
    <3>4. CallPopInit(h) => Quiet("init_pop_one")
      BY SMTT(20) DEF CallPopInit, Lock, Goto
    <3>5. CallCreateProcess(h) => Quiet("reserve")
      BY SMTT(20) DEF CallCreateProcess, Lock, Goto
    <3>6. CallPopOne(h) => Quiet("pop_one")
      BY SMTT(20) DEF CallPopOne, Lock, Goto
    <3>7. CallPushOne(h) => Quiet("push_one")
      BY SMTT(20) DEF CallPushOne, Lock, Goto
    <3>8. Start(h) => Quiet("idle")
      BY SMTT(20) DEF Start, Goto
    <3>9. kmain(h) => Quiet("kmain")
      BY Zenon DEF kmain, Goto
    <3>10. usertrapret_panic(h) => Quiet("panic")
      BY SMTT(20) DEF usertrapret_panic, Panic, Goto
    <3>11. usertrap(h) => Quiet("idle")
      BY SMTT(20) DEF usertrap, Goto
    <3> QED  BY <3>1, <3>2, <3>3, <3>4, <3>5, <3>6, <3>7, <3>8, <3>9, <3>10, <3>11, ZenonT(40)
  <2>2. to = "kmain" => h = Hart0 /\ running[h] = InitPid
    BY <2>1, ProcessManagerAssumption, SMTT(20) DEF MemoryInv
  <2>3. to = "reserve" => step \in Late \cup Stopped
    BY <2>1, SMTT(20) DEF Shared, Late
  <2>4. pc'[h] = to /\ \A k \in Harts \ {h} : pc'[k] = pc[k]
    BY <2>0, <2>1, SMTT(20)
  <2>5. active_slots' = active_slots /\ running' = running /\ pid' = pid
        /\ manager' \in Harts \cup {NoHart}
    BY <2>0, <2>1, SMTT(20) DEF tableVars
  <2>6. pid[h] # NoPid => pid[h] \in DOMAIN active_slots
    BY ZenonT(40) DEF MemoryInv
  <2>7. to \notin {"user", "boot_wait", "allocate"}
    BY <2>1, SMTT(20)
  <2>8. UNCHANGED spaceVars
    BY <2>1, SMTT(20)
  <2> QED
    BY <2>2, <2>3, <2>4, <2>5, <2>6, <2>7, <2>8, <1>MemoryAlone, SMTT(20)
(* process::init is over when the path has come to lock_space. *)
<1>LateIsUnderway. Late \cup Stopped \subseteq Underway
  BY DEF Late, Second, Underway
(* The kernel stack of a process that is being created. *)
<1>MemoryStack.
    ASSUME PlaceInv, MemoryInv, NEW h \in Harts, AllocatePcb(h)
    PROVE  MemoryInv' /\ SpaceNext
  <2> USE <1>MemoryStack
  <2>0. PICK p : p = pid[h]
    BY SMTT(30)
  <2>1. PICK f \in free : AllocateStack(p, f)
    BY <2>0, SMTT(20) DEF AllocatePcb
  <2>2. /\ pc[h] = "allocate" /\ pc' = [pc EXCEPT ![h] = "enqueue"]
        /\ UNCHANGED << image, spaces, todo, loaded, locked, op, pcb, step >>
        /\ UNCHANGED << running, manager, pid >> /\ active_slots' = active_slots
    BY SMTT(20) DEF AllocatePcb, Goto, tableVars
  <2>3. p \notin DOMAIN kernel_stacks /\ step \in Late \cup Stopped /\ p \in DOMAIN active_slots
    <3>1. p \in DOMAIN active_slots
      BY <2>0, <2>2, SMTT(20) DEF PlaceInv, HartsInv, Creating
    <3> QED  BY <2>0, <2>2, <3>1, ZenonT(40) DEF MemoryInv
  <2>4. DOMAIN kernel_stacks' = DOMAIN kernel_stacks \cup {p}
    BY <2>1, SMTT(20) DEF AllocateStack, Put
  <2>5. SpaceNext /\ SpaceInv'
    <3>1. step \in Underway /\ p \in DOMAIN kernel_stacks' \ DOMAIN kernel_stacks
      BY <2>3, <2>4, <1>LateIsUnderway, ZenonT(40)
    <3>2. SpaceNext
      BY <2>1, <2>2, <3>1, ZenonT(40) DEF SpaceNext, OtherStep
    <3> QED  BY <3>2, SpaceInvKept, Zenon DEF MemoryInv
  <2>6. /\ DOMAIN pc = Harts /\ pc'[h] = "enqueue"
        /\ \A k \in Harts \ {h} : pc'[k] = pc[k] /\ pc[k] # "allocate"
    BY <2>2, SMTT(20) DEF PlaceInv, HartsInv, Holding
  <2>7. DOMAIN kernel_stacks' \subseteq DOMAIN active_slots'
    BY <2>2, <2>3, <2>4, Zenon DEF MemoryInv
  <2>8. ASSUME NEW k \in Harts
        PROVE  /\ pid'[k] # NoPid => pid'[k] \in DOMAIN active_slots'
               /\ pc'[k] \in {"reserve", "allocate"} => step' \in Late \cup Stopped
               /\ pc'[k] # "allocate"
               /\ pc'[k] = "kmain" => k = Hart0 /\ running'[k] = InitPid
               /\ pc'[k] = "user" => running'[k] = InitPid /\ pcb'.trap_context # 0 /\ pcb'.tp = k
    <3>1. /\ pid[k] # NoPid => pid[k] \in DOMAIN active_slots
          /\ pc[k] \in {"reserve", "allocate"} => step \in Late \cup Stopped
          /\ pc[k] = "kmain" => k = Hart0 /\ running[k] = InitPid
          /\ pc[k] = "user" => running[k] = InitPid /\ pcb.trap_context # 0 /\ pcb.tp = k
      BY Zenon DEF MemoryInv
    <3>2. pid' = pid /\ running' = running /\ step' = step /\ pcb' = pcb
      BY <2>2, ZenonT(40)
    <3>3. CASE k = h
      BY <2>2, <2>6, <3>1, <3>2, <3>3, ZenonT(40)
    <3>4. CASE k # h
      <4>1. pc'[k] = pc[k] /\ pc[k] # "allocate" /\ active_slots' = active_slots
        BY <2>2, <2>6, <3>4, ZenonT(40)
      <4> QED  BY <3>1, <3>2, <4>1, ZenonT(40)
    <3> QED  BY <3>3, <3>4, ZenonT(40)
  <2>9. pc'[Hart0] # "boot_wait"
    BY <2>6, ProcessManagerAssumption, SMTT(20) DEF MemoryInv
  <2>10. /\ manager' \in Harts \cup {NoHart}
         /\ step' \in {"userret", "user"} => pcb'.tp = Hart0
    BY <2>2, ZenonT(40) DEF MemoryInv
  <2> QED
    BY <2>5, <2>7, <2>8, <2>9, <2>10, ZenonT(40) DEF MemoryInv
(* Only one hart executes the init process. *)
<1>OneExecutes.
    ASSUME PlaceInv, NEW h \in Harts, NEW k \in Harts, running[h] = InitPid, running[k] = InitPid
    PROVE  h = k
  <2> USE <1>OneExecutes
  <2>1. InitPid \in Nat /\ h \in Executing(InitPid) /\ k \in Executing(InitPid)
    BY SMTT(30) DEF InitPid, Executing
  <2>2. OnePlace(InitPid)
    BY <2>1, SMTT(20) DEF PlaceInv, PlacesInv, Nowhere
  <2> QED
    BY <2>1, <2>2, SMTT(20) DEF OnePlace
(* usertrapret on any hart writes the hart's id into the trap context of   *)
(* the process it executes.                                                *)
<1>MemoryUser.
    ASSUME PlaceInv, MemoryInv, NEW h \in Harts, usertrapret_on(h)
    PROVE  MemoryInv' /\ SpaceNext
  <2> USE <1>MemoryUser
  <2>1. /\ step = "lock_space" /\ running[h] = InitPid
        /\ pc[h] = "idle" /\ pc' = [pc EXCEPT ![h] = "user"]
        /\ pcb' = [pcb EXCEPT !.tp = h]
        /\ UNCHANGED << image, free, spaces, todo, loaded, locked, op, kernel_stacks, step >>
        /\ UNCHANGED << running, manager, pid >> /\ active_slots' = active_slots
    BY SMTT(30) DEF usertrapret_on, Goto, Shared, set_tp, tableVars
  <2>2. DOMAIN pcb = DOMAIN NoPcb /\ pcb.trap_context # 0
    BY <2>1, SMTT(30) DEF MemoryInv, SpaceInv, Shape, Stage, WithContext, Late
  <2>3. DOMAIN pcb' = DOMAIN NoPcb /\ pcb'.trap_context = pcb.trap_context /\ pcb'.tp = h
    BY <2>1, <2>2, SMTT(20) DEF NoPcb
  <2>4. SpaceNext /\ SpaceInv'
    <3>1. SpaceNext
      BY <2>1, <2>3, ZenonT(40) DEF SpaceNext, OtherStep, set_tp
    <3> QED  BY <3>1, SpaceInvKept, ZenonT(40) DEF MemoryInv
  <2>5. DOMAIN pc = Harts /\ pc'[h] = "user" /\ \A k \in Harts \ {h} : pc'[k] = pc[k]
    BY <2>1, SMTT(30) DEF PlaceInv, HartsInv
  <2>6. ASSUME NEW k \in Harts
        PROVE  /\ pid'[k] # NoPid => pid'[k] \in DOMAIN active_slots'
               /\ pc'[k] \in {"reserve", "allocate"} => step' \in Late \cup Stopped
               /\ pc'[k] = "allocate" => pid'[k] \notin DOMAIN kernel_stacks'
               /\ pc'[k] = "kmain" => k = Hart0 /\ running'[k] = InitPid
    BY <2>1, <2>5, SMTT(20) DEF MemoryInv
  <2>7. ASSUME NEW k \in Harts, pc'[k] = "user"
        PROVE  running'[k] = InitPid /\ pcb'.trap_context # 0 /\ pcb'.tp = k
    <3>1. CASE k = h
      BY <2>1, <2>2, <2>3, <3>1, SMTT(20)
    <3>2. CASE k # h
      <4>1. running[k] = InitPid
        BY <2>5, <2>7, <3>2, SMTT(20) DEF MemoryInv
      <4> QED  BY <2>1, <3>2, <4>1, <1>OneExecutes, SMTT(20)
    <3> QED  BY <3>1, <3>2, SMTT(30)
  <2>8. pc'[Hart0] # "boot_wait"
    BY <2>5, ProcessManagerAssumption, SMTT(20) DEF MemoryInv
  <2> QED
    BY <2>1, <2>4, <2>6, <2>7, <2>8, SMTT(20) DEF MemoryInv
(* Hart 0's path. *)
<1>MemoryPath.
    ASSUME PlaceInv, MemoryInv, NEW h \in Harts, OnPath(h)
    PROVE  MemoryInv' /\ SpaceNext
  <2> USE <1>MemoryPath
  <2>1. /\ SpaceStep /\ UNCHANGED << running, manager, pid >> /\ active_slots' = active_slots
        /\ pc[h] \in DOMAIN PathSteps /\ step \in PathSteps[pc[h]]
        /\ pc[h] = "make_initcode" => pid[h] = InitPid
    BY SMTT(20) DEF OnPath, tableVars
  <2>2. PICK to : pc' = [pc EXCEPT ![h] = to] /\ to \in {"panic", pc[h], PathEnd[pc[h]]}
    BY Zenon DEF OnPath, PlaceInv, HartsInv
  <2>3. /\ \/ pc[h] = "mm_init" /\ to \in {"panic", "mm_init", "init"}
              /\ step \notin Late /\ step # "PCB_allocate"
           \/ pc[h] = "make_initcode" /\ to \in {"panic", "make_initcode", "enqueue_init"}
              /\ step \notin Late
           \/ pc[h] = "kmain" /\ to \in {"panic", "kmain"} /\ step \in Late
        /\ step \notin Stopped
    <3>1. DOMAIN PathSteps = {"mm_init", "make_initcode", "kmain"}
      BY SMTT(20) DEF PathSteps
    <3>2. CASE pc[h] = "mm_init"
      <4>1. step \in {"make_kernel", "map_kernel", "verify"} /\ PathEnd[pc[h]] = "init"
        BY <2>1, <3>2, SMTT(20) DEF PathSteps, PathEnd
      <4>2. step \notin Late /\ step # "PCB_allocate" /\ step \notin Stopped
        BY <4>1, SMTT(20) DEF Late, Second, Stopped
      <4> QED  BY <2>2, <3>2, <4>1, <4>2, SMTT(20)
    <3>3. CASE pc[h] = "make_initcode"
      <4>1. /\ step \in {"PCB_allocate", "user_stack", "text", "make_init", "map_init",
                         "init_trapframe", "map_trapframe", "first_execution_init"}
            /\ PathEnd[pc[h]] = "enqueue_init"
        BY <2>1, <3>3, SMTT(20) DEF PathSteps, PathEnd
      <4>2. step \notin Late /\ step \notin Stopped
        BY <4>1, SMTT(20) DEF Late, Second, Stopped
      <4> QED  BY <2>2, <3>3, <4>1, <4>2, SMTT(20)
    <3>4. CASE pc[h] = "kmain"
      <4>1. /\ step \in {"lock_space", "map_another", "load_another", "lock_table", "load_self",
                         "usertrapret", "userret", "user"}
            /\ PathEnd[pc[h]] = "kmain"
        BY <2>1, <3>4, SMTT(20) DEF PathSteps, PathEnd
      <4>2. step \in Late /\ step \notin Stopped
        BY <4>1, SMTT(30) DEF Late, Second, Stopped
      <4> QED  BY <2>2, <3>4, <4>1, <4>2, SMTT(20)
    <3> QED  BY <2>1, <3>1, <3>2, <3>3, <3>4, ZenonT(40)
  <2>4. /\ \A k \in Harts : pid[k] # NoPid => pid[k] \in DOMAIN active_slots
        /\ \A k \in Harts : pc[k] \in {"reserve", "allocate"} => step \in Late \cup Stopped
        /\ \A k \in Harts : pc[k] = "allocate" => pid[k] \notin DOMAIN kernel_stacks
        /\ \A k \in Harts : pc[k] = "kmain" => k = Hart0 /\ running[k] = InitPid
        /\ \A k \in Harts : pc[k] = "user" => /\ running[k] = InitPid
                                              /\ pcb.trap_context # 0 /\ pcb.tp = k
        /\ step \in {"userret", "user"} => pcb.tp = Hart0
    BY Zenon DEF MemoryInv
  <2>5. SpaceNext /\ SpaceInv'
    BY <2>1, SpaceInvKept, Zenon DEF MemoryInv, SpaceNext
  <2>6. /\ step \in Late => step' \in Late \cup Stopped
        /\ pcb.trap_context # 0 => pcb'.trap_context # 0
        /\ pcb'.tp = pcb.tp \/ (step = "usertrapret" /\ pcb'.tp = Hart0)
        /\ step' = "userret" => pcb'.tp = Hart0
        /\ step' = "user" => step = "userret" /\ pcb'.tp = pcb.tp
        /\ \/ kernel_stacks' = kernel_stacks
           \/ step = "PCB_allocate" /\ DOMAIN kernel_stacks' = DOMAIN kernel_stacks \cup {InitPid}
    BY <2>1, PathGoes, Zenon DEF MemoryInv
  <2>7. DOMAIN pc = Harts /\ pc'[h] = to /\ \A k \in Harts : k # h => pc'[k] = pc[k]
    BY <2>2, Zenon DEF PlaceInv, HartsInv
  <2>8. to \notin {"boot_wait", "reserve", "allocate", "user"} /\ (to = "kmain" => pc[h] = "kmain")
    BY <2>3, SMTT(20)
  <2>9. pc'[Hart0] # "boot_wait"
    <3>1. Hart0 \in Harts /\ pc[Hart0] # "boot_wait"
      BY ProcessManagerAssumption, Zenon DEF MemoryInv
    <3> QED  BY <2>7, <2>8, <3>1, ZenonT(40)
  <2>10. /\ DOMAIN kernel_stacks' \subseteq DOMAIN active_slots'
         /\ \A k \in Harts : pc'[k] = "allocate" => pid'[k] \notin DOMAIN kernel_stacks'
    <3>1. \A k \in Harts : pc'[k] = "allocate" => k # h /\ pc[k] = "allocate"
      BY <2>7, <2>8, Zenon
    <3>2. DOMAIN kernel_stacks \subseteq DOMAIN active_slots
      BY Zenon DEF MemoryInv
    <3>3. CASE kernel_stacks' = kernel_stacks
      BY <2>1, <2>4, <3>1, <3>2, <3>3, ZenonT(40)
    <3>4. CASE step = "PCB_allocate" /\ DOMAIN kernel_stacks' = DOMAIN kernel_stacks \cup {InitPid}
      <4>1. pc[h] = "make_initcode" /\ pid[h] = InitPid
        BY <2>1, <2>3, <3>4, SMTT(20) DEF Late, Second
      <4>2. InitPid \in DOMAIN active_slots
        BY <4>1, SMTT(20) DEF PlaceInv, HartsInv, Creating
      <4>3. \A k \in Harts : pc'[k] # "allocate"
        BY <3>1, <4>1, SMTT(20) DEF PlaceInv, HartsInv, Holding
      <4> QED  BY <2>1, <3>2, <3>4, <4>2, <4>3, ZenonT(40)
    <3> QED  BY <2>6, <3>3, <3>4, ZenonT(40)
  <2>11. ASSUME NEW k \in Harts, pc'[k] \in {"reserve", "allocate"} PROVE step' \in Late \cup Stopped
    <3>1. pc[k] \in {"reserve", "allocate"}
      BY <2>7, <2>8, <2>11, ZenonT(40)
    <3>2. step \in Late
      BY <2>3, <2>4, <3>1, ZenonT(40)
    <3> QED  BY <2>6, <3>2, Zenon
  <2>12. ASSUME NEW k \in Harts, pc'[k] = "kmain" PROVE k = Hart0 /\ running'[k] = InitPid
    <3>1. pc[k] = "kmain"
      BY <2>7, <2>8, <2>12, ZenonT(40)
    <3> QED  BY <2>1, <2>4, <3>1, ZenonT(40)
  <2>13. ASSUME NEW k \in Harts, pc'[k] = "user"
         PROVE  running'[k] = InitPid /\ pcb'.trap_context # 0 /\ pcb'.tp = k
    <3>1. pc[k] = "user" /\ k # h
      BY <2>7, <2>8, <2>13, ZenonT(40)
    <3>2. running[k] = InitPid /\ pcb.trap_context # 0 /\ pcb.tp = k
      BY <2>4, <3>1, Zenon
    <3>3. step # "usertrapret"
      <4> SUFFICES ASSUME step = "usertrapret" PROVE FALSE
        BY SMTT(30)
      <4>1. pc[h] = "kmain"
        BY <2>3, SMTT(20) DEF Late
      <4>2. running[h] = InitPid
        BY <2>4, <4>1, ZenonT(40)
      <4> QED  BY <3>1, <3>2, <4>2, <1>OneExecutes, ZenonT(40)
    <3> QED  BY <2>1, <2>6, <3>2, <3>3, ZenonT(40)
  <2>14. step' \in {"userret", "user"} => pcb'.tp = Hart0
    BY <2>4, <2>6, ZenonT(40)
  <2>15. \A k \in Harts : pid'[k] # NoPid => pid'[k] \in DOMAIN active_slots'
    BY <2>1, <2>4, ZenonT(40)
  <2>16. manager' \in Harts \cup {NoHart}
    BY <2>1, ZenonT(40) DEF MemoryInv
  <2> QED
    BY <2>5, <2>9, <2>10, <2>11, <2>12, <2>13, <2>14, <2>15, <2>16, ZenonT(40) DEF MemoryInv
(* Every step of the machine keeps the invariant. *)
<1>MemoryNext. PlaceInv /\ MemoryInv /\ [Next]_vars => MemoryInv' /\ [SpaceNext]_spaceVars
  <2> SUFFICES ASSUME PlaceInv, MemoryInv, [Next]_vars PROVE MemoryInv' /\ [SpaceNext]_spaceVars
    BY SMTT(20)
  <2>1. CASE UNCHANGED vars
    <3>1. /\ UNCHANGED << image, free, spaces, loaded, locked, op, kernel_stacks, step, pcb >>
          /\ UNCHANGED << running, manager, pc, pid, active_slots >>
      BY <2>1, SMTT(20) DEF vars, spaceVars, tableVars
    <3>2. UNCHANGED spaceVars
      BY <2>1, Zenon DEF vars
    <3>3. SpaceInv'
      BY <3>2, SpaceInvKept, Zenon DEF MemoryInv
    <3>4. MemoryInv'
      BY <3>1, <3>3, ZenonT(40) DEF MemoryInv
    <3> QED  BY <3>2, <3>4, ZenonT(40)
  <2>2. CASE Next
    BY <2>2, <1>MemoryManager, <1>MemoryQuiet, <1>MemoryStack, <1>MemoryUser, <1>MemoryPath, SMTT(20) DEF Next,
       InManager
  <2> QED
    BY <2>1, <2>2, SMTT(20)
<1> QED
  BY <1>MemoryNext, SMTT(30)

-----------------------------------------------------------------------------

(* The two invariants. *)
LEMMA Kept == Spec => [](PlaceInv /\ MemoryInv)
BY PlaceInit, PlaceNext, MemoryInit, MemoryNext, PTL DEF Spec

(* A hart in user mode executes a process that has a trap context, with    *)
(* the hart's own id as tp in it.                                          *)
THEOREM TpIsCurrent == Spec => []UserTpCurrent
<1>1. MemoryInv => UserTpCurrent
  <2> SUFFICES ASSUME MemoryInv, NEW h \in InUser
               PROVE  running[h] = InitPid /\ pcb.trap_context # 0 /\ pcb.tp = h
    BY SMTT(20) DEF UserTpCurrent
  <2>1. CASE h \in Harts /\ pc[h] = "user"
    BY <2>1, Zenon DEF MemoryInv
  <2>2. CASE h \in Harts /\ pc[h] = "kmain" /\ step = "user"
    BY <2>2, Zenon DEF MemoryInv, SpaceInv, Stage, WithContext, Late
  <2> QED  BY <2>1, <2>2, SMTT(20) DEF InUser
<1> QED
  BY <1>1, Kept, PTL

(* Type correctness of the manager and of the spaces. *)
THEOREM ManagerTypes == Spec => []TypeOK
<1>1. PlaceInv /\ MemoryInv => TypeOK
  <2> SUFFICES ASSUME PlaceInv, MemoryInv PROVE TypeOK
    BY SMTT(30)
  <2>1. /\ free_ids \subseteq 0 .. capacity - 1 /\ capacity \in Nat
        /\ DOMAIN active_slots \subseteq 0 .. capacity - 1
    BY DEF PlaceInv, IdsInv, IdsPartitioned
  <2>2. Range(active_slots) \subseteq BOOLEAN
    <3>1. \A p \in DOMAIN active_slots : active_slots[p] \in BOOLEAN
      BY Zenon DEF PlaceInv, IdsInv
    <3> QED  BY <3>1, Zenon DEF Range
  <2>3. ASSUME NEW i \in 1 .. Len(ready_queue) PROVE ready_queue[i] \in 0 .. capacity - 1
    <3>1. PICK p : p = ready_queue[i]
      BY SMTT(30)
    <3>2. p \in Nat /\ i \in Queued(p)
      BY <3>1, SMTT(20) DEF PlaceInv, PlacesInv, Queued
    <3>3. p \in Initialised
      BY <3>2, SMTT(20) DEF PlaceInv, PlacesInv, Nowhere
    <3> QED  BY <2>1, <3>1, <3>3, SMTT(20) DEF Initialised
  <2>4. ASSUME NEW h \in Harts
        PROVE  /\ running[h] \in (0 .. capacity - 1) \cup {NoPid}
               /\ pid[h] \in (0 .. capacity - 1) \cup {NoPid}
    BY <2>1, Executed, SMTT(20) DEF MemoryInv
  <2>5. /\ running \in [Harts -> (0 .. capacity - 1) \cup {NoPid}]
        /\ pid \in [Harts -> (0 .. capacity - 1) \cup {NoPid}]
    BY <2>4, SMTT(20) DEF PlaceInv, HartsInv
  <2>6. manager \in Harts \cup {NoHart} /\ SpacesTypeOK
    BY SpaceTypes, SMTT(30) DEF MemoryInv
  <2> QED  BY <2>1, <2>2, <2>3, <2>5, <2>6, SMTT(20) DEF TypeOK
<1> QED
  BY <1>1, Kept, PTL

(* What the manager does to the memory is what SpaceSpec allows: beside    *)
(* hart 0's path the harts only give new processes a kernel stack and      *)
(* write tp, so the theorems of the spaces hold while the harts run.       *)
THEOREM ManagerImplementsSpaces == Spec => SpaceSpec
<1>1. Init => InitSpaces
  BY DEF Init
<1> QED
  BY <1>1, PlaceInit, PlaceNext, MemoryInit, MemoryNext, PTL DEF Spec, SpaceSpec

(* No assertion, unwrap or store from mm::init to the visits to user mode  *)
(* fails, for any image, however little memory there is and however many   *)
(* harts share the manager.                                                *)
THEOREM NoAssertionFails == Spec => []AssertionsHold
BY ManagerImplementsSpaces, SpacesAssert, PTL

(* Every table maps exactly the pages of its areas, to their frames, with  *)
(* their permissions; while it is built, those map_virt_area_allocate has  *)
(* reached.  lock_space takes the write permission from the kernel's own   *)
(* nodes and from nothing else.                                            *)
THEOREM TablesMatchAreas == Spec => []MapsMatchAreas
BY ManagerImplementsSpaces, SpacesMatch, PTL

(* User mode reaches frames of its own only: no node of a table, no kernel *)
(* stack, no trap context, no free frame; and no space reaches a frame to  *)
(* write it and to execute it.                                             *)
THEOREM UserModeIsolated == Spec => []Isolation
BY ManagerImplementsSpaces, SpacesIsolate, PTL

-----------------------------------------------------------------------------
(* What is counted *)

INSTANCE FiniteSetTheorems

(* An initialised process is in exactly one place, a reserved one in none, *)
(* for any number of harts and any initial capacity.                       *)
THEOREM ProcessesInOnePlace == Spec => []ProcessInOnePlace
<1>1. PlaceInv => ProcessInOnePlace
  <2> SUFFICES ASSUME PlaceInv, NEW p \in DOMAIN active_slots
               PROVE  Places(p) = IF active_slots[p] THEN 1 ELSE 0
    BY SMTT(20) DEF ProcessInOnePlace
  <2>1. Places(p) = Cardinality(Queued(p)) + Cardinality(Executing(p)) + Cardinality(PutBack(p))
    BY SMTT(30) DEF Places, Queued, Executing, PutBack, Yielding
  <2>2. p \in Nat
    BY DEF PlaceInv, IdsInv, IdsPartitioned
  <2>3. Cardinality({}) = 0 /\ \A x : Cardinality({x}) = 1
    BY FS_EmptySet, FS_Singleton, ZenonT(40)
  <2>4. CASE p \in Initialised
    <3>1. active_slots[p] = TRUE
      BY <2>4, Zenon DEF Initialised
    <3>2. OnePlace(p)
      BY <2>2, <2>4, SMTT(20) DEF PlaceInv, PlacesInv
    <3>3. \A S : (\E x : S = {x}) => Cardinality(S) = 1
      BY <2>3, Zenon
    <3>4. << Cardinality(Queued(p)), Cardinality(Executing(p)), Cardinality(PutBack(p)) >>
            \in { << 1, 0, 0 >>, << 0, 1, 0 >>, << 0, 0, 1 >> }
      BY <2>3, <3>2, <3>3, ZenonT(40) DEF OnePlace
    <3>5. Places(p) = 1
      BY <2>1, <3>4, SMTT(20)
    <3> QED  BY <3>1, <3>5, SMTT(30)
  <2>5. CASE p \notin Initialised
    <3>1. active_slots[p] = FALSE
      <4>1. active_slots[p] \in BOOLEAN
        BY Zenon DEF PlaceInv, IdsInv
      <4> QED  BY <2>5, <4>1, Zenon DEF Initialised
    <3>2. Nowhere(p)
      BY <2>2, <2>5, SMTT(20) DEF PlaceInv, PlacesInv
    <3>3. Places(p) = 0
      <4>1. Cardinality(Queued(p)) = 0 /\ Cardinality(Executing(p)) = 0 /\ Cardinality(PutBack(p)) = 0
        BY <2>3, <3>2, ZenonT(40) DEF Nowhere
      <4> QED  BY <2>1, <4>1, SMTT(20)
    <3> QED  BY <3>1, <3>3, SMTT(30)
  <2> QED  BY <2>4, <2>5, SMTT(20)
<1> QED
  BY <1>1, PlaceInit, PlaceNext, PTL DEF Spec

(* One place makes one owner. *)
LEMMA OwnedOnce == Owned => FramesOwnedOnce
<1> SUFFICES ASSUME Owned, NEW f \in Heap(image) PROVE Owners(f) = 1
  BY SMTT(20) DEF FramesOwnedOnce
<1>1. Owners(f) = (IF f \in free THEN 1 ELSE 0) + Cardinality(Stacks(f))
                  + Cardinality(Positions(f)) + Cardinality(Tracking(f))
  BY SMTT(30) DEF Owners, Stacks, Tracking, InitAreas
<1>2. Cardinality({}) = 0 /\ \A S : (\E x : S = {x}) => Cardinality(S) = 1
  BY FS_EmptySet, FS_Singleton, ZenonT(40)
<1>3. OneOwner(f)
  BY DEF Owned
<1>4. << IF f \in free THEN 1 ELSE 0, Cardinality(Stacks(f)),
         Cardinality(Positions(f)), Cardinality(Tracking(f)) >>
        \in { << 1, 0, 0, 0 >>, << 0, 1, 0, 0 >>, << 0, 0, 1, 0 >>, << 0, 0, 0, 1 >> }
  BY <1>2, <1>3, ZenonT(40) DEF OneOwner
<1> QED
  BY <1>1, <1>4, SMTT(20)

(* Every frame of the heap has one owner at every moment, for any image    *)
(* and however little memory there is: the allocator, a table, an area of  *)
(* the init process or a kernel stack.  No frame is handed out twice, and  *)
(* lock_space gives back all it took.                                      *)
THEOREM EveryFrameOwnedOnce == Spec => []FramesOwnedOnce
<1>1. MemoryInv => FramesOwnedOnce
  BY OwnedOnce DEF MemoryInv, SpaceInv
<1> QED
  BY <1>1, Kept, PTL
=============================================================================

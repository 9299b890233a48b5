--------------------------- MODULE ProcessManager ---------------------------
(***************************************************************************)
(* PROCESS_MANAGER (the process table and the ready queue behind one       *)
(* mutex), the processes the harts execute (CPUS), and the memory under    *)
(* them.  Hart 0 sets up the kernel's address space, creates the init      *)
(* process under the manager's lock and takes it as its own.  A process is *)
(* its pid; only init gets a trap context and a user space.                *)
(*                                                                         *)
(* From there two ways are explored, apart from each other.  In one hart 0 *)
(* goes on with kmain, into user mode and back, with all that AddressSpace *)
(* models.  In the other every hart may create processes, take one when it *)
(* has none (the statement process::init ends with), return to user mode,  *)
(* trap, and put its process back with take_executing_process and          *)
(* push_one; that way is bounded by SpareFrames.                           *)
(***************************************************************************)
EXTENDS ResourceTable, AddressSpace

CONSTANTS
  Harts,       \* hart ids
  NoHart,
  NoPid,
  SpareFrames  \* bound: the manager is explored with at most so many frames left

ASSUME ProcessManagerAssumption ==
  /\ Harts \subseteq Nat /\ Hart0 \in Harts /\ NoHart \notin Harts /\ NoPid \notin Nat
  /\ SpareFrames \in Nat

VARIABLES
  ready_queue,
  running,   \* running_process of each hart
  manager,   \* the hart that holds PROCESS_MANAGER
  pc,
  pid        \* the pid a hart is working on

vars == << tableVars, spaceVars, ready_queue, running, manager, pc, pid >>

Init ==
  /\ new(InitialCapacity)
  /\ InitSpaces
  /\ ready_queue = << >>
  /\ running = [h \in Harts |-> NoPid]
  /\ manager = NoHart
  /\ pc = [h \in Harts |-> IF h = Hart0 THEN "mm_init" ELSE "boot_wait"]
  /\ pid = [h \in Harts |-> NoPid]

Goto(h, from, to) == pc[h] = from /\ pc' = [pc EXCEPT ![h] = to]

Lock(h, from, to) ==
  /\ Goto(h, from, to)
  /\ manager = NoHart
  /\ manager' = h
  /\ UNCHANGED << tableVars, ready_queue, running, spaceVars, pid >>

\* A panic inside an operation: PROCESS_MANAGER stays locked.
Panic(h, from) ==
  /\ Goto(h, from, "panic")
  /\ UNCHANGED << tableVars, ready_queue, running, manager, spaceVars, pid >>

\* the way on which the harts share the manager
Shared == step = "lock_space" /\ Cardinality(free) <= SpareFrames

-----------------------------------------------------------------------------
(* mm::init, make_initcode_uninitialised, and kmain after process::init *)

PathSteps ==
  [ mm_init       |-> {"make_kernel", "map_kernel", "verify"},
    make_initcode |-> {"PCB_allocate", "user_stack", "text", "make_init", "map_init",
                       "init_trapframe", "map_trapframe", "first_execution_init"},
    kmain         |-> {"lock_space", "map_another", "load_another", "lock_table", "load_self",
                       "usertrapret", "userret", "user"} ]

\* where hart 0 goes on when the steps are done
PathEnd == [ mm_init |-> "init", make_initcode |-> "enqueue_init", kmain |-> "kmain" ]

(* One step on hart 0's path.  assert_eq!(pcb.pid, 0) in                   *)
(* make_initcode_uninitialised is the second conjunct.                     *)
OnPath(h) ==
  /\ pc[h] \in DOMAIN PathSteps
  /\ pc[h] = "make_initcode" => pid[h] = InitPid
  /\ step \in PathSteps[pc[h]]
  /\ SpaceStep
  /\ pc' = [pc EXCEPT ![h] = IF step' \in Stopped THEN "panic"
                             ELSE IF step' \in PathSteps[@] THEN @ ELSE PathEnd[@]]
  /\ UNCHANGED << tableVars, ready_queue, running, manager, pid >>

\* hart 0 goes on, the others still wait
kmain(h) ==
  /\ \A other \in Harts \ {h} : pc[other] = "boot_wait"
  /\ running[h] = InitPid /\ DOMAIN active_slots = {InitPid}
  /\ Goto(h, "idle", "kmain")
  /\ UNCHANGED << tableVars, spaceVars, ready_queue, running, manager, pid >>

-----------------------------------------------------------------------------
(* create_initcode and create_process *)

CallCreateInitcode(h) == Lock(h, "init", "reserve_init")

CallCreateProcess(h) == Shared /\ Lock(h, "idle", "reserve")

Reserve(h, from, to) ==
  /\ Goto(h, from, to)
  /\ \E id \in Pool : reserve_entry(id) /\ pid' = [pid EXCEPT ![h] = id]
  /\ UNCHANGED << ready_queue, running, manager, spaceVars >>

ReserveInit(h) == Reserve(h, "reserve_init", "make_initcode")

ReserveProcess(h) == Reserve(h, "reserve", "allocate")

AllocatePcb_ForInit(h) ==
  /\ Goto(h, "allocate", "enqueue")
  /\ \E f \in free : AllocateStack(InitPid, f)
  /\ UNCHANGED << image, spaces, todo, loaded, locked, op, pcb, step >>
  /\ UNCHANGED << tableVars, ready_queue, running, manager, pid >>

\* ProcessControlBlock::allocate
AllocatePcb(h) ==
  /\ Goto(h, "allocate", "enqueue")
  /\ \E f \in free : AllocateStack(pid[h], f)
  /\ UNCHANGED << image, spaces, todo, loaded, locked, op, pcb, step >>
  /\ UNCHANGED << tableVars, ready_queue, running, manager, pid >>

AllocatePanic(h) == free = {} /\ Panic(h, "allocate")

Enqueue_KeepsLock(h, from, to, queue) ==
  /\ Goto(h, from, to)
  /\ initialise_entry(pid[h])
  /\ ready_queue' = queue
  /\ pid' = [pid EXCEPT ![h] = NoPid]
  /\ UNCHANGED << running, spaceVars, manager >>

\* initialise_entry, the push, and the end of the mutex guard
Enqueue(h, from, to, queue) ==
  /\ Goto(h, from, to)
  /\ initialise_entry(pid[h])
  /\ ready_queue' = queue
  /\ pid' = [pid EXCEPT ![h] = NoPid]
  /\ manager' = NoHart
  /\ UNCHANGED << running, spaceVars >>

create_initcode(h) == Enqueue(h, "enqueue_init", "init_dispatch", Append(ready_queue, pid[h]))

create_process(h) == Enqueue(h, "enqueue", "idle", <<pid[h]>> \o ready_queue)

-----------------------------------------------------------------------------
(* CPUS[h].write().set_executing_process(PROCESS_MANAGER.lock().pop_one().unwrap()) *)

\* set_executing_process asserts that the hart has no process.
CallPopOne(h) == Shared /\ running[h] = NoPid /\ Lock(h, "idle", "pop_one")

AfterPop_Peeked(queue) == queue

\* What pop_front leaves
AfterPop(queue) == Tail(queue)

PopOne(h, from) ==
  /\ ready_queue # << >>
  /\ Goto(h, from, "idle")
  /\ running' = [running EXCEPT ![h] = Head(ready_queue)]
  /\ ready_queue' = AfterPop(ready_queue)
  /\ manager' = NoHart
  /\ UNCHANGED << tableVars, spaceVars, pid >>

pop_one(h) == PopOne(h, "pop_one")

\* The end of process::init: pop_one by hart 0, before any other hart runs
PopInit(h) == PopOne(h, "init_pop_one")

CallPopInit(h) == Lock(h, "init_dispatch", "init_pop_one")

\* unwrap on None
PopPanic(h) == ready_queue = << >> /\ Panic(h, "pop_one")

-----------------------------------------------------------------------------
(* take_executing_process and push_one *)

take_executing_process(h) ==
  /\ Shared
  /\ running[h] # NoPid
  /\ Goto(h, "idle", "yield")
  /\ pid' = [pid EXCEPT ![h] = running[h]]
  /\ running' = [running EXCEPT ![h] = NoPid]
  /\ UNCHANGED << tableVars, ready_queue, manager, spaceVars >>

CallPushOne(h) == Lock(h, "yield", "push_one")

\* get(pid) finds the slot initialised, see ProcessInOnePlace.
push_one(h) ==
  /\ Goto(h, "push_one", "idle")
  /\ active_slots[pid[h]]
  /\ ready_queue' = Append(ready_queue, pid[h])
  /\ pid' = [pid EXCEPT ![h] = NoPid]
  /\ manager' = NoHart
  /\ UNCHANGED << tableVars, running, spaceVars >>

-----------------------------------------------------------------------------
(* usertrapret by any hart, and the trap that ends the visit to user mode *)

usertrapret_on(h) ==
  /\ Shared
  /\ running[h] = InitPid
  /\ Goto(h, "idle", "user")
  /\ set_tp(h)
  /\ UNCHANGED << image, free, spaces, todo, loaded, locked, op, kernel_stacks, step >>
  /\ UNCHANGED << tableVars, ready_queue, running, manager, pid >>

\* "No runable process", or a process with an uninitialised trap context
usertrapret_panic(h) == Shared /\ running[h] # InitPid /\ Panic(h, "idle")

usertrap(h) ==
  /\ Goto(h, "user", "idle")
  /\ UNCHANGED << tableVars, spaceVars, ready_queue, running, manager, pid >>

-----------------------------------------------------------------------------

\* HART0_STARTED lets the other harts go on once process::init is over.
Start(h) ==
  /\ pc[Hart0] \notin { "mm_init", "init", "reserve_init", "make_initcode", "enqueue_init",
                        "init_dispatch", "init_pop_one" }
  /\ Shared
  /\ Goto(h, "boot_wait", "idle")
  /\ UNCHANGED << tableVars, ready_queue, running, manager, spaceVars, pid >>

InManager(h) ==
  \/ OnPath(h) \/ ReserveInit(h) \/ create_initcode(h)
  \/ ReserveProcess(h) \/ AllocatePcb(h) \/ AllocatePanic(h) \/ create_process(h)
  \/ PopInit(h) \/ pop_one(h) \/ PopPanic(h)
  \/ push_one(h)

Next == \E h \in Harts :
  \/ InManager(h)
  \/ CallCreateInitcode(h) \/ CallPopInit(h) \/ CallCreateProcess(h) \/ CallPopOne(h)
  \/ take_executing_process(h) \/ CallPushOne(h) \/ Start(h)
  \/ kmain(h) \/ usertrapret_on(h) \/ usertrapret_panic(h) \/ usertrap(h)

\* A hart inside an operation goes on with it; it need not start another.
Spec ==
  Init /\ [][Next]_vars /\ \A h \in Harts : WF_vars(manager = h /\ InManager(h))

-----------------------------------------------------------------------------
(* Properties *)

TypeOK ==
  /\ free_ids \subseteq 0 .. capacity - 1
  /\ capacity \in Nat
  /\ DOMAIN active_slots \subseteq 0 .. capacity - 1 /\ Range(active_slots) \subseteq BOOLEAN
  /\ \A i \in 1 .. Len(ready_queue) : ready_queue[i] \in 0 .. capacity - 1
  /\ running \in [Harts -> (0 .. capacity - 1) \cup {NoPid}]
  /\ pid \in [Harts -> (0 .. capacity - 1) \cup {NoPid}]
  /\ manager \in Harts \cup {NoHart}
  /\ SpacesTypeOK

(* Over any sequence of reservations and growths the ids below capacity    *)
(* are divided between the pool and the table: no id is issued twice (the  *)
(* "id collision" panic of reserve_entry is unreachable) and none is lost. *)
IdsPartitioned ==
  /\ free_ids \cap DOMAIN active_slots = {}
  /\ free_ids \cup DOMAIN active_slots = 0 .. capacity - 1

Places(p) ==
  Cardinality({ i \in 1 .. Len(ready_queue) : ready_queue[i] = p })
  + Cardinality({ h \in Harts : running[h] = p })
  + Cardinality({ h \in Harts : pc[h] \in { "yield", "push_one" } /\ pid[h] = p })

(* An initialised process is in exactly one place, the ready queue, a hart *)
(* that executes it or a hart that is putting it back, so that no two      *)
(* harts execute one process and none is forgotten; and a process whose    *)
(* slot is reserved but not initialised is in none, so push_one's get      *)
(* never meets an uninitialised slot.                                      *)
ProcessInOnePlace ==
  \A p \in DOMAIN active_slots : Places(p) = IF active_slots[p] THEN 1 ELSE 0

\* the harts that execute a user program
InUser == { h \in Harts : pc[h] = "user" } \cup { h \in Harts : pc[h] = "kmain" /\ step = "user" }

(* userret loads tp from the trap context; uservec only stores it, and     *)
(* usertrap finds its CPU and process by it (hart_id), as the program      *)
(* leaves it alone.  A hart in user mode executes a process that has a     *)
(* context, and the tp in it is that hart's id, wherever the process ran   *)
(* before and whichever hart has had it meanwhile.                         *)
UserTpCurrent ==
  \A h \in InUser :
    running[h] = InitPid /\ pcb.trap_context # 0 /\ pcb.tp = h

(* Whoever locks PROCESS_MANAGER releases it unless it panics. *)
ManagerReleased ==
  \A h \in Harts : manager = h ~> (manager # h \/ pc[h] = "panic")
=============================================================================

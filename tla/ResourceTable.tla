--------------------------- MODULE ResourceTable ---------------------------
(***************************************************************************)
(* common::ResourceTable: the map from ids to resources and the pool of    *)
(* free ids.  reserve_entry and remove_entry take &mut self, so the two    *)
(* inner locks are never contended by them and an operation is one step.   *)
(* A resource is left out; a slot only tells None from Some.               *)
(***************************************************************************)
EXTENDS Integers, Functions

CONSTANT InitialCapacity

ASSUME ResourceTableAssumption == InitialCapacity \in Nat \ {0}

VARIABLES
  active_slots,  \* id -> is the slot initialised (Some)
  free_ids,
  capacity

tableVars == << active_slots, free_ids, capacity >>

new(n) ==
  /\ active_slots = << >>
  /\ free_ids = 0 .. n - 1
  /\ capacity = n

\* The ids an empty pool is filled with
Grown == capacity .. capacity * 2 - 1

\* What allocate_one pops from
Pool == IF free_ids = {} THEN Grown ELSE free_ids

Popped_Kept(id) == Pool

Popped(id) == Pool \ {id}

allocate_one_KeepsCapacity(id) ==
  /\ id \in Pool
  /\ \A i \in Pool : id <= i
  /\ free_ids' = Popped(id)
  /\ UNCHANGED capacity

\* pop_first of a BTreeSet: the least id
allocate_one(id) ==
  /\ id \in Pool
  /\ \A i \in Pool : id <= i
  /\ free_ids' = Popped(id)
  /\ capacity' = IF free_ids = {} THEN capacity * 2 ELSE capacity

With(id, init) == [i \in DOMAIN active_slots \cup {id} |-> IF i = id THEN init ELSE active_slots[i]]

\* The insertion replaces an entry that is already there, and then panics
\* ("id collision"): IdsPartitioned says that it never is.
reserve_entry(id) ==
  /\ allocate_one(id)
  /\ active_slots' = With(id, FALSE)

initialise_entry(id) ==
  /\ id \in DOMAIN active_slots
  /\ active_slots' = With(id, TRUE)
  /\ UNCHANGED << free_ids, capacity >>

\* return_one asserts that it has removed id from free_ids
ReturnPanics(id) == id \notin free_ids

remove_entry(id) ==
  /\ active_slots' = Restrict(active_slots, DOMAIN active_slots \ {id})
  /\ free_ids' = free_ids \ {id}
  /\ UNCHANGED capacity
=============================================================================

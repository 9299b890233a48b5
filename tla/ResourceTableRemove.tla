------------------------ MODULE ResourceTableRemove ------------------------
(* A resource table whose entries are also removed.  No code of the kernel *)
(* calls remove_entry yet.                                                 *)
EXTENDS ResourceTable

CONSTANT MaxCapacity  \* bound on the growth

VARIABLE panicked

vars == << active_slots, free_ids, capacity, panicked >>

Init == new(InitialCapacity) /\ panicked = FALSE

Reserve ==
  /\ capacity < MaxCapacity \/ free_ids # {}
  /\ \E id \in Pool : reserve_entry(id)
  /\ UNCHANGED panicked

Initialise == \E id \in DOMAIN active_slots : initialise_entry(id) /\ UNCHANGED panicked

Remove == \E id \in DOMAIN active_slots : remove_entry(id) /\ panicked' = ReturnPanics(id)

Next == ~panicked /\ (Reserve \/ Initialise \/ Remove)

Spec == Init /\ [][Next]_vars

(* remove_entry of an id that reserve_entry has issued goes through the    *)
(* assertion of return_one.                                                *)
RemoveSucceeds == ~panicked
=============================================================================

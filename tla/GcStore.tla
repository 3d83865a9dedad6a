------------------------------ MODULE GcStore ------------------------------
(***************************************************************************)
(* What a database promises across "cosmprund prune": its contents change  *)
(* by the deletions of the prune alone.  The garbage collection pass and   *)
(* a death of the process at any point of it do not show, until a run is   *)
(* started over the remains of an interrupted pass.                        *)
(***************************************************************************)
EXTENDS DbContents

VARIABLES
  data,     \* the contents
  broken    \* a run was started over the remains of an interrupted pass

Init == data \in Contents /\ broken = FALSE

Prune ==
  /\ ~broken /\ UNCHANGED broken
  /\ \E deleted \in SUBSET OldKeys, writesRecord \in BOOLEAN :
       data' = Pruned(data, deleted, writesRecord)

StartOverRemains == ~broken /\ broken' = TRUE /\ data' \in Contents

AfterThat == broken /\ UNCHANGED broken /\ data' \in Contents

Next == Prune \/ StartOverRemains \/ AfterThat

Spec == Init /\ [][Next]_<<data, broken>>
=============================================================================

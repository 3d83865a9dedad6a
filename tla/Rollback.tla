------------------------------ MODULE Rollback ------------------------------
(***************************************************************************)
(* RollbackToVersion, with which a node's operator takes the application   *)
(* back to an older version: the trees are cut back one by one, then the   *)
(* commit info and s/latest are written.  It runs on the stores that the   *)
(* node and the pruner left, killed prunes included, and may be killed     *)
(* itself.                                                                 *)
(***************************************************************************)
EXTENDS AppState

CONSTANT MaxRollbacks   \* bound: how often a rollback is run

ASSUME RollbackAssumption == MaxRollbacks \in Nat

VARIABLES
  rollbacks,
  cut,      \* history: a tree was cut back, and the metadata was not written since
  uneven    \* history: a rollback began to cut stores back to a version that one of them lacks

rollVars == <<rollbacks, cut, uneven>>
allVars == <<vars, rollVars>>

RollbackInit == Init /\ rollbacks = 0 /\ cut = FALSE /\ uneven = FALSE

----------------------------------------------------------------------------
(* The command loads the stores as the node does.  A target below 1 is an  *)
(* error that changes nothing.                                             *)
BeginRollback ==
  /\ proc = "ready" /\ rollbacks < MaxRollbacks
  /\ to' \in 1..latest
  /\ proc' = "rollback" /\ todo' = mounts
  /\ rollbacks' = rollbacks + 1
  /\ UNCHANGED <<diskVars, mounts, tree, skipped, ids, stops, pruneVars, cut, uneven>>

Target(s) == to \in versions[s]

(* Mutant of OverwriteStore: the target goes as well. *)
OverwriteStoreTarget(s) ==
  /\ proc = "rollback" /\ s \in todo /\ Target(s)
  /\ versions' = [versions EXCEPT ![s] = {v \in @ : v < to}]
  /\ tree' = [tree EXCEPT ![s] = to]
  /\ todo' = todo \ {s} /\ cut' = TRUE
  /\ uneven' = (uneven \/ \E r \in todo : ~Target(r))
  /\ UNCHANGED <<infos, latest, mounts, proc, to, skipped, ids, stops, pruneVars, rollbacks>>

(* LoadVersionForOverwriting of one store, in the order of a Go map. *)
OverwriteStore(s) ==
  /\ proc = "rollback" /\ s \in todo /\ Target(s)
  /\ versions' = [versions EXCEPT ![s] = {v \in @ : v <= to}]
  /\ tree' = [tree EXCEPT ![s] = to]
  /\ todo' = todo \ {s} /\ cut' = TRUE
  /\ uneven' = (uneven \/ \E r \in todo : ~Target(r))
  /\ UNCHANGED <<infos, latest, mounts, proc, to, skipped, ids, stops, pruneVars, rollbacks>>

(* The store does not have the target: the rollback returns, with the      *)
(* stores that it has cut back already.                                    *)
RollbackFails ==
  /\ proc = "rollback"
  /\ \E s \in todo : ~Target(s)
  /\ Forget
  /\ UNCHANGED <<diskVars, mounts, skipped, stops, pruneVars, rollVars>>

(* Mutant of FlushRollback: the metadata does not wait for the stores. *)
FlushRollbackEarly ==
  /\ proc = "rollback"
  /\ infos' = [infos EXCEPT ![to] = [s \in mounts |-> tree[s]]]
  /\ latest' = to /\ cut' = FALSE
  /\ Forget
  /\ UNCHANGED <<versions, mounts, skipped, stops, pruneVars, rollbacks, uneven>>

(* buildCommitInfo from what the trees are loaded at, and flushMetadata.   *)
(* The commit infos above stay where they are.                             *)
FlushRollback ==
  /\ proc = "rollback" /\ todo = {}
  /\ infos' = [infos EXCEPT ![to] = [s \in mounts |-> tree[s]]]
  /\ latest' = to /\ cut' = FALSE
  /\ Forget
  /\ UNCHANGED <<versions, mounts, skipped, stops, pruneVars, rollbacks, uneven>>

RollbackKilled ==
  /\ proc = "rollback"
  /\ Forget
  /\ UNCHANGED <<diskVars, mounts, skipped, stops, pruneVars, rollVars>>

RollbackNext ==
  \/ Next /\ UNCHANGED rollVars
  \/ BeginRollback \/ RollbackFails \/ FlushRollback \/ RollbackKilled
  \/ \E s \in Trees : OverwriteStore(s)

RollbackSpec == RollbackInit /\ [][RollbackNext]_allVars

----------------------------------------------------------------------------
(* Outside of a rollback that has cut back a store and not come to its     *)
(* end, the version in s/latest loads: after completed rollbacks, the      *)
(* blocks replayed on them over stale commit infos, and the prunes between *)
(* them, killed ones included.                                             *)
LoadableUnlessCut == ~cut => LatestLoadable

(* A rollback may be killed between any two stores: then s/latest names a  *)
(* version that some stores do not have any more, but a version that loads *)
(* in all of them is left, the target.  The exception is a rollback to a   *)
(* version that one of the stores lacks, for instance since a prune was    *)
(* killed between two stores: it returns an error at that store, after the *)
(* stores before it have been cut back.                                    *)
SomeVersionLoads ==
  latest # 0 /\ ~uneven => \E v \in 1..latest : Loadable(v)
=============================================================================

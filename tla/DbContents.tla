----------------------------- MODULE DbContents -----------------------------
(***************************************************************************)
(* The contents of a key-value database, and what one prune does to them,  *)
(* as far as gcDB can tell them apart.                                     *)
(***************************************************************************)
EXTENDS Integers

CONSTANTS
  Keys,      \* the keys of the database, in order
  OldKeys,   \* those that a prune may delete
  Record     \* the key "blockStore", which a prune of the block store writes

ASSUME KeysAssumption ==
  /\ Keys \subseteq Int
  /\ Record \in Keys /\ OldKeys \subseteq Keys \ {Record}

(* A database is a function from the keys it holds to their values: "set"  *)
(* for what the node wrote, "zero" for a record that was written without   *)
(* one to start from.                                                      *)
Values == {"set", "zero"}
Contents == UNION {[K -> Values] : K \in SUBSET Keys}
Empty == [k \in {} |-> "set"]

(* The writes of a batch over what was there. *)
Over(new, old) ==
  [k \in (DOMAIN new) \cup (DOMAIN old) |-> IF k \in DOMAIN new THEN new[k] ELSE old[k]]
Keep(c, K) == [k \in (DOMAIN c) \cap K |-> c[k]]

(* The record is written over what Get returned. *)
Recorded(c) == Over([k \in {Record} |-> IF k \in DOMAIN c THEN c[k] ELSE "zero"], c)

(* Mutant of Pruned: the record is only written where there was one. *)
PrunedNoRecord(c, deleted, writesRecord) ==
  IF writesRecord /\ Record \in DOMAIN c THEN Recorded(Keep(c, Keys \ deleted))
                                         ELSE Keep(c, Keys \ deleted)

(* One prune: old keys go, and the record is written. *)
Pruned(c, deleted, writesRecord) ==
  IF writesRecord THEN Recorded(Keep(c, Keys \ deleted)) ELSE Keep(c, Keys \ deleted)
=============================================================================

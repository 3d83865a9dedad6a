----------------------------- MODULE AppHistory -----------------------------
(***************************************************************************)
(* What the application's multi store promises: a version is committed in  *)
(* all of its stores or in none, and pruning takes away old versions,      *)
(* never the latest one, as long as no prune is misled by a commit that    *)
(* was interrupted.                                                        *)
(***************************************************************************)
EXTENDS Integers

VARIABLES
  kept,     \* the versions that can be loaded
  latest,   \* the latest version, 0 before the first commit
  damaged   \* nothing is promised any more

Init == kept = {} /\ latest = 0 /\ damaged = FALSE

Commit ==
  /\ latest' \in Nat /\ latest' > latest
  /\ kept' = kept \cup {latest'}
  /\ UNCHANGED damaged

(* Stores that an upgrade added lose their first version early, so the old *)
(* versions need not go in order.                                          *)
Prune ==
  /\ kept' \in SUBSET kept
  /\ latest \in kept => latest \in kept'
  /\ UNCHANGED <<latest, damaged>>

(* A prune has taken the height of an interrupted commit for its own: the  *)
(* promise ends for good.                                                  *)
Overtake == damaged'

Next == Commit \/ Prune \/ Overtake

Spec == Init /\ [][Next]_<<kept, latest, damaged>>
=============================================================================

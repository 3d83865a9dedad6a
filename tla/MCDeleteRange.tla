--------------------------- MODULE MCDeleteRange ---------------------------
(* Instances of DeleteRange in base 10, and the mutants of its definitions. *)
EXTENDS DeleteRange

(* What a node's store holds: consecutive heights, from the first one kept *)
(* (genesis, an earlier prune, a state sync) to the newest.                *)
MCStoredSets ==
  {lo..hi : lo \in {1, 50, 99, 100, 101}, hi \in {12, 103, 125}}

(* Around every digit boundary up to three digits, and inside them. *)
MCEnds ==
  (0..3) \cup (8..12) \cup {19, 20, 57, 89, 90} \cup (97..103) \cup {109, 110, 120, 125}

=============================================================================

---------------------------- MODULE DeleteRange ----------------------------
(***************************************************************************)
(* One call of deleteHeightRange(db, key, 0, endHeight, parser) on the     *)
(* keys of one prefix: a loop over digit counts, from the longest down,    *)
(* whose every pass ends in one atomic batch write.  The process may die   *)
(* between two passes; the operator then runs the same prune again.        *)
(***************************************************************************)
EXTENDS HeightRange

CONSTANTS
  StoredSets,   \* the sets of heights a database may hold at the call
  Ends          \* the end heights to call with

ASSUME DeleteRangeAssumption ==
  /\ StoredSets \subseteq SUBSET Uint
  /\ Ends \subseteq Uint

VARIABLES
  shape,      \* the parser of the prefix
  initial,    \* the heights stored before the first call
  stored,     \* the heights stored now
  end,        \* endHeight
  digits,     \* the loop variable
  status,     \* "run", "done" (returned nil) or "failed" (returned an error)
  died        \* the process has died during a call (once at most: the bound)

vars == <<shape, initial, stored, end, digits, status, died>>

TypeOK ==
  /\ shape \in Shapes
  /\ initial \in SUBSET Uint
  /\ stored \in SUBSET initial
  /\ end \in Uint
  /\ digits \in 1..MaxDigits
  /\ status \in {"run", "done", "failed"}
  /\ died \in BOOLEAN

Init ==
  /\ shape \in Shapes
  /\ initial \in StoredSets
  /\ stored = initial
  /\ end \in Ends
  /\ digits = NumDigits(end)
  /\ status = "run"
  /\ died = FALSE

(* Iterate over the range of this length, delete what parses to a height   *)
(* up to end, write the batch.                                             *)
Pass ==
  /\ status = "run"
  /\ \E rangeEnd \in RangeEnds(end, digits) :
       LET deleted == PassDeletes(shape, stored, end, digits, rangeEnd)
           more    == GoesOn(digits, rangeEnd, deleted)
       IN  /\ stored' = stored \ deleted
           /\ digits' = IF more THEN digits - 1 ELSE digits
           /\ status' = IF more THEN "run" ELSE "done"
  /\ UNCHANGED <<shape, initial, end, died>>

(* The iterator or the batch returns an error: before the write nothing of *)
(* the pass is applied, after it (Close, iter.Error) everything is.        *)
PassFails ==
  /\ status = "run"
  /\ \E rangeEnd \in RangeEnds(end, digits) :
       /\ RangeStart(digits) <= rangeEnd
       /\ \E deleted \in {{}, PassDeletes(shape, stored, end, digits, rangeEnd)} :
            stored' = stored \ deleted
  /\ status' = "failed"
  /\ UNCHANGED <<shape, initial, end, digits, died>>

(* The process dies between two passes, or the call failed; the same prune *)
(* is run again from the longest digit count.                              *)
Retry ==
  /\ ~died
  /\ status \in {"run", "failed"}
  /\ status' = "run"
  /\ digits' = NumDigits(end)
  /\ died' = TRUE
  /\ UNCHANGED <<shape, initial, stored, end>>

Next == Pass \/ PassFails \/ Retry

Spec == Init /\ [][Next]_vars

----------------------------------------------------------------------------
(* Nothing above endHeight is ever deleted, at any point of a call, of a   *)
(* failed call or of its retry, although the byte ranges of the passes     *)
(* cover longer and larger numbers (generic_chain.go:214-226).             *)
AboveEndUntouched == {h \in initial : h > end} \subseteq stored

(* endHeight itself is the excluded last key of the first pass; the pass   *)
(* for one digit less reaches it, unless it starts with nines only.        *)
EndIsLeft ==
  LET d == NumDigits(end)
  IN  d = 1 \/ Leading(end, d - 1) = Power(d - 1) - 1

(* The heights a complete call may leave behind.  Every pass excludes its  *)
(* last key, the largest number of its length; the pass before it has      *)
(* deleted that number already, save for the first pass.  Of block parts   *)
(* no other pass reaches it at all.  Height 0 is below every range.        *)
Leftovers ==
  {0} \cup {h \in {end} : EndIsLeft}
      \cup IF shape = "colon" THEN {Power(d) - 1 : d \in 1..MaxDigits}
                              ELSE {Power(NumDigits(end) - 1) - 1}

(* No height of the longest length lies below the end: the first pass is   *)
(* empty and the loop breaks at once.                                      *)
FirstPassEmpty ==
  \A h \in initial : ~(Power(NumDigits(end) - 1) <= h /\ h < end)

(* A call that completes without interruption on a run of consecutive      *)
(* heights (what a node's stores hold) leaves none of the heights up to    *)
(* endHeight but those listed in Leftovers, unless its first pass found    *)
(* nothing.                                                                *)
CompleteCallLeavesOnlyLeftovers ==
  status = "done" /\ ~died /\ ~FirstPassEmpty =>
    {h \in stored : h <= end} \subseteq Leftovers

=============================================================================

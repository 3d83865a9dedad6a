------------------------- MODULE DeleteRange_proofs -------------------------
(***************************************************************************)
(* Proofs about one call of deleteHeightRange, failing, dying and retried, *)
(* for every base, width, store and end height.                            *)
(***************************************************************************)
EXTENDS DeleteRange, HeightRange_proofs

(* A pass keeps the types, and whatever it may do to the stored heights it *)
(* only takes away such as are not above the end.                          *)
LEMMA StepDeletesUpToEnd ==
  ASSUME TypeOK, [Next]_vars
  PROVE  /\ UNCHANGED <<initial, end>>
         /\ stored' \subseteq stored
         /\ {h \in stored : h > end} \subseteq stored'
<1>1. stored \subseteq Uint /\ end \in Int
  BY RangeAssumption DEF TypeOK, Uint, RangeAssumption
<1>2. CASE Pass
  <2>1. PICK r \in RangeEnds(end, digits) : stored' = stored \ PassDeletes(shape, stored, end, digits, r)
    BY <1>2 DEF Pass
  <2>2. PassDeletes(shape, stored, end, digits, r) \subseteq {h \in stored : h <= end}
    BY PassDeletesUpToEnd
  <2>3. \A h \in stored : h > end => ~(h <= end)
    BY <1>1, RangeAssumption DEF Uint, RangeAssumption
  <2> QED
    BY <1>2, <2>1, <2>2, <2>3 DEF Pass
<1>3. CASE PassFails
  <2>1. PICK r \in RangeEnds(end, digits) :
          \E deleted \in {{}, PassDeletes(shape, stored, end, digits, r)} : stored' = stored \ deleted
    BY <1>3 DEF PassFails
  <2>2. PassDeletes(shape, stored, end, digits, r) \subseteq {h \in stored : h <= end}
    BY PassDeletesUpToEnd
  <2>3. \A h \in stored : h > end => ~(h <= end)
    BY <1>1, RangeAssumption DEF Uint, RangeAssumption
  <2> QED
    BY <1>3, <2>1, <2>2, <2>3 DEF PassFails
<1>4. CASE Retry \/ UNCHANGED vars
  BY <1>4 DEF Retry, vars
<1> QED
  BY <1>2, <1>3, <1>4 DEF Next

LEMMA InitRange == Init => TypeOK /\ AboveEndUntouched
<1> SUFFICES ASSUME Init PROVE TypeOK /\ AboveEndUntouched
  OBVIOUS
<1>1. initial \in SUBSET Uint /\ end \in Uint /\ shape \in Shapes
  BY DeleteRangeAssumption DEF DeleteRangeAssumption, Init
<1>2. digits \in 1..MaxDigits
  BY <1>1, NumDigitsRange DEF Init
<1> QED
  BY <1>1, <1>2 DEF Init, TypeOK, AboveEndUntouched

LEMMA NextTypes ==
  ASSUME TypeOK, [Next]_vars
  PROVE  TypeOK'
<1>1. UNCHANGED <<initial, end>> /\ stored' \subseteq stored
  BY StepDeletesUpToEnd
<1>2. NumDigits(end) \in 1..MaxDigits /\ MaxDigits \in Nat
  BY NumDigitsRange, RangeAssumption DEF TypeOK, RangeAssumption
<1>3. CASE Pass
  <2>1. PICK r \in RangeEnds(end, digits) :
          LET deleted == PassDeletes(shape, stored, end, digits, r)
              more    == GoesOn(digits, r, deleted)
          IN  /\ digits' = IF more THEN digits - 1 ELSE digits
              /\ status' = IF more THEN "run" ELSE "done"
    BY <1>3 DEF Pass
  <2>2. digits' = digits \/ (digits > 1 /\ digits' = digits - 1)
    BY <2>1 DEF GoesOn
  <2>3. digits' \in 1..MaxDigits /\ status' \in {"run", "done"}
    BY <1>2, <2>1, <2>2 DEF TypeOK
  <2> QED
    BY <1>1, <1>3, <2>3 DEF Pass, TypeOK
<1>4. CASE PassFails
  BY <1>1, <1>4 DEF PassFails, TypeOK
<1>5. CASE Retry
  BY <1>1, <1>2, <1>5 DEF Retry, TypeOK
<1>6. CASE UNCHANGED vars
  BY <1>6 DEF vars, TypeOK
<1> QED
  BY <1>3, <1>4, <1>5, <1>6 DEF Next

(* Types: the loop never leaves the digit lengths that there are, and what *)
(* it deletes was stored.                                                  *)
THEOREM RangeTypes == Spec => []TypeOK
<1>1. Init => TypeOK
  BY InitRange
<1>2. TypeOK /\ [Next]_vars => TypeOK'
  BY NextTypes
<1> QED
  BY <1>1, <1>2, PTL DEF Spec

(* However a call, a failed call or its retry interleaves with deaths, no  *)
(* height above the end goes, although the byte ranges of the passes hold  *)
(* longer and larger numbers, and their ends may have been rounded up.     *)
THEOREM RangeAboveEnd == Spec => []AboveEndUntouched
<1>1. Init => TypeOK /\ AboveEndUntouched
  BY InitRange
<1>2. ASSUME TypeOK, AboveEndUntouched, [Next]_vars
      PROVE  TypeOK' /\ AboveEndUntouched'
  <2>1. UNCHANGED <<initial, end>> /\ {h \in stored : h > end} \subseteq stored'
    BY <1>2, StepDeletesUpToEnd
  <2> QED
    BY <1>2, <2>1, NextTypes DEF AboveEndUntouched
<1> QED
  BY <1>1, <1>2, PTL DEF Spec

----------------------------------------------------------------------------
(* What a complete call leaves. *)

(* A node's stores hold consecutive heights; a base of which one power is  *)
(* not the nines of its length (10 in the code); end heights at which the  *)
(* float64 arithmetic of rangeEnd is exact (10^16 and more are not).       *)
ConsecutiveStores == \A s \in StoredSets : \E lo, hi \in Uint : s = lo..hi
ExactEnds == \A e \in Ends : NumDigits(e) <= InexactDigits /\ e + RoundSpan < Word

(* The powers of up to d digits: as whole keys they come before the first  *)
(* key of every longer pass, so that only the pass of their own length can *)
(* delete them.                                                            *)
ShortPowers(d) == IF shape = "number" THEN {Power(m - 1) : m \in 1..d} ELSE {}

UpToEnd == {h \in stored : h <= end}

(* Before the pass for the present number of digits. *)
LoopInv ==
  /\ digits <= NumDigits(end)
  /\ ShortPowers(digits) \cap initial \subseteq stored
  /\ digits = NumDigits(end) => stored = initial
  /\ digits = NumDigits(end) - 1 => \A h \in stored : h < end => NumDigits(h) <= digits
  /\ digits < NumDigits(end) - 1 => UpToEnd \subseteq Leftovers \cup ShortPowers(digits)

CallInv ==
  /\ TypeOK
  /\ initial \in StoredSets /\ end \in Ends
  /\ ~died /\ status = "run" => LoopInv
  /\ CompleteCallLeavesOnlyLeftovers

LEMMA CallFacts ==
  ASSUME CallInv
  PROVE  /\ initial \subseteq Uint /\ stored \subseteq initial /\ end \in Uint
         /\ end \in Nat /\ \A h \in initial : h \in Nat
         /\ digits \in 1..MaxDigits /\ NumDigits(end) \in 1..MaxDigits
         /\ MaxDigits \in Nat /\ Power(0) = 1 /\ shape \in Shapes
<1>1. initial \subseteq Uint /\ stored \subseteq initial /\ end \in Uint
      /\ digits \in 1..MaxDigits /\ shape \in Shapes
  BY DEF CallInv, TypeOK
<1>2. \A h \in Uint : h \in Nat
  BY PowerStep DEF Uint
<1> QED
  BY <1>1, <1>2, NumDigitsRange, PowerStep

(* The first pass, for the number of digits of the end. *)
LEMMA FirstPassStep ==
  ASSUME CallInv, ExactEnds, ~died, status = "run", digits = NumDigits(end), Pass
  PROVE  /\ status' = "run" => LoopInv'
         /\ CompleteCallLeavesOnlyLeftovers'
<1> DEFINE k == NumDigits(end)
           deleted == PassDeletes(shape, stored, end, k, end)
<1>1. /\ stored' = stored \ deleted
      /\ digits' = IF GoesOn(k, end, deleted) THEN k - 1 ELSE k
      /\ status' = IF GoesOn(k, end, deleted) THEN "run" ELSE "done"
      /\ UNCHANGED <<shape, initial, end, died>>
  <2>1. end + RoundSpan < Word /\ NumDigits(end) <= InexactDigits /\ k \in 1..k
    BY CallFacts DEF CallInv, ExactEnds
  <2>2. \A r \in RangeEnds(end, k) : r = end
    BY <2>1, CallFacts, ExactEnd
  <2> QED
    BY <2>2 DEF Pass
<1>2. stored = initial /\ stored \subseteq Uint
  BY CallFacts DEF CallInv, LoopInv
<1>3. ASSUME NEW h \in stored, h < end, Power(k - 1) <= h
      PROVE  h \in deleted
  <2>1. h \in Uint /\ h <= end /\ end \in Uint /\ end < Power(k)
    BY <1>2, <1>3, CallFacts, DigitsAre
  <2> QED
    BY <1>3, <2>1, FirstPass
<1>4. NumDigits(end)' = k
  BY <1>1
<1>5. ASSUME GoesOn(k, end, deleted)
      PROVE  LoopInv'
  <2>1. digits' = k - 1 /\ k - 1 < k /\ k > 1
    BY <1>1, <1>5, CallFacts DEF GoesOn
  <2>2. (ShortPowers(digits) \cap initial \subseteq stored)'
    <3> SUFFICES ASSUME shape = "number", NEW m \in 1..(k - 1), Power(m - 1) \in initial
                 PROVE  Power(m - 1) \in stored'
      BY <1>1, <2>1 DEF ShortPowers
    <3>1. k \in 1..NumDigits(end)
      BY CallFacts
    <3>2. Power(m - 1) \notin PassDeletes("number", stored, end, k, end)
      BY <3>1, CallFacts, PassKeepsPowers
    <3> QED
      BY <1>1, <1>2, <3>2
  <2>3. ASSUME NEW h \in stored', h < end PROVE NumDigits(h) <= k - 1
    <3>1. h \in stored /\ h \notin deleted /\ h \in Uint /\ h \in Nat
      BY <1>1, <1>2, CallFacts
    <3>2. ~(Power(k - 1) <= h)
      BY <1>3, <2>3, <3>1
    <3>3. NumDigits(h) <= k /\ NumDigits(h) \in 1..MaxDigits
      BY <2>3, <3>1, CallFacts, DigitsMonotone, NumDigitsRange
    <3>4. NumDigits(h) # k
      BY <2>1, <3>1, <3>2, DigitsAre
    <3> HIDE DEF k
    <3>5. k \in Int
      BY CallFacts DEF k
    <3> QED
      BY <3>3, <3>4, <3>5
  <2>4. digits' \in Int /\ digits' = k - 1 /\ digits' <= k /\ digits' # k /\ ~(digits' < k - 1)
    BY <2>1, CallFacts
  <2> HIDE DEF k, deleted
  <2> QED
    BY <1>1, <1>4, <2>2, <2>3, <2>4 DEF LoopInv
<1>6. ASSUME ~GoesOn(k, end, deleted), ~FirstPassEmpty
      PROVE  UpToEnd' \subseteq Leftovers'
  <2>1. PICK g \in initial : Power(k - 1) <= g /\ g < end
    BY <1>6 DEF FirstPassEmpty
  <2>2. g \in deleted
    BY <1>2, <1>3, <2>1
  <2>3. k = 1
    BY <1>6, <2>2, CallFacts DEF GoesOn
  <2>4. EndIsLeft' /\ 0 \in Leftovers' /\ end \in Leftovers'
    <3>1. EndIsLeft'
      BY <1>4, <2>3 DEF EndIsLeft
    <3> QED
      BY <1>1, <3>1 DEF Leftovers
  <2>5. ASSUME NEW h \in UpToEnd' PROVE h = 0 \/ h = end
    <3>1. h \in stored /\ h \notin deleted /\ h <= end /\ h \in Nat /\ end \in Nat
      BY <1>1, <1>2, CallFacts DEF UpToEnd
    <3>2. Power(k - 1) = 1
      BY <2>3, CallFacts
    <3>3. ~(h < end /\ 1 <= h)
      BY <1>3, <3>1, <3>2
    <3> QED
      BY <3>1, <3>3
  <2> QED
    BY <2>4, <2>5
<1>7. FirstPassEmpty' = FirstPassEmpty
  BY <1>1 DEF FirstPassEmpty
<1>8. CompleteCallLeavesOnlyLeftovers'
  BY <1>1, <1>6, <1>7 DEF CompleteCallLeavesOnlyLeftovers, UpToEnd
<1> QED
  BY <1>1, <1>5, <1>8

(* What a later pass leaves up to the end, whether it deletes or not. *)
LEMMA LaterPassLeaves ==
  ASSUME CallInv, Base # 2, LoopInv, digits # NumDigits(end),
         Power(digits) - 1 \in Uint, Power(digits) - 1 < end,
         NEW h \in UpToEnd, h \notin PassDeletes(shape, stored, end, digits, Power(digits) - 1)
  PROVE  h \in Leftovers \cup ShortPowers(digits - 1)
<1> DEFINE k == NumDigits(end)
           d == digits
           n == NumDigits(h)
<1>1. /\ h \in stored /\ h \in Uint /\ h \in Nat /\ h <= end /\ end \in Nat /\ end \in Uint
      /\ d \in 1..MaxDigits /\ k \in 1..MaxDigits /\ n \in 1..MaxDigits /\ d <= k - 1 /\ d < k
      /\ MaxDigits \in Nat /\ shape \in Shapes
  BY CallFacts, NumDigitsRange DEF UpToEnd, LoopInv
<1>2. h # 0 =>
        ~ IF n <= d THEN /\ h # Power(n) - 1 \/ (shape = "number" /\ n < d)
                         /\ ~(shape = "number" /\ n < d /\ h = Power(n - 1))
                    ELSE Leading(h, d) # Power(d) - 1
  BY <1>1, LaterPass
<1>3. 0 \in Leftovers
  BY DEF Leftovers
<1>4. ASSUME n <= d, h = Power(n) - 1, ~(shape = "number" /\ n < d), d = k - 1
      PROVE  h \in Leftovers
  BY <1>1, <1>4 DEF Leftovers, Shapes
<1>5. ASSUME shape = "number", n < d, h = Power(n - 1)
      PROVE  h \in ShortPowers(d - 1)
  BY <1>1, <1>5 DEF ShortPowers
<1>6. CASE d = k - 1
  <2>1. CASE n <= d
    BY <1>2, <1>3, <1>4, <1>5, <1>6, <2>1
  <2>2. CASE ~(n <= d)
    <3>1. h = end
      BY <1>1, <1>6, <2>2 DEF LoopInv
    <3>2. h # 0 => Leading(end, k - 1) = Power(k - 1) - 1
      BY <1>2, <1>6, <2>2, <3>1
    <3>3. h # 0 => EndIsLeft
      BY <3>2 DEF EndIsLeft
    <3> QED
      BY <1>3, <3>1, <3>3 DEF Leftovers
  <2> QED
    BY <2>1, <2>2
<1>7. CASE d < k - 1
  <2>1. h \in Leftovers \cup ShortPowers(d)
    BY <1>7 DEF LoopInv
  <2>2. ASSUME h \in ShortPowers(d), h \notin ShortPowers(d - 1)
        PROVE  FALSE
    <3>1. shape = "number" /\ h = Power(d - 1)
      <4>1. shape = "number" /\ \E m \in 1..d : h = Power(m - 1)
        BY <2>2 DEF ShortPowers
      <4>2. PICK m \in 1..d : h = Power(m - 1)
        BY <4>1
      <4>3. m \notin 1..(d - 1)
        BY <2>2, <4>1, <4>2 DEF ShortPowers
      <4>4. m = d
        BY <1>1, <4>3
      <4> QED
        BY <4>1, <4>2, <4>4
    <3>2. NumDigits(h) = d
      BY <1>1, <3>1, DigitsOfPower
    <3>3. h # Power(d) - 1 /\ h # 0
      BY <1>1, <3>1, PowerIsNotNines
    <3>4. n <= d /\ ~(n < d) /\ h # Power(n) - 1
      BY <1>1, <3>2, <3>3
    <3> QED
      BY <1>2, <3>3, <3>4
  <2> QED
    BY <2>1, <2>2
<1>8. d = k - 1 \/ d < k - 1
  BY <1>1
<1> QED
  BY <1>6, <1>7, <1>8
(* On consecutive heights that reach past the shorter powers, an empty     *)
(* pass means that there is no shorter power either.                       *)
LEMMA EmptyPass ==
  ASSUME CallInv, ConsecutiveStores, Base # 2, LoopInv, ~FirstPassEmpty,
         digits # NumDigits(end), Power(digits) - 1 \in Uint, Power(digits) - 1 < end,
         PassDeletes(shape, stored, end, digits, Power(digits) - 1) = {}
  PROVE  ShortPowers(digits) \cap stored = {}
<1> DEFINE d == digits
<1> SUFFICES ASSUME shape = "number", NEW m \in 1..d, Power(m - 1) \in stored
             PROVE  FALSE
  BY DEF ShortPowers
<1>1. /\ d \in 1..MaxDigits /\ NumDigits(end) \in 1..MaxDigits /\ d < NumDigits(end)
      /\ MaxDigits \in Nat /\ end \in Nat /\ end \in Uint
  BY CallFacts DEF LoopInv
<1>2. d - 1 \in 0..MaxDigits /\ m - 1 \in 0..MaxDigits /\ NumDigits(end) - 1 \in 0..MaxDigits
      /\ d - 1 < NumDigits(end) - 1 /\ (m - 1 = d - 1 \/ m - 1 < d - 1) /\ d \in 0..MaxDigits /\ d - 1 < d
  BY <1>1
<1>3. Power(m - 1) <= Power(d - 1) /\ Power(d - 1) < Power(NumDigits(end) - 1) /\ Power(d - 1) < Power(d)
      /\ Power(m - 1) \in Nat /\ Power(d - 1) \in Nat /\ Power(NumDigits(end) - 1) \in Nat /\ Power(d) \in Nat
  BY <1>2, PowerMonotone, PowerType
<1>4. PICK lo \in Uint, hi \in Uint : initial = lo..hi
  BY DEF CallInv, ConsecutiveStores
<1>5. PICK g \in initial : Power(NumDigits(end) - 1) <= g
  BY DEF FirstPassEmpty
<1>6. Power(d - 1) \in initial
  <2>1. Power(m - 1) \in initial
    BY CallFacts
  <2>2. lo \in Int /\ hi \in Int
    BY PowerStep DEF Uint
  <2>3. lo <= Power(m - 1) /\ g <= hi /\ g \in Int
    BY <1>4, <2>1, <2>2
  <2> QED
    BY <1>3, <1>4, <1>5, <2>2, <2>3
<1>7. Power(d - 1) \in stored /\ Power(d - 1) \in Uint
  <2>1. Power(d - 1) \in ShortPowers(d)
    BY <1>1 DEF ShortPowers
  <2> QED
    BY <1>6, <2>1, CallFacts DEF LoopInv
<1>8. NumDigits(Power(d - 1)) = d /\ Power(d - 1) # Power(d) - 1 /\ Power(d - 1) # 0 /\ Power(d - 1) <= end
  BY <1>1, <1>3, <1>7, DigitsOfPower, PowerIsNotNines
<1>9. d <= d /\ ~(d < d)
  BY <1>1
<1>10. Power(d - 1) \in PassDeletes(shape, stored, end, d, Power(d) - 1)
  BY <1>1, <1>7, <1>8, <1>9, LaterPass
<1> QED
  BY <1>10

LEMMA LaterPassStep ==
  ASSUME CallInv, ConsecutiveStores, ExactEnds, Base # 2,
         ~died, status = "run", digits # NumDigits(end), Pass
  PROVE  /\ status' = "run" => LoopInv'
         /\ CompleteCallLeavesOnlyLeftovers'
<1> DEFINE k == NumDigits(end)
           d == digits
           r == Power(d) - 1
           deleted == PassDeletes(shape, stored, end, d, r)
<1>1. LoopInv /\ d \in 1..k /\ d < k /\ k \in 1..MaxDigits /\ d \in 1..MaxDigits /\ MaxDigits \in Nat
  <2>1. LoopInv
    BY DEF CallInv
  <2> QED
    BY <2>1, CallFacts DEF LoopInv
<1>2. \A e \in RangeEnds(end, d) : e = r /\ r < end /\ r \in Uint
  <2>1. end + RoundSpan < Word /\ NumDigits(end) <= InexactDigits /\ end \in Uint
    BY CallFacts DEF CallInv, ExactEnds
  <2> QED
    BY <1>1, <2>1, ExactEnd
<1>3. /\ stored' = stored \ deleted
      /\ digits' = IF GoesOn(d, r, deleted) THEN d - 1 ELSE d
      /\ status' = IF GoesOn(d, r, deleted) THEN "run" ELSE "done"
      /\ UNCHANGED <<shape, initial, end, died>>
      /\ r < end /\ r \in Uint
  BY <1>2 DEF Pass
<1>4. UNCHANGED <<Leftovers, FirstPassEmpty, k>> /\ \A i : ShortPowers(i)' = ShortPowers(i)
  BY <1>3 DEF Leftovers, EndIsLeft, FirstPassEmpty, ShortPowers
<1>5. UpToEnd' \subseteq Leftovers \cup ShortPowers(d - 1)
  <2>1. ASSUME NEW h \in UpToEnd' PROVE h \in UpToEnd /\ h \notin deleted
    BY <1>3 DEF UpToEnd
  <2> QED
    BY <1>1, <1>3, <2>1, LaterPassLeaves
<1>6. ASSUME GoesOn(d, r, deleted)
      PROVE  LoopInv'
  <2>1. digits' = d - 1 /\ digits' \in Int /\ digits' < k - 1 /\ k \in Int
    BY <1>1, <1>3, <1>6
  <2>2. ShortPowers(d - 1) \cap initial \subseteq stored'
    <3> SUFFICES ASSUME shape = "number", NEW m \in 1..(d - 1), Power(m - 1) \in initial
                 PROVE  Power(m - 1) \in stored'
      BY DEF ShortPowers
    <3>1. m \in 1..d
      BY <1>1
    <3>2. Power(m - 1) \in stored
      BY <1>1, <3>1 DEF LoopInv, ShortPowers
    <3>3. Power(m - 1) \notin PassDeletes("number", stored, end, d, r)
      BY <1>1, CallFacts, PassKeepsPowers
    <3> QED
      BY <1>3, <3>2, <3>3
  <2>3. (ShortPowers(digits) \cap initial \subseteq stored)'
    BY <1>3, <1>4, <2>1, <2>2 DEF ShortPowers
  <2>4. (UpToEnd \subseteq Leftovers \cup ShortPowers(digits))'
    BY <1>3, <1>4, <1>5, <2>1 DEF ShortPowers
  <2>5. digits' <= k' /\ digits' # k' /\ digits' # k' - 1
    BY <1>4, <2>1
  <2> HIDE DEF k, d, r, deleted
  <2> QED
    BY <2>3, <2>4, <2>5 DEF LoopInv, k
<1>7. ASSUME ~GoesOn(d, r, deleted), ~FirstPassEmpty
      PROVE  UpToEnd' \subseteq Leftovers
  <2>1. CASE d = 1
    <3>1. ShortPowers(d - 1) = {}
      BY <2>1 DEF ShortPowers
    <3> QED
      BY <1>5, <3>1
  <2>2. CASE d # 1
    <3>1. deleted = {}
      BY <1>1, <1>7, <2>2 DEF GoesOn
    <3>2. ShortPowers(d) \cap stored = {}
      BY <1>1, <1>3, <1>7, <3>1, EmptyPass
    <3>3. ShortPowers(d - 1) \subseteq ShortPowers(d)
      BY <1>1 DEF ShortPowers
    <3>4. UpToEnd' \subseteq stored
      BY <1>3 DEF UpToEnd
    <3> QED
      BY <1>5, <3>2, <3>3, <3>4
  <2> QED
    BY <2>1, <2>2
<1>8. CompleteCallLeavesOnlyLeftovers'
  BY <1>3, <1>4, <1>7 DEF CompleteCallLeavesOnlyLeftovers, UpToEnd
<1> QED
  BY <1>3, <1>6, <1>8

(* A call that is neither interrupted nor finds its first pass empty       *)
(* leaves, of a node's consecutive heights up to the end, only the known   *)
(* leftovers: the loop that breaks at the first empty pass never stops     *)
(* early.                                                                  *)
THEOREM RangeCompleteCall ==
  ASSUME ConsecutiveStores, ExactEnds, Base # 2
  PROVE  Spec => []CompleteCallLeavesOnlyLeftovers
<1>1. Init => CallInv
  <2> SUFFICES ASSUME Init PROVE CallInv
    OBVIOUS
  <2>1. TypeOK /\ status = "run"
    BY InitRange DEF Init
  <2>2. initial \in StoredSets /\ end \in Ends /\ stored = initial /\ digits = NumDigits(end)
    BY DEF Init
  <2>3. NumDigits(end) \in Int
    BY <2>1, NumDigitsRange DEF TypeOK
  <2>4. LoopInv
    BY <2>2, <2>3 DEF LoopInv
  <2> QED
    BY <2>1, <2>2, <2>4 DEF CallInv, CompleteCallLeavesOnlyLeftovers
<1>2. ASSUME CallInv, [Next]_vars
      PROVE  CallInv'
  <2>1. TypeOK' /\ UNCHANGED <<initial, end>>
    BY <1>2, NextTypes, StepDeletesUpToEnd DEF CallInv
  <2>2. CASE Pass /\ ~died
    <3>1. status = "run" /\ died' = died
      BY <2>2 DEF Pass
    <3>2. (status' = "run" => LoopInv') /\ CompleteCallLeavesOnlyLeftovers'
      BY <1>2, <2>2, <3>1, FirstPassStep, LaterPassStep
    <3> QED
      BY <1>2, <2>1, <3>2 DEF CallInv
  <2>3. CASE Pass /\ died
    <3>1. died'
      BY <2>3 DEF Pass
    <3> QED
      BY <1>2, <2>1, <3>1 DEF CallInv, CompleteCallLeavesOnlyLeftovers
  <2>4. CASE PassFails
    <3>1. status' = "failed"
      BY <2>4 DEF PassFails
    <3> QED
      BY <1>2, <2>1, <3>1 DEF CallInv, CompleteCallLeavesOnlyLeftovers
  <2>5. CASE Retry
    <3>1. died'
      BY <2>5 DEF Retry
    <3> QED
      BY <1>2, <2>1, <3>1 DEF CallInv, CompleteCallLeavesOnlyLeftovers
  <2>6. CASE UNCHANGED vars
    BY <1>2, <2>1, <2>6
       DEF vars, CallInv, LoopInv, CompleteCallLeavesOnlyLeftovers, ShortPowers, UpToEnd,
           Leftovers, EndIsLeft, FirstPassEmpty
  <2> QED
    BY <1>2, <2>2, <2>3, <2>4, <2>5, <2>6 DEF Next
<1>3. CallInv => CompleteCallLeavesOnlyLeftovers
  BY DEF CallInv
<1> QED
  BY <1>1, <1>2, <1>3, PTL DEF Spec
=============================================================================

---------------------------- MODULE HeightRange ----------------------------
(***************************************************************************)
(* The height arithmetic of cmd/generic_chain.go: which keys one pass of   *)
(* deleteHeightRange reaches.                                              *)
(*                                                                         *)
(* A key is <prefix><height>, or <prefix><height>:<part> for block parts,  *)
(* with the height written in decimal and NOT padded.  The database orders *)
(* keys by their bytes, so heights are visited in dictionary order of      *)
(* their digits, and deleteHeightRange makes one pass per number of        *)
(* digits.  A key is represented by its height; the comparison of the      *)
(* bytes of two keys of one prefix is computed from the heights.           *)
(*                                                                         *)
(* Base stands for the 10 of the code's %d and math.Pow10.  Everything is  *)
(* stated for any base, so that small instances cross digit boundaries.    *)
(***************************************************************************)
EXTENDS Integers, FiniteSets

CONSTANTS
  Base,           \* 10 in the code
  MaxDigits,      \* digits of the largest uint64: 20 in the code
  Word,           \* number of uint64 values: 2^64 in the code
  InexactDigits,  \* from this many digits Pow10(d)-1 is not a float64: 16
  RoundSpan       \* float64(Word - i) is Word for i <= RoundSpan: 1024

ASSUME RangeAssumption ==
  /\ Base \in Nat \ {0, 1}
  /\ MaxDigits \in Nat \ {0}
  /\ Word \in Nat \ {0, 1}
  /\ InexactDigits \in Nat
  /\ RoundSpan \in 0..Word

(* math.Pow10(d): a power of ten up to 10^20, which a float64 holds        *)
(* exactly.                                                                *)
Power(d) == Base^d

(* What exponentiation means, which the provers do not know, for the       *)
(* exponents that occur; that MaxDigits digits write every uint64; and     *)
(* that no power of which Pow10(d)-1 is inexact lies where the rounding to *)
(* Word begins.                                                            *)
ASSUME PowerAssumption ==
  /\ Power(0) = 1
  /\ \A d \in 0..(MaxDigits - 1) : Power(d + 1) = Base * Power(d)
  /\ Word <= Power(MaxDigits)
  /\ \A d \in InexactDigits..MaxDigits : Power(d) + RoundSpan <= Word \/ Word <= Power(d)

(* The uint64 values. *)
Uint == 0..(Word - 1)

(* How the number of a key ends: asciiHeightParser reads up to the end of  *)
(* the key, asciiHeightParserTwoParts up to a colon.                       *)
Shapes == {"number", "colon"}

----------------------------------------------------------------------------
(* Decimal notation. *)

(* len(fmt.Sprintf("%d", n)): as many digits as there are powers of Base   *)
(* not above n, and one digit for 0.                                       *)
numDigits ==
  [n \in Uint |-> Cardinality({1} \cup {d \in 1..MaxDigits : Power(d - 1) <= n})]
NumDigits(n) == numDigits[n]

(* The first m digits of n. *)
Leading(n, m) == n \div Power(NumDigits(n) - m)

(* The key of height h comes before the key <prefix><bound> in byte order. *)
(* When one number starts with the other, the shorter key is the smaller   *)
(* one; but a colon is greater than any digit, so a key of shape "colon"   *)
(* that starts like the bound is always after it.                          *)
KeyLess(shape, h, bound) ==
  LET dh == NumDigits(h)
      db == NumDigits(bound)
      m  == IF dh < db THEN dh ELSE db
  IN  \/ Leading(h, m) < Leading(bound, m)
      \/ /\ Leading(h, m) = Leading(bound, m)
         /\ shape = "number"
         /\ dh < db

(* db.Iterator(first, last) includes first and excludes last. *)
InIterator(shape, h, first, last) ==
  ~KeyLess(shape, h, first) /\ KeyLess(shape, h, last)

----------------------------------------------------------------------------
(* One pass of the loop over digits. *)

(* rangeStart: startHeight is 0 in every call, so the power always wins. *)
RangeStart(digits) == Power(digits - 1)

(* rangeEnd: the minimum is taken in float64.  An end height next to 2^64  *)
(* (an unsigned subtraction that wrapped) rounds up to 2^64, and the       *)
(* conversion of 2^64 back to uint64 is left to the machine: the top bit   *)
(* alone on amd64, the largest uint64 on arm64.                            *)
RangeEnds(end, digits) ==
  LET nines == IF digits < InexactDigits THEN Power(digits) - 1 ELSE Power(digits)
  IN  IF end + RoundSpan >= Word
        THEN IF nines < Word THEN {nines} ELSE {Word \div 2, Word - 1}
        ELSE IF nines < end THEN {nines} ELSE {end}

(* Mutants of PassDeletes: the parsed height is not compared with the end; *)
(* the keys are taken in numerical order; the range includes neither end.  *)
PassDeletesUnparsed(shape, stored, end, digits, rangeEnd) ==
  {h \in stored :
     /\ RangeStart(digits) <= rangeEnd
     /\ InIterator(shape, h, RangeStart(digits), rangeEnd)}
PassDeletesOpenStart(shape, stored, end, digits, rangeEnd) ==
  {h \in stored :
     /\ RangeStart(digits) < rangeEnd
     /\ InIterator(shape, h, RangeStart(digits) + 1, rangeEnd)
     /\ h <= end}

(* The heights that the pass puts in its batch of deletions. *)
PassDeletes(shape, stored, end, digits, rangeEnd) ==
  {h \in stored :
     /\ RangeStart(digits) <= rangeEnd
     /\ InIterator(shape, h, RangeStart(digits), rangeEnd)
     /\ h <= end}

(* Mutant of GoesOn: the loop runs past one digit. *)
GoesOnToZero(digits, rangeEnd, deleted) ==
  RangeStart(digits) > rangeEnd \/ deleted # {}

(* The loop goes on to a shorter length after a pass that was skipped      *)
(* (continue) or that deleted something, and breaks after an empty one.    *)
GoesOn(digits, rangeEnd, deleted) ==
  /\ digits > 1
  /\ RangeStart(digits) > rangeEnd \/ deleted # {}
=============================================================================

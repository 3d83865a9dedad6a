------------------------- MODULE HeightRange_proofs -------------------------
(***************************************************************************)
(* Lemmas on the height arithmetic, for every base and width.              *)
(***************************************************************************)
EXTENDS HeightRange, FiniteSetTheorems, WellFoundedInduction, TLAPS

----------------------------------------------------------------------------
(* Induction, stated with sets: the relation < on the natural numbers is   *)
(* well-founded.                                                           *)

LEMMA SetMinimum ==
  ASSUME NEW S, S \subseteq Nat, S # {}
  PROVE  \E m \in S : \A k \in S : m <= k
<1> DEFINE R == OpToRel(<, Nat)
<1>1. IsWellFoundedOn(R, Nat)
  BY NatLessThanWellFounded
<1>2. \A x, y \in Nat : <<x, y>> \in R <=> x < y
  BY DEF OpToRel
<1> HIDE DEF R
<1>3. PICK m \in S : \A k \in S : ~ (<<k, m>> \in R)
  BY <1>1, WFMin
<1>4. \A k \in S : ~ (k < m)
  BY <1>2, <1>3
<1>5. \A k \in S : k \in Nat /\ m \in Nat
  OBVIOUS
<1>6. \A k \in S : m <= k
  BY <1>4, <1>5
<1> QED
  BY <1>6

LEMMA SetInduction ==
  ASSUME NEW S, NEW m \in Nat, 0 \in S, \A n \in 0..(m - 1) : n \in S => n + 1 \in S
  PROVE  0..m \subseteq S
<1> SUFFICES ASSUME (0..m) \ S # {} PROVE FALSE
  OBVIOUS
<1>1. PICK n \in (0..m) \ S : \A k \in (0..m) \ S : n <= k
  <2>1. (0..m) \ S \subseteq Nat
    OBVIOUS
  <2> QED
    BY <2>1, SetMinimum
<1>2. n \in Nat /\ n # 0 /\ n <= m
  BY <1>1
<1>3. n - 1 \in 0..(m - 1) /\ n - 1 \in S
  BY <1>1, <1>2
<1> QED
  BY <1>1, <1>2, <1>3

----------------------------------------------------------------------------
(* Powers. *)

LEMMA PowerStep ==
  /\ Base \in Nat /\ Base >= 2 /\ MaxDigits \in Nat /\ MaxDigits >= 1
  /\ Power(0) = 1 /\ \A d \in 0..(MaxDigits - 1) : Power(d + 1) = Base * Power(d)
  /\ Word \in Nat /\ Word >= 2 /\ Word <= Power(MaxDigits)
BY RangeAssumption, PowerAssumption DEF RangeAssumption, PowerAssumption

LEMMA PowerType ==
  /\ \A d \in 0..MaxDigits : Power(d) \in Nat /\ Power(d) >= 1
<1> DEFINE S == {d \in 0..MaxDigits : Power(d) \in Nat /\ Power(d) >= 1}
<1>1. 0 \in S
  BY PowerStep
<1>2. ASSUME NEW n \in 0..(MaxDigits - 1), n \in S
      PROVE  n + 1 \in S
  <2>1. Power(n) \in Nat /\ Power(n) >= 1 /\ n + 1 \in 0..MaxDigits
    BY <1>2, PowerStep
  <2>2. Power(n + 1) = Base * Power(n)
    BY PowerStep
  <2>3. \A b, p \in Nat : b >= 2 /\ p >= 1 => b * p \in Nat /\ b * p >= 1
    OBVIOUS
  <2> QED
    BY <2>1, <2>2, <2>3, PowerStep
<1> HIDE DEF S
<1>3. 0..MaxDigits \subseteq S
  BY <1>1, <1>2, PowerStep, SetInduction
<1> QED
  BY <1>3 DEF S

LEMMA PowerMonotone ==
  ASSUME NEW a \in 0..MaxDigits, NEW b \in 0..MaxDigits, a < b
  PROVE  Power(a) < Power(b)
<1> DEFINE S == {d \in 0..MaxDigits : a < d => Power(a) < Power(d)}
<1>1. 0 \in S
  BY PowerStep
<1>2. ASSUME NEW n \in 0..(MaxDigits - 1), n \in S
      PROVE  n + 1 \in S
  <2>1. n \in 0..MaxDigits /\ n + 1 \in 0..MaxDigits /\ MaxDigits \in Nat
    BY PowerStep
  <2>2. Power(n) \in Nat /\ Power(n) >= 1 /\ Power(a) \in Nat
    BY <2>1, PowerType
  <2>3. \A x, p \in Nat : x >= 2 /\ p >= 1 => p < x * p
    OBVIOUS
  <2>4. Power(n) < Power(n + 1) /\ Power(n + 1) \in Nat
    BY <2>1, <2>2, <2>3, PowerStep, PowerType
  <2>5. a < n + 1 => Power(a) < Power(n + 1)
    BY <1>2, <2>1, <2>2, <2>4
  <2> QED
    BY <2>1, <2>5
<1> HIDE DEF S
<1>3. 0..MaxDigits \subseteq S
  BY <1>1, <1>2, PowerStep, SetInduction
<1> QED
  BY <1>3 DEF S

LEMMA PowerIsNotNines ==
  ASSUME Base # 2, NEW d \in 1..MaxDigits
  PROVE  Power(d - 1) # Power(d) - 1 /\ Power(d - 1) # 0
<1>1. d - 1 \in 0..(MaxDigits - 1) /\ d - 1 \in 0..MaxDigits /\ (d - 1) + 1 = d
  BY PowerStep
<1>2. Power(d) = Base * Power(d - 1) /\ Power(d - 1) \in Nat /\ Power(d - 1) >= 1
  BY <1>1, PowerStep, PowerType
<1>3. \A b, x \in Nat : b >= 3 /\ x >= 1 => b * x >= 3 * x /\ b * x \in Nat
  OBVIOUS
<1>4. Base >= 3
  BY PowerStep
<1>5. Base * Power(d - 1) >= 3 * Power(d - 1)
  BY <1>2, <1>3, <1>4, PowerStep
<1> QED
  BY <1>2, <1>3, <1>4, <1>5, PowerStep

LEMMA PowerPlus ==
  ASSUME NEW a \in Nat, NEW b \in Nat, a + b <= MaxDigits
  PROVE  Power(a + b) = Power(a) * Power(b)
<1> DEFINE S == {d \in 0..MaxDigits : a + d <= MaxDigits => Power(a + d) = Power(a) * Power(d)}
<1>0. a \in 0..MaxDigits /\ Power(a) \in Nat
  BY PowerStep, PowerType
<1>1. 0 \in S
  BY <1>0, PowerStep
<1>2. ASSUME NEW n \in 0..(MaxDigits - 1), n \in S
      PROVE  n + 1 \in S
  <2> SUFFICES ASSUME a + (n + 1) <= MaxDigits
               PROVE  Power(a + (n + 1)) = Power(a) * Power(n + 1)
    BY PowerStep
  <2>1. n \in 0..MaxDigits /\ a + n \in 0..(MaxDigits - 1) /\ (a + n) + 1 = a + (n + 1)
    BY PowerStep
  <2>2. Power(a + (n + 1)) = Base * Power(a + n)
    BY <2>1, PowerStep
  <2>3. Power(a + n) = Power(a) * Power(n)
    <3>1. a + n <= MaxDigits
      BY <2>1, PowerStep
    <3> QED
      BY <1>2, <3>1
  <2>4. Power(n + 1) = Base * Power(n) /\ Power(n) \in Nat
    BY <2>1, PowerStep, PowerType
  <2>5. \A x, y, z \in Nat : x * (y * z) = y * (x * z)
    OBVIOUS
  <2> QED
    BY <1>0, <2>2, <2>3, <2>4, <2>5, PowerStep
<1> HIDE DEF S
<1>3. 0..MaxDigits \subseteq S
  BY <1>1, <1>2, PowerStep, SetInduction
<1> QED
  BY <1>3, PowerStep DEF S

----------------------------------------------------------------------------
(* Digits. *)

(* A number has k digits when k is the least exponent of a power above it. *)
LEMMA DigitsAre ==
  ASSUME NEW n \in Uint
  PROVE  /\ NumDigits(n) \in 1..MaxDigits
         /\ n < Power(NumDigits(n))
         /\ NumDigits(n) = 1 \/ Power(NumDigits(n) - 1) <= n
<1> DEFINE A == {d \in 1..MaxDigits : n < Power(d)}
           S == {1} \cup {d \in 1..MaxDigits : Power(d - 1) <= n}
<1>1. n \in Nat /\ n < Word
  BY PowerStep DEF Uint
<1>2. \E k \in A : \A d \in A : k <= d
  <2>1. Power(MaxDigits) \in Nat
    BY PowerStep, PowerType
  <2>2. MaxDigits \in A
    BY <1>1, <2>1, PowerStep
  <2>3. A \subseteq Nat /\ A # {}
    BY <2>2
  <2> HIDE DEF A
  <2> QED
    BY <2>3, SetMinimum
<1>3. PICK k \in A : \A d \in A : k <= d
  BY <1>2
<1>4. k \in 1..MaxDigits /\ n < Power(k) /\ MaxDigits \in Nat
  BY PowerStep
<1>5. ASSUME NEW d \in 1..MaxDigits, d # 1
      PROVE  d <= k <=> Power(d - 1) <= n
  <2>1. d - 1 \in 1..MaxDigits /\ Power(d - 1) \in Nat /\ Power(k) \in Nat /\ k \in 0..MaxDigits
    BY <1>4, <1>5, PowerType
  <2>2. CASE d <= k
    <3>1. ~(d - 1 \in A)
      BY <1>3, <1>4, <2>2
    <3> QED
      BY <1>1, <2>1, <2>2, <3>1
  <2>3. CASE k < d
    <3>1. k = d - 1 \/ k < d - 1
      BY <1>4, <2>3
    <3>2. Power(k) <= Power(d - 1)
      BY <2>1, <3>1, PowerMonotone
    <3> QED
      BY <1>1, <1>4, <2>1, <2>3, <3>2
  <2> QED
    BY <1>4, <2>2, <2>3
<1>6. S = 1..k
  BY <1>4, <1>5
<1>7. NumDigits(n) = k
  <2>1. NumDigits(n) = Cardinality(S)
    BY DEF NumDigits, numDigits
  <2> HIDE DEF S, A
  <2>2. Cardinality(1..k) = k
    BY <1>4, FS_Interval
  <2> QED
    BY <1>6, <2>1, <2>2
<1>8. k = 1 \/ Power(k - 1) <= n
  BY <1>4, <1>5
<1> QED
  BY <1>4, <1>7, <1>8

LEMMA NumDigitsRange ==
  ASSUME NEW n \in Uint
  PROVE  NumDigits(n) \in 1..MaxDigits
BY DigitsAre

LEMMA DigitsUnique ==
  ASSUME NEW n \in Uint, NEW d \in 1..MaxDigits, n < Power(d), d = 1 \/ Power(d - 1) <= n
  PROVE  NumDigits(n) = d
<1> DEFINE k == NumDigits(n)
<1>1. k \in 1..MaxDigits /\ n < Power(k) /\ (k = 1 \/ Power(k - 1) <= n)
  BY DigitsAre
<1> HIDE DEF k
<1>2. n \in Nat /\ MaxDigits \in Nat
  BY PowerStep DEF Uint
<1>3. ASSUME NEW a \in 1..MaxDigits, NEW b \in 1..MaxDigits, a < b,
             n < Power(a), Power(b - 1) <= n
      PROVE  FALSE
  <2>1. a \in 0..MaxDigits /\ b - 1 \in 0..MaxDigits /\ (a = b - 1 \/ a < b - 1)
    BY <1>2, <1>3
  <2>2. Power(a) <= Power(b - 1) /\ Power(a) \in Nat /\ Power(b - 1) \in Nat
    BY <2>1, PowerMonotone, PowerType
  <2> QED
    BY <1>2, <1>3, <2>2
<1>4. k \in Int /\ d \in Int
  BY <1>1
<1>5. ~(k < d) /\ ~(d < k)
  BY <1>1, <1>2, <1>3, <1>4
<1> QED
  BY <1>4, <1>5 DEF k

(* The smallest and the largest numbers of d digits. *)
LEMMA DigitsOfPower ==
  ASSUME NEW d \in 1..MaxDigits, Power(d - 1) \in Uint
  PROVE  NumDigits(Power(d - 1)) = d
<1>1. d - 1 \in 0..MaxDigits /\ d \in 0..MaxDigits /\ d - 1 < d
  BY PowerStep
<1>2. Power(d - 1) < Power(d) /\ Power(d - 1) <= Power(d - 1)
  BY <1>1, PowerMonotone, PowerType
<1> QED
  BY <1>2, DigitsUnique

LEMMA DigitsOfNines ==
  ASSUME NEW d \in 1..MaxDigits, Power(d) - 1 \in Uint
  PROVE  NumDigits(Power(d) - 1) = d
<1>1. d - 1 \in 0..MaxDigits /\ d \in 0..MaxDigits /\ d - 1 < d
  BY PowerStep
<1>2. Power(d - 1) < Power(d) /\ Power(d - 1) \in Nat /\ Power(d) \in Nat
  BY <1>1, PowerMonotone, PowerType
<1>3. Power(d) - 1 < Power(d) /\ Power(d - 1) <= Power(d) - 1
  BY <1>2
<1> QED
  BY <1>3, DigitsUnique

(* The leading digits of a number. *)

LEMMA DivIs ==
  /\ \A x, q \in Nat : \A p \in Nat \ {0} : q * p <= x /\ x < (q + 1) * p => x \div p = q
  /\ \A x \in Nat : \A p \in Nat \ {0} :
       x \div p \in Nat /\ (x \div p) * p <= x /\ x < (x \div p + 1) * p
OBVIOUS

LEMMA PowerSplit ==
  ASSUME NEW d \in 1..MaxDigits, NEW m \in 1..d
  PROVE  /\ Power(d - m) \in Nat \ {0} /\ Power(m) \in Nat \ {0} /\ Power(m - 1) \in Nat \ {0}
         /\ Power(d) = Power(m) * Power(d - m)
         /\ Power(d - 1) = Power(m - 1) * Power(d - m)
<1>1. m \in 0..MaxDigits /\ m - 1 \in 0..MaxDigits /\ d - m \in 0..MaxDigits /\ MaxDigits \in Nat
  BY PowerStep
<1>2. m + (d - m) = d /\ (m - 1) + (d - m) = d - 1
  BY <1>1
<1>3. Power(m + (d - m)) = Power(m) * Power(d - m)
  <2>1. m \in Nat /\ d - m \in Nat /\ m + (d - m) <= MaxDigits
    BY <1>1, <1>2
  <2> QED
    BY <2>1, PowerPlus
<1>4. Power((m - 1) + (d - m)) = Power(m - 1) * Power(d - m)
  <2>1. m - 1 \in Nat /\ d - m \in Nat /\ (m - 1) + (d - m) <= MaxDigits
    BY <1>1, <1>2
  <2> QED
    BY <2>1, PowerPlus
<1>5. \A k \in 0..MaxDigits : Power(k) \in Nat \ {0}
  BY PowerType
<1> QED
  BY <1>1, <1>2, <1>3, <1>4, <1>5

LEMMA LeadingWhole ==
  ASSUME NEW n \in Uint
  PROVE  Leading(n, NumDigits(n)) = n
<1> DEFINE k == NumDigits(n)
<1>1. k \in Int /\ k - k = 0
  BY NumDigitsRange
<1>2. Leading(n, k) = n \div 1
  <2>1. Leading(n, k) = n \div Power(k - k)
    BY DEF Leading
  <2> HIDE DEF k
  <2> QED
    BY <1>1, <2>1, PowerStep
<1>3. n \in Nat
  BY PowerStep DEF Uint
<1>4. \A x \in Nat : x \div 1 = x
  OBVIOUS
<1> QED
  BY <1>2, <1>3, <1>4

LEMMA LeadingPower ==
  ASSUME NEW d \in 1..MaxDigits, Power(d - 1) \in Uint, NEW m \in 1..d
  PROVE  Leading(Power(d - 1), m) = Power(m - 1)
<1>1. Leading(Power(d - 1), m) = Power(d - 1) \div Power(d - m)
  BY DigitsOfPower DEF Leading
<1>2. \A q, p \in Nat \ {0} : q * p \in Nat /\ q * p <= q * p /\ q * p < (q + 1) * p
  OBVIOUS
<1>3. \A q, p \in Nat \ {0} : (q * p) \div p = q
  BY <1>2, DivIs
<1> QED
  BY <1>1, <1>3, PowerSplit

LEMMA LeadingNines ==
  ASSUME NEW d \in 1..MaxDigits, Power(d) - 1 \in Uint, NEW m \in 1..d
  PROVE  Leading(Power(d) - 1, m) = Power(m) - 1
<1>1. Leading(Power(d) - 1, m) = (Power(d) - 1) \div Power(d - m)
  BY DigitsOfNines DEF Leading
<1>2. \A q, p \in Nat \ {0} :
        /\ q - 1 \in Nat /\ q * p - 1 \in Nat
        /\ (q - 1) * p <= q * p - 1 /\ q * p - 1 < ((q - 1) + 1) * p
  OBVIOUS
<1>3. \A q, p \in Nat \ {0} : (q * p - 1) \div p = q - 1
  BY <1>2, DivIs
<1> QED
  BY <1>1, <1>3, PowerSplit

LEMMA LeadingRange ==
  ASSUME NEW n \in Uint, NEW m \in 1..NumDigits(n)
  PROVE  /\ Leading(n, m) \in Nat /\ Leading(n, m) < Power(m)
         /\ n # 0 => Power(m - 1) <= Leading(n, m)
<1> DEFINE k == NumDigits(n)
           p == Power(k - m)
           q == n \div p
<1>1. k \in 1..MaxDigits /\ n < Power(k) /\ (n # 0 => Power(k - 1) <= n) /\ n \in Nat
  <2>1. n \in Nat /\ MaxDigits \in Nat
    BY PowerStep DEF Uint
  <2>2. k \in 1..MaxDigits /\ n < Power(k) /\ (k = 1 \/ Power(k - 1) <= n)
    BY DigitsAre
  <2>3. n # 0 => Power(k - 1) <= n
    <3>1. CASE k = 1
      <4>1. Power(k - 1) = 1
        BY <3>1, PowerStep
      <4> HIDE DEF k
      <4> QED
        BY <2>1, <4>1
    <3> QED
      BY <2>2, <3>1
  <2> QED
    BY <2>1, <2>2, <2>3
<1>2. Leading(n, m) = q
  BY DEF Leading
<1>3. /\ p \in Nat \ {0} /\ Power(m) \in Nat \ {0} /\ Power(m - 1) \in Nat \ {0}
      /\ Power(k) = Power(m) * p /\ Power(k - 1) = Power(m - 1) * p
  BY <1>1, PowerSplit
<1>4. q \in Nat /\ q * p <= n /\ n < (q + 1) * p
  BY <1>1, <1>3, DivIs
<1>5. \A a, b \in Nat : \A c \in Nat \ {0} : a * c < b * c => a < b
  <2> TAKE a, b \in Nat
  <2> TAKE c \in Nat \ {0}
  <2> SUFFICES ASSUME b <= a PROVE b * c <= a * c
    OBVIOUS
  <2> QED
    OBVIOUS
<1> HIDE DEF k, p, q
<1>6. q * p < Power(m) * p /\ (n # 0 => Power(m - 1) * p < (q + 1) * p)
  <2>1. q * p \in Nat /\ Power(m) * p \in Nat /\ Power(m - 1) * p \in Nat /\ (q + 1) * p \in Nat
    BY <1>3, <1>4
  <2> QED
    BY <1>1, <1>3, <1>4, <2>1
<1>7. q < Power(m) /\ (n # 0 => Power(m - 1) < q + 1)
  BY <1>3, <1>4, <1>5, <1>6
<1> QED
  BY <1>2, <1>3, <1>4, <1>7

----------------------------------------------------------------------------
(* The order of the keys, on the bounds that the passes use. *)

(* Numbers of one length are ordered as they should be. *)
LEMMA SameLengthLess ==
  ASSUME NEW shape, NEW h \in Uint, NEW b \in Uint, NumDigits(h) = NumDigits(b)
  PROVE  KeyLess(shape, h, b) <=> h < b
<1>1. Leading(h, NumDigits(h)) = h /\ Leading(b, NumDigits(b)) = b
  BY LeadingWhole
<1>2. h \in Int /\ b \in Int /\ NumDigits(h) \in Int
  BY PowerStep, NumDigitsRange DEF Uint
<1> QED
  BY <1>1, <1>2 DEF KeyLess

(* Only a shorter power, as a whole key, comes before the first key of the *)
(* pass for d digits.                                                      *)
LEMMA BeforeStart ==
  ASSUME NEW shape, NEW h \in Uint, h # 0, NEW d \in 1..MaxDigits, Power(d - 1) \in Uint
  PROVE  KeyLess(shape, h, RangeStart(d)) <=>
           shape = "number" /\ NumDigits(h) < d /\ h = Power(NumDigits(h) - 1)
<1> DEFINE k == NumDigits(h)
<1>1. k \in 1..MaxDigits /\ NumDigits(RangeStart(d)) = d /\ d \in Int /\ MaxDigits \in Nat
  BY NumDigitsRange, DigitsOfPower, PowerStep DEF RangeStart
<1>2. CASE k < d
  <2>1. k \in 1..d
    BY <1>1, <1>2
  <2>2. Leading(h, k) = h /\ Leading(RangeStart(d), k) = Power(k - 1)
    BY <2>1, LeadingWhole, LeadingPower DEF RangeStart
  <2>3. Leading(h, k) \in Nat /\ Power(k - 1) <= Leading(h, k) /\ Power(k - 1) \in Nat
    <3>1. k \in 1..k /\ k - 1 \in 0..MaxDigits
      BY <1>1
    <3> QED
      BY <3>1, LeadingRange, PowerType
  <2>4. KeyLess(shape, h, RangeStart(d)) <=>
          \/ Leading(h, k) < Leading(RangeStart(d), k)
          \/ Leading(h, k) = Leading(RangeStart(d), k) /\ shape = "number" /\ k < d
    BY <1>1, <1>2 DEF KeyLess
  <2> HIDE DEF k
  <2>5. ~(Leading(h, k) < Leading(RangeStart(d), k))
    BY <2>2, <2>3
  <2>6. KeyLess(shape, h, RangeStart(d)) <=> shape = "number" /\ k < d /\ h = Power(k - 1)
    BY <2>2, <2>4, <2>5
  <2> QED
    BY <2>6 DEF k
<1>3. CASE d <= k
  <2>1. d \in 1..k /\ d \in 1..d
    BY <1>1, <1>3
  <2>2. Leading(h, d) \in Nat /\ Power(d - 1) <= Leading(h, d)
    BY <2>1, LeadingRange
  <2>3. Leading(RangeStart(d), d) = Power(d - 1) /\ Power(d - 1) \in Nat
    <3>1. d - 1 \in 0..MaxDigits
      BY <1>1
    <3> QED
      BY <2>1, <3>1, LeadingPower, PowerType DEF RangeStart
  <2>4. KeyLess(shape, h, RangeStart(d)) <=> Leading(h, d) < Leading(RangeStart(d), d)
    <3>1. ~(k < d) /\ (IF k < d THEN k ELSE d) = d
      BY <1>1, <1>3
    <3> HIDE DEF k
    <3> QED
      BY <1>1, <3>1 DEF KeyLess, k
  <2>5. ~(k < d)
    BY <1>1, <1>3
  <2> HIDE DEF k
  <2>6. ~KeyLess(shape, h, RangeStart(d))
    BY <2>2, <2>3, <2>4
  <2> QED
    BY <2>5, <2>6 DEF k
<1> QED
  BY <1>1, <1>2, <1>3

(* Of the numbers of up to d digits, all but those of nines only come      *)
(* before the last key of the pass for d digits, and the shorter of nines  *)
(* only when they are whole keys.                                          *)
LEMMA BeforeNines ==
  ASSUME NEW shape, NEW h \in Uint, NEW d \in 1..MaxDigits, Power(d) - 1 \in Uint,
         NumDigits(h) <= d,
         h # Power(NumDigits(h)) - 1 \/ (shape = "number" /\ NumDigits(h) < d)
  PROVE  KeyLess(shape, h, Power(d) - 1)
<1> DEFINE k == NumDigits(h)
<1>1. k \in 1..d /\ NumDigits(Power(d) - 1) = d /\ d \in Int /\ k \in 1..k /\ MaxDigits \in Nat
  <2>1. k \in 1..MaxDigits /\ MaxDigits \in Nat
    BY NumDigitsRange, PowerStep
  <2> QED
    BY <2>1, DigitsOfNines
<1>2. Leading(h, k) = h /\ Leading(Power(d) - 1, k) = Power(k) - 1
  BY <1>1, LeadingWhole, LeadingNines
<1>3. h \in Nat /\ h < Power(k) /\ Power(k) \in Nat
  <2>1. k \in 0..MaxDigits
    BY <1>1
  <2> QED
    BY <1>2, <2>1, DigitsAre, PowerType, PowerStep DEF Uint
<1>4. (IF k < d THEN k ELSE d) = k
  BY <1>1
<1>5. KeyLess(shape, h, Power(d) - 1) <=>
        \/ Leading(h, k) < Leading(Power(d) - 1, k)
        \/ Leading(h, k) = Leading(Power(d) - 1, k) /\ shape = "number" /\ k < d
  BY <1>1, <1>4 DEF KeyLess
<1> HIDE DEF k
<1>6. h # Power(k) - 1 \/ (shape = "number" /\ k < d)
  BY DEF k
<1> QED
  BY <1>2, <1>3, <1>5, <1>6

(* A longer number comes before the nines when its first digits are not    *)
(* all nines.                                                              *)
LEMMA LongBeforeNines ==
  ASSUME NEW shape, NEW h \in Uint, NEW d \in 1..MaxDigits, Power(d) - 1 \in Uint,
         d < NumDigits(h), Leading(h, d) # Power(d) - 1
  PROVE  KeyLess(shape, h, Power(d) - 1)
<1> DEFINE k == NumDigits(h)
<1>1. d \in 1..k /\ NumDigits(Power(d) - 1) = d /\ d \in Int /\ k \in Int /\ d \in 1..d
  BY NumDigitsRange, PowerStep, DigitsOfNines
<1>2. Leading(Power(d) - 1, d) = Power(d) - 1
  BY <1>1, LeadingNines
<1>3. Leading(h, d) \in Nat /\ Leading(h, d) < Power(d) /\ Power(d) \in Nat
  <2>1. d \in 0..MaxDigits
    OBVIOUS
  <2> QED
    BY <1>1, <2>1, LeadingRange, PowerType
<1>4. (IF k < d THEN k ELSE d) = d
  BY <1>1
<1>5. Leading(h, d) < Leading(Power(d) - 1, d) => KeyLess(shape, h, Power(d) - 1)
  BY <1>1, <1>4 DEF KeyLess
<1> QED
  BY <1>2, <1>3, <1>5

(* Where the float64 arithmetic is exact, the pass for d digits ends at    *)
(* the nines, or at the end height when that has d digits.                 *)
LEMMA ExactEnd ==
  ASSUME NEW end \in Uint, end + RoundSpan < Word, NumDigits(end) <= InexactDigits,
         NEW d \in 1..NumDigits(end), NEW r \in RangeEnds(end, d)
  PROVE  /\ d = NumDigits(end) => r = end
         /\ d # NumDigits(end) => r = Power(d) - 1 /\ r < end /\ r \in Uint
<1> DEFINE k == NumDigits(end)
           nines == IF d < InexactDigits THEN Power(d) - 1 ELSE Power(d)
<1>1. /\ k \in 1..MaxDigits /\ k <= InexactDigits /\ MaxDigits \in Nat /\ InexactDigits \in Nat
      /\ RoundSpan \in Nat /\ Word \in Nat /\ end \in Nat
  BY NumDigitsRange, PowerStep, RangeAssumption DEF Uint, RangeAssumption
<1>2. RangeEnds(end, d) = IF nines < end THEN {nines} ELSE {end}
  BY <1>1 DEF RangeEnds
<1>3. Power(d) \in Nat /\ d \in 0..MaxDigits /\ d \in Int
  BY <1>1, PowerType
<1>4. CASE d = k
  <2>1. end < Power(d)
    BY <1>4, DigitsAre
  <2>2. ~(nines < end)
    BY <1>1, <1>3, <2>1
  <2> QED
    BY <1>2, <1>4, <2>2
<1>5. CASE d # k
  <2>1. d < k /\ k - 1 \in 0..MaxDigits /\ (d = k - 1 \/ d < k - 1) /\ k # 1
    BY <1>1, <1>3, <1>5
  <2>2. Power(k - 1) <= end /\ Power(k - 1) \in Nat
    BY <2>1, DigitsAre, PowerType
  <2>3. Power(d) <= Power(k - 1)
    BY <1>3, <2>1, <2>2, PowerMonotone
  <2>4. nines = Power(d) - 1 /\ Power(d) >= 1
    BY <1>1, <1>3, <2>1, PowerType
  <2> HIDE DEF nines, k
  <2>5. nines < end /\ nines \in Nat
    BY <1>1, <1>3, <2>2, <2>3, <2>4
  <2>6. r = Power(d) - 1 /\ r < end /\ r \in Uint
    BY <1>1, <1>2, <2>4, <2>5, PowerStep DEF Uint
  <2> QED
    BY <1>5, <2>6 DEF k
<1> QED
  BY <1>4, <1>5

LEMMA DigitsMonotone ==
  ASSUME NEW a \in Uint, NEW b \in Uint, a <= b
  PROVE  NumDigits(a) <= NumDigits(b)
<1> DEFINE i == NumDigits(a)
           j == NumDigits(b)
<1>1. /\ i \in 1..MaxDigits /\ j \in 1..MaxDigits /\ MaxDigits \in Nat
      /\ (i = 1 \/ Power(i - 1) <= a) /\ b < Power(j) /\ a \in Nat /\ b \in Nat
  BY DigitsAre, PowerStep DEF Uint
<1> HIDE DEF i, j
<1>2. ASSUME j < i PROVE FALSE
  <2>1. i - 1 \in 0..MaxDigits /\ j \in 0..MaxDigits /\ (j = i - 1 \/ j < i - 1) /\ i # 1
    BY <1>1, <1>2
  <2>2. Power(j) <= Power(i - 1) /\ Power(j) \in Nat /\ Power(i - 1) \in Nat
    BY <2>1, PowerMonotone, PowerType
  <2> QED
    BY <1>1, <2>1, <2>2
<1>3. i <= j
  BY <1>1, <1>2
<1> QED
  BY <1>3 DEF i, j

----------------------------------------------------------------------------
(* What the passes delete, where the float64 arithmetic is exact. *)

(* The first pass deletes everything of its length below its last key. *)
LEMMA FirstPass ==
  ASSUME NEW shape, NEW stored, NEW end \in Uint, NEW r \in Uint, r < Power(NumDigits(end)),
         NEW h \in stored, h \in Uint, h < r, h <= end, Power(NumDigits(end) - 1) <= h
  PROVE  h \in PassDeletes(shape, stored, end, NumDigits(end), r)
<1> DEFINE k == NumDigits(end)
<1>1. /\ k \in 1..MaxDigits /\ k - 1 \in 0..MaxDigits /\ MaxDigits \in Nat
      /\ h \in Nat /\ r \in Nat /\ Word \in Nat /\ r < Word /\ r < Power(k)
  BY DigitsAre, PowerStep DEF Uint
<1>2. Power(k) \in Nat /\ Power(k - 1) \in Nat /\ Power(k - 1) <= h
  <2>1. k \in 0..MaxDigits
    BY <1>1
  <2> QED
    BY <1>1, <2>1, PowerType
<1> HIDE DEF k
<1>3. h < Power(k) /\ Power(k - 1) \in Uint /\ Power(k - 1) <= r
  BY <1>1, <1>2 DEF Uint
<1>4. NumDigits(h) = k /\ NumDigits(r) = k
  BY <1>1, <1>2, <1>3, DigitsUnique
<1>5. NumDigits(RangeStart(k)) = k /\ RangeStart(k) = Power(k - 1)
  BY <1>1, <1>3, DigitsOfPower DEF RangeStart
<1>6. ~KeyLess(shape, h, RangeStart(k))
  BY <1>1, <1>2, <1>3, <1>4, <1>5, SameLengthLess
<1>7. KeyLess(shape, h, r)
  BY <1>4, SameLengthLess
<1>8. h \in PassDeletes(shape, stored, end, k, r)
  BY <1>3, <1>5, <1>6, <1>7 DEF PassDeletes, InIterator
<1> QED
  BY <1>8 DEF k

(* Whatever the rounding does to the last key, an end next to 2^64         *)
(* included: of the heights in the lower half of the uint64 values it is   *)
(* the end itself, or the nines of its length, that the first pass leaves. *)
LEMMA RoundedFirstPass ==
  ASSUME NEW shape, NEW stored, NEW end \in Uint, NEW r \in RangeEnds(end, NumDigits(end)),
         NEW h \in stored, h \in Uint, h < Word \div 2, h <= end, Power(NumDigits(end) - 1) <= h,
         h \notin {end, Power(NumDigits(end)) - 1}
  PROVE  h \in PassDeletes(shape, stored, end, NumDigits(end), r)
<1> DEFINE k == NumDigits(end)
           nines == IF k < InexactDigits THEN Power(k) - 1 ELSE Power(k)
<1>1. /\ k \in 1..MaxDigits /\ end < Power(k) /\ MaxDigits \in Nat /\ InexactDigits \in Nat
      /\ RoundSpan \in Nat /\ Word \in Nat /\ Word >= 2 /\ end \in Nat /\ end < Word /\ h \in Nat
  BY DigitsAre, PowerStep, RangeAssumption DEF Uint, RangeAssumption
<1>2. Power(k) \in Nat /\ k \in 0..MaxDigits
  BY <1>1, PowerType
<1>3. k >= InexactDigits => Power(k) + RoundSpan <= Word \/ Word <= Power(k)
  BY <1>1, PowerAssumption DEF PowerAssumption
<1>4. r \in IF end + RoundSpan >= Word
               THEN IF nines < Word THEN {nines} ELSE {Word \div 2, Word - 1}
               ELSE IF nines < end THEN {nines} ELSE {end}
  BY DEF RangeEnds
<1>5. h # end /\ h # Power(k) - 1
  OBVIOUS
<1>6. nines = IF k < InexactDigits THEN Power(k) - 1 ELSE Power(k)
  OBVIOUS
<1> HIDE DEF k, nines
<1>7. r \in Uint /\ r < Power(k) /\ h < r
  <2>1. CASE end + RoundSpan < Word
    BY <1>1, <1>2, <1>4, <1>5, <1>6, <2>1 DEF Uint
  <2>2. CASE end + RoundSpan >= Word /\ nines < Word
    BY <1>1, <1>2, <1>3, <1>4, <1>5, <1>6, <2>2 DEF Uint
  <2>3. CASE end + RoundSpan >= Word /\ ~(nines < Word)
    BY <1>1, <1>2, <1>4, <1>6, <2>3 DEF Uint
  <2> QED
    BY <1>1, <2>1, <2>2, <2>3
<1> QED
  BY <1>7, FirstPass DEF k

(* A later pass, for d digits, deletes everything of up to d digits, save  *)
(* the nines that are not a prefix of its last key and the shorter powers  *)
(* that are whole keys; and what is longer, when its first digits are not  *)
(* all nines.                                                              *)
LEMMA LaterPass ==
  ASSUME NEW shape, NEW stored, NEW end \in Uint, NEW d \in 1..MaxDigits,
         Power(d) - 1 \in Uint,
         NEW h \in stored, h \in Uint, h <= end, h # 0,
         IF NumDigits(h) <= d
           THEN /\ h # Power(NumDigits(h)) - 1 \/ (shape = "number" /\ NumDigits(h) < d)
                /\ ~(shape = "number" /\ NumDigits(h) < d /\ h = Power(NumDigits(h) - 1))
           ELSE Leading(h, d) # Power(d) - 1
  PROVE  h \in PassDeletes(shape, stored, end, d, Power(d) - 1)
<1>1. NumDigits(h) \in Int /\ d \in Int
  BY NumDigitsRange
<1>2. Power(d - 1) <= Power(d) - 1 /\ Power(d - 1) \in Uint
  <2>1. d - 1 \in 0..MaxDigits /\ d \in 0..MaxDigits /\ d - 1 < d
    BY PowerStep
  <2>2. Power(d - 1) < Power(d) /\ Power(d - 1) \in Nat /\ Power(d) \in Nat
    BY <2>1, PowerMonotone, PowerType
  <2> QED
    BY <2>2, PowerStep DEF Uint
<1>3. ~KeyLess(shape, h, RangeStart(d))
  BY <1>1, <1>2, BeforeStart
<1>4. KeyLess(shape, h, Power(d) - 1)
  <2>1. CASE NumDigits(h) <= d
    BY <2>1, BeforeNines
  <2>2. CASE d < NumDigits(h)
    BY <1>1, <2>2, LongBeforeNines
  <2> QED
    BY <1>1, <2>1, <2>2
<1> QED
  BY <1>2, <1>3, <1>4 DEF PassDeletes, InIterator, RangeStart

(* A shorter power, as a whole key, is before the first key of a pass. *)
LEMMA PassKeepsPowers ==
  ASSUME NEW stored, NEW end \in Uint, NEW r, NEW d \in 1..NumDigits(end), NEW m \in 1..(d - 1)
  PROVE  Power(m - 1) \notin PassDeletes("number", stored, end, d, r)
<1> DEFINE k == NumDigits(end)
<1>1. k \in 1..MaxDigits /\ (k = 1 \/ Power(k - 1) <= end) /\ end \in Nat /\ end < Word /\ Word \in Nat
      /\ MaxDigits \in Nat
  BY DigitsAre, PowerStep DEF Uint
<1> HIDE DEF k
<1>2. d \in 1..k
  BY DEF k
<1>3. /\ d \in 1..MaxDigits /\ m \in 1..MaxDigits /\ d - 1 \in 0..MaxDigits /\ m - 1 \in 0..MaxDigits
      /\ k - 1 \in 0..MaxDigits /\ k # 1 /\ m < d /\ m - 1 < d - 1
      /\ (d - 1 = k - 1 \/ d - 1 < k - 1)
  BY <1>1, <1>2
<1>4. Power(m - 1) < Power(d - 1) /\ Power(d - 1) <= Power(k - 1)
      /\ Power(m - 1) \in Nat /\ Power(m - 1) >= 1 /\ Power(d - 1) \in Nat /\ Power(k - 1) \in Nat
  BY <1>3, PowerMonotone, PowerType
<1>5. Power(m - 1) \in Uint /\ Power(d - 1) \in Uint /\ Power(m - 1) # 0
  BY <1>1, <1>3, <1>4 DEF Uint
<1>6. NumDigits(Power(m - 1)) = m
  BY <1>3, <1>5, DigitsOfPower
<1>7. KeyLess("number", Power(m - 1), RangeStart(d))
  BY <1>3, <1>5, <1>6, BeforeStart
<1> QED
  BY <1>7 DEF PassDeletes, InIterator

(* A pass deletes only heights that are stored and not above the end.      *)
LEMMA PassDeletesUpToEnd ==
  ASSUME NEW shape, NEW stored, NEW end, NEW d, NEW rangeEnd
  PROVE  PassDeletes(shape, stored, end, d, rangeEnd) \subseteq {h \in stored : h <= end}
BY DEF PassDeletes

=============================================================================

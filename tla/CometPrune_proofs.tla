-------------------------- MODULE CometPrune_proofs --------------------------
(***************************************************************************)
(* Proofs about CometPrune, for every base, width, node and value of       *)
(* --keep-blocks: the types, that nothing above the pruned heights is ever *)
(* lost, and, where the chain is longer than what is to be kept, that the  *)
(* latest version can be loaded and that the base written is honest.       *)
(***************************************************************************)
EXTENDS CometPrune, HeightRange_proofs

(* uint64 subtraction stays in its type, and is exact when it can be. *)
LEMMA MinusUint ==
  ASSUME NEW a \in Uint, NEW b \in Uint
  PROVE  /\ Minus(a, b) \in Uint
         /\ b <= a => Minus(a, b) = a - b
BY RangeAssumption DEF RangeAssumption, Uint, Minus

(* The end heights of all three goroutines are uint64 values. *)
LEMMA EndUint ==
  ASSUME NEW t \in Uint, NEW g \in Jobs
  PROVE  EndFor(g, t) \in Uint
<1>1. 1 \in Uint
  BY RangeAssumption DEF RangeAssumption, Uint
<1> QED
  BY <1>1, MinusUint DEF EndFor

(* Every goroutine has a key info to begin with, and works on a key of its *)
(* own database only.                                                      *)
LEMMA KeyInfosOfJobs ==
  ASSUME NEW g \in Jobs
  PROVE  /\ 1 <= Len(KeyInfos(g)) /\ Len(KeyInfos(g)) <= 5
         /\ Len(KeyInfos(g)) \in Int
         /\ \A i \in 1..Len(KeyInfos(g)) : KeyInfos(g)[i] \in RangeKeys(g)
         /\ RangeKeys(g) \subseteq Prefixes
         /\ "BH:" \notin RangeKeys(g)
<1>1. CASE g = "block"
  BY <1>1 DEF KeyInfos, blockKeyInfos, RangeKeys, BlockKeys, Prefixes
<1>2. CASE g = "state"
  BY <1>2 DEF KeyInfos, stateKeyInfos, RangeKeys, StateKeys, Prefixes
<1>3. CASE g = "application"
  BY <1>3 DEF KeyInfos, appKeyInfos, RangeKeys, Prefixes
<1> QED
  BY <1>1, <1>2, <1>3 DEF Jobs

LEMMA OneOwner ==
  ASSUME NEW g \in Jobs, NEW f \in Jobs, NEW p \in RangeKeys(g), p \in RangeKeys(f)
  PROVE  f = g
BY DEF Jobs, RangeKeys, BlockKeys, StateKeys

----------------------------------------------------------------------------
(* Types. *)

LEMMA InitType == Init => TypeOK
<1> SUFFICES ASSUME Init PROVE TypeOK
  OBVIOUS
<1>1. PICK s \in Starts :
        /\ first = s.first /\ height = s.height /\ last = s.last /\ latest = s.latest
        /\ bsj = [base |-> s.first, height |-> s.height]
  BY DEF Init
<1>2. s \in StartRecords /\ s.height <= MaxHeight
  BY CometAssumption DEF CometAssumption
<1>3. first \in Uint /\ height \in Uint /\ last \in Uint /\ latest \in Uint /\ height <= MaxHeight
  BY <1>1, <1>2 DEF StartRecords
<1>4. bsj \in Records /\ copy \in Records
  BY <1>1, <1>2 DEF Init, StartRecords, Records, NoRecord, Uint
<1>5. keys \in [Prefixes -> SUBSET Int]
  <2>1. keys = [p \in Prefixes |-> (IF p = "C:" THEN first - 1 ELSE first)..Newest(p)]
    BY DEF Init
  <2>2. \A a, b : (a..b) \subseteq Int
    OBVIOUS
  <2> QED
    BY <2>1, <2>2
<1>6. target \in Uint /\ high \in [Jobs -> Uint]
  BY RangeAssumption DEF Init, RangeAssumption, Uint
<1>7. status \in [Jobs -> Statuses] /\ at \in [Jobs -> 1..5] /\ digits \in [Jobs -> 1..MaxDigits]
  BY RangeAssumption DEF Init, RangeAssumption, Statuses
<1>8. \A g \in Jobs : at[g] <= Len(KeyInfos(g))
  <2>1. at = [g \in Jobs |-> 1]
    BY DEF Init
  <2>2. \A g \in Jobs : 1 <= Len(KeyInfos(g))
    BY KeyInfosOfJobs
  <2> QED
    BY <2>1, <2>2
<1>9. runs \in 0..MaxRuns /\ pc \in {"idle", "prune"} /\ misread \in BOOLEAN
        /\ result \in {"none", "ok", "error", "crashed"}
  <2>1. runs = 0 /\ pc = "idle" /\ misread = FALSE /\ result = "none"
    BY DEF Init
  <2>2. MaxRuns \in Nat
    BY CometAssumption DEF CometAssumption
  <2>3. runs \in 0..MaxRuns
    BY <2>1, <2>2
  <2>4. misread \in BOOLEAN
    BY <2>1
  <2> QED
    BY <2>1, <2>3, <2>4
<1> QED
  BY <1>3, <1>4, <1>5, <1>6, <1>7, <1>8, <1>9 DEF TypeOK

(* Where Scan leaves the loop variables. *)
LEMMA ScanLoop ==
  ASSUME TypeOK, NEW g \in Jobs, Scan(g)
  PROVE  /\ status' \in [Jobs -> Statuses]
         /\ at' \in [Jobs -> 1..5]
         /\ \A f \in Jobs : at'[f] <= Len(KeyInfos(f))
         /\ digits' \in [Jobs -> 1..MaxDigits]
<1>1. NumDigits(EndOf(g)) \in 1..MaxDigits
  BY EndUint, NumDigitsRange DEF EndOf, TypeOK
<1>2. \A f \in Jobs : /\ 1 <= Len(KeyInfos(f)) /\ Len(KeyInfos(f)) <= 5
                      /\ Len(KeyInfos(f)) \in Int
  BY KeyInfosOfJobs
<1>3. CASE digits[g] > 1 /\ digits' = [digits EXCEPT ![g] = @ - 1] /\ UNCHANGED <<at, status>>
  BY <1>3, RangeAssumption DEF TypeOK, RangeAssumption
<1>4. CASE NextKey(g)
  <2>1. at[g] \in 1..5 /\ at[g] < Len(KeyInfos(g)) /\ Len(KeyInfos(g)) <= 5
    <3>1. at[g] \in 1..5
      BY DEF TypeOK
    <3>2. at[g] < Len(KeyInfos(g))
      BY <1>4 DEF NextKey
    <3>3. Len(KeyInfos(g)) <= 5
      BY <1>2
    <3> QED
      BY <3>1, <3>2, <3>3
  <2>2. at' = [at EXCEPT ![g] = @ + 1] /\ status' = status
    BY <1>4 DEF NextKey
  <2>3. at' \in [Jobs -> 1..5]
    <3>1. at[g] + 1 \in 1..5
      BY <2>1, <1>2
    <3> QED
      BY <2>2, <3>1 DEF TypeOK
  <2>4. ASSUME NEW f \in Jobs PROVE at'[f] <= Len(KeyInfos(f))
    <3>1. CASE f = g
      BY <2>1, <2>2, <1>2, <3>1 DEF TypeOK
    <3>2. CASE f # g
      BY <2>2, <3>2 DEF TypeOK
    <3> QED
      BY <3>1, <3>2
  <2>5. digits' \in [Jobs -> 1..MaxDigits]
    BY <1>1, <1>4 DEF TypeOK, NextKey
  <2> QED
    BY <2>2, <2>3, <2>4, <2>5 DEF TypeOK
<1>5. CASE KeysDone(g)
  BY <1>5 DEF TypeOK, KeysDone, Statuses
<1> QED
  BY <1>3, <1>4, <1>5 DEF Scan, GoesOn

LEMMA NextType == TypeOK /\ [Next]_vars => TypeOK'
<1> SUFFICES ASSUME TypeOK, [Next]_vars PROVE TypeOK'
  OBVIOUS
<1> USE DEF TypeOK, dbVars, nodeVars, jobVars
<1>0. /\ Word \in Nat /\ MaxHeight \in Uint /\ MaxHeight + 1 < Word /\ MaxRuns \in Nat
      /\ Keeps \subseteq Uint /\ MaxDigits \in Nat /\ 1 \in 1..MaxDigits
  BY RangeAssumption, CometAssumption DEF RangeAssumption, CometAssumption, Uint
<1>1. CASE NodeSavesBlock
  <2>1. height' \in Uint /\ height' <= MaxHeight
    BY <1>0, <1>1 DEF NodeSavesBlock, Uint
  <2>2. keys' \in [Prefixes -> SUBSET Int]
    <3>1. height \in Int /\ height + 1 \in Int
      BY DEF Uint
    <3>2. ASSUME NEW p \in Prefixes, NEW h \in Int, NEW ps
          PROVE  keys[p] \cup {h} \in SUBSET Int /\ With(ps, h)[p] \in SUBSET Int
      BY <3>2 DEF With
    <3>3. keys' = [p \in Prefixes |->
                     IF p = "C:" THEN keys[p] \cup {height}
                     ELSE With({"H:", "EC:", "SC:", "P:", "BH:"}, height + 1)[p]]
      BY <1>1 DEF NodeSavesBlock
    <3> HIDE DEF TypeOK
    <3> QED
      BY <3>1, <3>2, <3>3
  <2>3. bsj' \in Records
    <3>1. bsj' = [bsj EXCEPT !.height = height + 1]
      BY <1>1 DEF NodeSavesBlock
    <3>2. bsj \in Records /\ height + 1 \in Int
      BY DEF Uint
    <3> HIDE DEF TypeOK
    <3> QED
      BY <3>1, <3>2 DEF Records
  <2> QED
    BY <1>1, <2>1, <2>2, <2>3 DEF NodeSavesBlock
<1>2. CASE NodeCommitsApplication
  <2>1. latest' \in Uint
    BY <1>0, <1>2 DEF NodeCommitsApplication, Uint
  <2>2. keys' \in [Prefixes -> SUBSET Int]
    BY <1>2 DEF NodeCommitsApplication, With, Uint
  <2> QED
    BY <1>2, <2>1, <2>2 DEF NodeCommitsApplication
<1>3. CASE NodeSavesState
  <2>1. last' \in Uint
    BY <1>0, <1>3 DEF NodeSavesState, Uint
  <2>2. keys' \in [Prefixes -> SUBSET Int]
    BY <1>3 DEF NodeSavesState, With, Uint
  <2> QED
    BY <1>3, <2>1, <2>2 DEF NodeSavesState
<1>4. ASSUME NEW k \in Keeps, Start(k) PROVE TypeOK'
  <2>1. target' \in Uint
    BY <1>0, <1>4, MinusUint DEF Start
  <2>2. \A g \in Jobs : EndFor(g, target') \in Uint
    BY <2>1, EndUint
  <2>3. digits' \in [Jobs -> 1..MaxDigits]
    BY <1>4, <2>2, NumDigitsRange DEF Start
  <2>4. high' \in [Jobs -> Uint]
    BY <1>4, <2>2 DEF Start, Larger
  <2>5. status' \in [Jobs -> Statuses] /\ at' \in [Jobs -> 1..5]
    BY <1>4 DEF Start, Statuses
  <2>6. \A g \in Jobs : at'[g] <= Len(KeyInfos(g))
    <3>1. at' = [g \in Jobs |-> 1]
      BY <1>4 DEF Start
    <3>2. \A g \in Jobs : 1 <= Len(KeyInfos(g))
      BY KeyInfosOfJobs
    <3>3. \A g \in Jobs : at'[g] = 1
      BY <3>1, Zenon
    <3> QED
      BY <3>2, <3>3
  <2>7. runs' \in 0..MaxRuns
    BY <1>0, <1>4 DEF Start
  <2> QED
    BY <1>4, <2>1, <2>3, <2>4, <2>5, <2>6, <2>7 DEF Start
<1>5. CASE ReadRecord
  <2>1. copy' \in Records
    BY <1>5 DEF ReadRecord, Records, NoRecord
  <2>2. misread' \in BOOLEAN
    BY <1>5 DEF ReadRecord
  <2>3. status' \in [Jobs -> Statuses]
    BY <1>5 DEF ReadRecord, Statuses
  <2> QED
    BY <1>5, <2>1, <2>2, <2>3 DEF ReadRecord
<1>6. ASSUME NEW g \in Jobs, Scan(g) PROVE TypeOK'
  <2>1. keys' \in [Prefixes -> SUBSET Int]
    BY <1>6 DEF Scan
  <2> QED
    BY <1>6, <2>1, ScanLoop DEF Scan
<1>7. ASSUME NEW g \in Jobs, ScanFails(g) PROVE TypeOK'
  <2>1. keys' \in [Prefixes -> SUBSET Int]
    BY <1>7 DEF ScanFails
  <2> QED
    BY <1>7, <2>1 DEF ScanFails, Statuses
<1>8. CASE DeleteHashes
  BY <1>8 DEF DeleteHashes, Statuses
<1>9. CASE WriteRecord
  <2>1. NewBase(target) \in Int
    BY RangeAssumption DEF RangeAssumption, NewBase, Uint
  <2>2. bsj' \in Records
    BY <1>9, <2>1 DEF WriteRecord, Records
  <2> QED
    BY <1>9, <2>2 DEF WriteRecord, Statuses
<1>10. CASE Wait \/ Crash
  <2>1. \A g \in Jobs : 1 <= Len(KeyInfos(g))
    BY KeyInfosOfJobs
  <2> QED
    BY <1>0, <1>10, <2>1 DEF Wait, Crash, Forget, Records, NoRecord, Statuses
<1>11. CASE UNCHANGED vars
  BY <1>11 DEF vars
<1> QED
  BY <1>1, <1>2, <1>3, <1>4, <1>5, <1>6, <1>7, <1>8, <1>9, <1>10, <1>11
     DEF Next, NodeStep, JobStep

(* Type correctness of the whole prune, for every instance. *)
THEOREM CometTypes == Spec => []TypeOK
  BY InitType, NextType, PTL DEF Spec

----------------------------------------------------------------------------
(* Nothing above the pruned heights is lost.  The invariant is inductive   *)
(* once it says that a running goroutine was told no height that high does *)
(* not remember.                                                           *)

Remembered == pc = "prune" => \A g \in Jobs : EndOf(g) <= high[g]

WInv == TypeOK /\ Remembered /\ WindowIntact

LEMMA InitWindow == Init => WInv
<1> SUFFICES ASSUME Init PROVE WInv
  OBVIOUS
<1>1. TypeOK
  BY InitType
<1>2. Remembered
  BY DEF Init, Remembered
<1>3. ASSUME NEW g \in Jobs, NEW p \in RangeKeys(g) PROVE Window(g, p) \subseteq keys[p]
  <2>1. p \in Prefixes
    BY KeyInfosOfJobs
  <2>2. keys[p] = (IF p = "C:" THEN first - 1 ELSE first)..Newest(p)
    BY <2>1 DEF Init
  <2>3. high[g] = 0
    BY DEF Init
  <2>4. first \in Int
    BY <1>1 DEF TypeOK, Uint
  <2>5. CASE p = "C:"
    BY <2>2, <2>3, <2>4, <2>5 DEF Window, Larger
  <2>6. CASE p # "C:"
    BY <2>2, <2>3, <2>4, <2>6 DEF Window, Larger
  <2> QED
    BY <2>5, <2>6
<1> QED
  BY <1>1, <1>2, <1>3 DEF WInv, WindowIntact

(* The node adds the height that its window grows by. *)
LEMMA NodeWindow ==
  ASSUME WInv, NodeStep
  PROVE  WindowIntact'
<1> SUFFICES ASSUME NEW g \in Jobs, NEW p \in RangeKeys(g), NEW h \in Window(g, p)'
             PROVE  h \in keys'[p]
  BY DEF WindowIntact
<1>1. p \in Prefixes
  BY KeyInfosOfJobs
<1>2. first \in Int /\ high[g] \in Int /\ height \in Int /\ last \in Int /\ latest \in Int
  BY DEF WInv, TypeOK, Uint
<1>3. first' = first /\ high' = high
  BY DEF NodeStep, NodeSavesBlock, NodeCommitsApplication, NodeSavesState
<1>4. Window(g, p) \subseteq keys[p]
  BY DEF WInv, WindowIntact
<1>5. p # "BH:" /\ p \in BlockKeys \cup StateKeys \cup {"s/"}
  BY DEF Jobs, RangeKeys, BlockKeys, StateKeys
<1>6. CASE NodeSavesBlock
  <2>1. height' = height + 1 /\ last' = last /\ latest' = latest
    BY <1>6 DEF NodeSavesBlock
  <2>2. keys'[p] = IF p = "C:" THEN keys[p] \cup {height}
                   ELSE With({"H:", "EC:", "SC:", "P:", "BH:"}, height + 1)[p]
    BY <1>1, <1>6 DEF NodeSavesBlock
  <2>3. keys[p] \subseteq keys'[p]
    BY <1>1, <2>2 DEF With
  <2>4. Newest(p)' = Newest(p) \/ (Newest(p)' = Newest(p) + 1 /\ Newest(p)' \in keys'[p])
    BY <1>1, <1>2, <1>5, <2>1, <2>2 DEF Newest, With, BlockKeys, StateKeys
  <2>5. Newest(p) \in Int
    BY <1>2, <1>5 DEF Newest, BlockKeys, StateKeys
  <2> QED
    BY <1>2, <1>3, <1>4, <2>3, <2>4, <2>5 DEF Window, Larger
<1>7. CASE NodeCommitsApplication
  <2>1. height' = height /\ last' = last /\ latest' = latest + 1
    BY <1>7 DEF NodeCommitsApplication
  <2>2. keys'[p] = With({"abciResponsesKey:", "s/"}, latest + 1)[p]
    BY <1>1, <1>7 DEF NodeCommitsApplication
  <2>3. keys[p] \subseteq keys'[p]
    BY <1>1, <2>2 DEF With
  <2>4. Newest(p)' = Newest(p) \/ (Newest(p)' = Newest(p) + 1 /\ Newest(p)' \in keys'[p])
    BY <1>1, <1>2, <1>5, <2>1, <2>2 DEF Newest, With, BlockKeys, StateKeys
  <2>5. Newest(p) \in Int
    BY <1>2, <1>5 DEF Newest, BlockKeys, StateKeys
  <2> QED
    BY <1>2, <1>3, <1>4, <2>3, <2>4, <2>5 DEF Window, Larger
<1>8. CASE NodeSavesState
  <2>1. height' = height /\ last' = last + 1 /\ latest' = latest
    BY <1>8 DEF NodeSavesState
  <2>2. keys'[p] = With({"consensusParamsKey:"}, last + 2)[p]
    BY <1>1, <1>8 DEF NodeSavesState
  <2>3. keys[p] \subseteq keys'[p]
    BY <1>1, <2>2 DEF With
  <2>4. Newest(p)' = Newest(p) \/ (Newest(p)' = Newest(p) + 1 /\ Newest(p)' \in keys'[p])
    BY <1>1, <1>2, <1>5, <2>1, <2>2 DEF Newest, With, BlockKeys, StateKeys
  <2>5. Newest(p) \in Int
    BY <1>2, <1>5 DEF Newest, BlockKeys, StateKeys
  <2> QED
    BY <1>2, <1>3, <1>4, <2>3, <2>4, <2>5 DEF Window, Larger
<1> QED
  BY <1>6, <1>7, <1>8 DEF NodeStep

(* A new run can only narrow the window. *)
LEMMA StartWindow ==
  ASSUME WInv, NEW k \in Keeps, Start(k)
  PROVE  Remembered' /\ WindowIntact'
<1>1. \A g \in Jobs : EndFor(g, target') \in Int
  <2>1. target' \in Uint
    BY MinusUint, CometAssumption DEF CometAssumption, WInv, TypeOK, Start
  <2> QED
    BY <2>1, EndUint DEF Uint
<1>2. \A g \in Jobs : high[g] \in Int
  BY DEF WInv, TypeOK, Uint
<1>3. \A g \in Jobs : high'[g] = Larger(high[g], EndFor(g, target'))
  BY DEF Start
<1>4. \A g \in Jobs : high[g] <= high'[g] /\ EndFor(g, target') <= high'[g] /\ high'[g] \in Int
  BY <1>1, <1>2, <1>3 DEF Larger
<1>5. Remembered'
  BY <1>4 DEF Remembered, EndOf
<1>6. first' = first /\ keys' = keys /\ height' = height /\ last' = last /\ latest' = latest
  BY DEF Start, dbVars
<1>7. first \in Int
  BY DEF WInv, TypeOK, Uint
<1>8. ASSUME NEW g \in Jobs, NEW p \in RangeKeys(g) PROVE Window(g, p)' \subseteq keys'[p]
  <2>1. Newest(p)' = Newest(p)
    BY <1>6 DEF Newest
  <2>2. Window(g, p) \subseteq keys[p]
    BY DEF WInv, WindowIntact
  <2> QED
    BY <1>2, <1>4, <1>6, <1>7, <2>1, <2>2 DEF Window, Larger
<1> QED
  BY <1>5, <1>8 DEF WindowIntact

(* A pass, complete or failed, deletes from its own prefix and nothing     *)
(* above the end of its goroutine.                                         *)
LEMMA PassWindow ==
  ASSUME WInv, NEW g \in Jobs, Scan(g) \/ ScanFails(g)
  PROVE  Remembered' /\ WindowIntact'
<1> DEFINE q == KeyInfos(g)[at[g]]
<1>1. q \in RangeKeys(g)
  <2>1. at[g] \in 1..Len(KeyInfos(g))
    <3>1. at[g] \in 1..5 /\ at[g] <= Len(KeyInfos(g))
      BY DEF WInv, TypeOK
    <3>2. Len(KeyInfos(g)) \in Int
      BY KeyInfosOfJobs
    <3> QED
      BY <3>1, <3>2
  <2> QED
    BY <2>1, KeyInfosOfJobs
<1>2. pc = "prune" /\ EndOf(g) <= high[g]
  BY DEF WInv, Remembered, Scan, ScanFails
<1>3. \E deleted \in SUBSET {h \in keys[q] : h <= EndOf(g)} :
        keys' = [keys EXCEPT ![q] = @ \ deleted]
  <2>1. CASE Scan(g)
    <3>1. PICK r \in RangeEnds(EndOf(g), digits[g]) :
            keys' = [keys EXCEPT ![q] =
                       @ \ PassDeletes(ShapeOf(q), keys[q], EndOf(g), digits[g], r)]
      BY <2>1 DEF Scan
    <3> QED
      BY <3>1, PassDeletesUpToEnd
  <2>2. CASE ScanFails(g)
    <3>1. PICK r \in RangeEnds(EndOf(g), digits[g]) :
            \/ keys' = keys
            \/ keys' = [keys EXCEPT ![q] =
                       @ \ PassDeletes(ShapeOf(q), keys[q], EndOf(g), digits[g], r)]
      BY <2>2 DEF ScanFails
    <3>2. CASE keys' = keys
      <4>1. keys' = [keys EXCEPT ![q] = @ \ {}]
        BY <3>2 DEF WInv, TypeOK
      <4> QED
        BY <4>1
    <3> QED
      BY <3>1, <3>2, PassDeletesUpToEnd
  <2> QED
    BY <2>1, <2>2
<1>4. /\ UNCHANGED <<first, high, height, last, latest, target, pc>>
  BY DEF Scan, ScanFails, nodeVars
<1>5. Remembered'
  BY <1>4 DEF WInv, Remembered, EndOf
<1>6. ASSUME NEW f \in Jobs, NEW p \in RangeKeys(f) PROVE Window(f, p)' \subseteq keys'[p]
  <2>1. Window(f, p)' = Window(f, p)
    BY <1>4 DEF Window, Newest
  <2>2. Window(f, p) \subseteq keys[p]
    BY DEF WInv, WindowIntact
  <2>3. p \in Prefixes /\ keys \in [Prefixes -> SUBSET Int]
    BY KeyInfosOfJobs DEF WInv, TypeOK
  <2>4. CASE p # q
    BY <1>3, <2>1, <2>2, <2>3, <2>4
  <2>5. CASE p = q
    <3>1. f = g
      BY <1>1, <2>5, OneOwner
    <3>2. ASSUME NEW h \in Window(f, p) PROVE ~(h <= EndOf(g))
      <4>1. high[g] \in Int /\ first \in Int /\ EndOf(g) \in Int
        BY EndUint DEF WInv, TypeOK, Uint, EndOf
      <4>2. h \in Int /\ high[g] + 1 <= h
        BY <3>1, <3>2, <4>1 DEF Window, Larger
      <4> QED
        BY <1>2, <4>1, <4>2
    <3> QED
      BY <1>3, <2>1, <2>2, <2>3, <2>5, <3>2
  <2> QED
    BY <2>4, <2>5
<1> QED
  BY <1>5, <1>6 DEF WindowIntact

LEMMA NextWindow == WInv /\ [Next]_vars => WInv'
<1> SUFFICES ASSUME WInv, [Next]_vars PROVE WInv'
  OBVIOUS
<1>1. TypeOK'
  BY NextType DEF WInv
<1>2. CASE NodeStep
  <2>1. Remembered'
    BY <1>2 DEF Remembered, NodeStep, NodeSavesBlock, NodeCommitsApplication, NodeSavesState
  <2> QED
    BY <1>1, <1>2, <2>1, NodeWindow DEF WInv
<1>3. ASSUME NEW k \in Keeps, Start(k) PROVE WInv'
  BY <1>1, <1>3, StartWindow DEF WInv
<1>4. ASSUME NEW g \in Jobs, Scan(g) \/ ScanFails(g) PROVE WInv'
  BY <1>1, <1>4, PassWindow DEF WInv
<1>5. CASE ReadRecord \/ DeleteHashes \/ WriteRecord \/ Wait \/ Crash \/ UNCHANGED vars
  <2>1. UNCHANGED <<first, high, height, last, latest, target>> /\ (pc' = "prune" => pc = "prune")
    BY <1>5 DEF ReadRecord, DeleteHashes, WriteRecord, Wait, Crash, Forget, vars, nodeVars, dbVars
  <2>2. \A p \in Prefixes : p # "BH:" => keys'[p] = keys[p]
    <3>1. keys \in [Prefixes -> SUBSET Int]
      BY DEF WInv, TypeOK
    <3>2. keys' = keys \/ keys' = [keys EXCEPT !["BH:"] = {}]
      BY <1>5 DEF ReadRecord, DeleteHashes, WriteRecord, Wait, Crash, vars, dbVars
    <3> QED
      BY <3>1, <3>2
  <2>3. Remembered'
    BY <2>1 DEF WInv, Remembered, EndOf
  <2>4. ASSUME NEW f \in Jobs, NEW p \in RangeKeys(f) PROVE Window(f, p)' \subseteq keys'[p]
    <3>1. Window(f, p)' = Window(f, p)
      BY <2>1 DEF Window, Newest
    <3>2. keys'[p] = keys[p]
      BY <2>2, KeyInfosOfJobs
    <3> QED
      BY <3>1, <3>2 DEF WInv, WindowIntact
  <2> QED
    BY <1>1, <2>3, <2>4 DEF WInv, WindowIntact
<1> QED
  BY <1>2, <1>3, <1>4, <1>5 DEF Next, JobStep

(* Whatever runs are made, fail or die, every prefix keeps all heights     *)
(* from the largest one ever pruned (or the first one) to the newest.      *)
THEOREM CometWindow == Spec => []WindowIntact
<1>1. WInv => WindowIntact
  BY DEF WInv
<1> QED
  BY <1>1, InitWindow, NextWindow, PTL DEF Spec

----------------------------------------------------------------------------
(* Where the chain is longer than the number of blocks to keep, the        *)
(* subtraction that gives pruneHeight does not wrap around.                *)

KeepsBelow == \A k \in Keeps : \A s \in Starts : k < s.last

Chain ==
  /\ first <= last /\ last <= latest /\ latest <= height
  /\ \A k \in Keeps : k < last

LInv == WInv /\ Chain /\ high["application"] < latest

LEMMA InitLatest ==
  ASSUME KeepsBelow, Init
  PROVE  LInv
<1>1. PICK s \in Starts :
        first = s.first /\ height = s.height /\ last = s.last /\ latest = s.latest
  BY DEF Init
<1>2. Consistent(s)
  BY CometAssumption DEF CometAssumption
<1>3. first \in Int /\ last \in Int /\ latest \in Int /\ 1 <= first
  BY <1>1, <1>2, InitType DEF TypeOK, Uint, Consistent
<1>4. Chain
  BY <1>1, <1>2 DEF Chain, Consistent, KeepsBelow
<1>5. high["application"] = 0
  BY DEF Init, Jobs
<1> QED
  BY <1>3, <1>4, <1>5, InitWindow DEF LInv, Chain

(* What a new run is told: no more than the state has, and for the         *)
(* application one less.                                                   *)
LEMMA StartTargets ==
  ASSUME LInv, NEW k \in Keeps, Start(k)
  PROVE  /\ target' \in Int /\ target' <= last /\ 1 <= target'
         /\ EndFor("application", target') = target' - 1
<1>1. k \in Uint /\ last \in Uint /\ k < last
  BY CometAssumption DEF CometAssumption, LInv, WInv, TypeOK, Chain
<1>2. target' = last - k
  BY <1>1, MinusUint DEF Start, Uint
<1>3. target' \in Uint /\ 1 <= target' /\ target' <= last
  BY <1>1, <1>2, RangeAssumption DEF RangeAssumption, Uint
<1>4. 1 \in Uint
  BY RangeAssumption DEF RangeAssumption, Uint
<1> QED
  BY <1>3, <1>4, MinusUint DEF EndFor, Uint

LEMMA NextLatest ==
  ASSUME LInv, [Next]_vars
  PROVE  LInv'
<1>1. WInv'
  BY NextWindow DEF LInv
<1>2. /\ first \in Int /\ last \in Int /\ latest \in Int /\ height \in Int
      /\ high["application"] \in Int /\ "application" \in Jobs /\ Keeps \subseteq Int
  BY CometAssumption DEF CometAssumption, LInv, WInv, TypeOK, Uint, Jobs
<1>3. CASE NodeStep
  <2>1. first' = first /\ high' = high
    BY <1>3 DEF NodeStep, NodeSavesBlock, NodeCommitsApplication, NodeSavesState
  <2>2. last <= last' /\ last' <= latest' /\ latest <= latest' /\ latest' <= height'
          /\ last' \in Int /\ latest' \in Int
    BY <1>2, <1>3 DEF LInv, Chain, NodeStep, NodeSavesBlock, NodeCommitsApplication, NodeSavesState
  <2> QED
    BY <1>1, <1>2, <2>1, <2>2 DEF LInv, Chain
<1>4. ASSUME NEW k \in Keeps, Start(k) PROVE LInv'
  <2>1. UNCHANGED <<first, last, latest, height>>
    BY <1>4 DEF Start, dbVars
  <2>2. high'["application"] = Larger(high["application"], EndFor("application", target'))
    BY <1>2, <1>4 DEF Start
  <2>3. high'["application"] < latest
    BY <1>2, <1>4, <2>2, StartTargets DEF LInv, Chain, Larger
  <2> QED
    BY <1>1, <2>1, <2>3 DEF LInv, Chain
<1>5. CASE UNCHANGED <<first, last, latest, height, high>>
  BY <1>1, <1>5 DEF LInv, Chain
<1> QED
  BY <1>3, <1>4, <1>5
     DEF Next, JobStep, ReadRecord, Scan, ScanFails, DeleteHashes, WriteRecord, Wait, Crash,
         nodeVars, dbVars, vars

(* The commit info of s/latest is never deleted, whatever --keep-blocks a  *)
(* chain that is longer is pruned with, 0 included: the application loads. *)
THEOREM CometLatestVersion ==
  ASSUME KeepsBelow
  PROVE  Spec => []LatestVersionKept
<1>1. Init => LInv
  BY InitLatest
<1>2. LInv /\ [Next]_vars => LInv'
  BY NextLatest
<1>3. LInv => LatestVersionKept
  <2> SUFFICES ASSUME LInv PROVE LatestVersionKept
    OBVIOUS
  <2>1. "application" \in Jobs /\ "s/" \in RangeKeys("application")
    BY DEF Jobs, RangeKeys
  <2>2. first \in Int /\ last \in Int /\ latest \in Int /\ high["application"] \in Int
    BY <2>1 DEF LInv, WInv, TypeOK, Uint
  <2>3. Newest("s/") = latest
    BY DEF Newest
  <2>4. latest \in Window("application", "s/")
    BY <2>2, <2>3 DEF LInv, Chain, Window, Larger
  <2> QED
    BY <2>1, <2>4 DEF LInv, WInv, WindowIntact, LatestVersionKept
<1> QED
  BY <1>1, <1>2, <1>3, PTL DEF Spec

----------------------------------------------------------------------------
(* The record of the block store. *)

(* The record in memory is that of the database until it is written.       *)
RInv ==
  /\ TypeOK
  /\ ~misread => bsj.height = height
  /\ pc = "prune" /\ ~misread /\ status["block"] \in {"scan", "hashes", "base"} =>
       copy.height = height

LEMMA NextRecord ==
  ASSUME RInv, [Next]_vars
  PROVE  RInv'
<1>1. TypeOK'
  BY NextType DEF RInv
<1>2. bsj \in Records /\ copy \in Records /\ "block" \in Jobs /\ status \in [Jobs -> Statuses]
  BY DEF RInv, TypeOK, Jobs
<1>3. CASE NodeStep
  <2>1. pc' = "idle" /\ misread' = misread
    BY <1>3 DEF NodeStep, NodeSavesBlock, NodeCommitsApplication, NodeSavesState
  <2>2. CASE NodeSavesBlock
    <3>1. height' = height + 1 /\ bsj' = [bsj EXCEPT !.height = height + 1]
      BY <2>2 DEF NodeSavesBlock
    <3>2. bsj'.height = height'
      BY <1>2, <3>1 DEF Records
    <3> QED
      BY <1>1, <2>1, <3>2 DEF RInv
  <2>3. CASE NodeCommitsApplication \/ NodeSavesState
    <3>1. height' = height /\ bsj' = bsj
      BY <2>3 DEF NodeCommitsApplication, NodeSavesState
    <3> QED
      BY <1>1, <2>1, <3>1 DEF RInv
  <2> QED
    BY <1>3, <2>2, <2>3 DEF NodeStep
<1>4. ASSUME NEW k \in Keeps, Start(k) PROVE RInv'
  <2>1. status' = [g \in Jobs |-> IF g = "block" THEN "open" ELSE "scan"]
    BY <1>4 DEF Start
  <2>2. status'["block"] = "open"
    BY <1>2, <2>1
  <2>3. misread' = misread /\ height' = height /\ bsj' = bsj
    BY <1>4 DEF Start, dbVars
  <2> QED
    BY <1>1, <2>2, <2>3 DEF RInv
<1>5. CASE ReadRecord
  <2>1. height' = height /\ bsj' = bsj
    BY <1>5 DEF ReadRecord, dbVars
  <2>2. (copy' = bsj /\ misread' = misread) \/ misread' = TRUE
    BY <1>5 DEF ReadRecord
  <2>3. CASE misread' = TRUE
    BY <1>1, <2>3 DEF RInv
  <2>4. CASE copy' = bsj /\ misread' = misread
    BY <1>1, <2>1, <2>4 DEF RInv
  <2> QED
    BY <2>2, <2>3, <2>4
<1>6. ASSUME NEW g \in Jobs, Scan(g) \/ ScanFails(g) PROVE RInv'
  <2>1. UNCHANGED <<bsj, height, copy, misread, pc>> /\ pc = "prune"
    BY <1>6 DEF Scan, ScanFails, nodeVars
  <2>2. status'["block"] \in {"scan", "hashes", "base"} =>
          status["block"] \in {"scan", "hashes", "base"}
    BY <1>2, <1>6 DEF Scan, ScanFails, NextKey, KeysDone
  <2> QED
    BY <1>1, <2>1, <2>2 DEF RInv
<1>7. CASE DeleteHashes
  <2>1. UNCHANGED <<bsj, height, copy, misread, pc>> /\ status["block"] = "hashes"
    BY <1>7 DEF DeleteHashes, nodeVars
  <2> QED
    BY <1>1, <2>1 DEF RInv
<1>8. CASE WriteRecord
  <2>1. bsj' = [copy EXCEPT !.base = NewBase(target)]
    BY <1>8 DEF WriteRecord
  <2>2. bsj'.height = copy.height
    BY <1>2, <2>1 DEF Records
  <2>3. UNCHANGED <<height, copy, misread, pc>> /\ status["block"] = "base" /\ pc = "prune"
    BY <1>8 DEF WriteRecord, nodeVars
  <2> QED
    BY <1>1, <2>2, <2>3 DEF RInv
<1>9. CASE Wait \/ Crash
  <2>1. pc' = "idle" /\ UNCHANGED <<bsj, height, misread>>
    BY <1>9 DEF Wait, Crash, Forget, dbVars
  <2> QED
    BY <1>1, <2>1 DEF RInv
<1>10. CASE UNCHANGED vars
  BY <1>1, <1>10 DEF RInv, vars
<1> QED
  BY <1>3, <1>4, <1>5, <1>6, <1>7, <1>8, <1>9, <1>10 DEF Next, JobStep

(* The height in the record stays that of the newest block through every   *)
(* run that failed, died or ended, unless a failed Get was ignored.        *)
THEOREM CometHeightRecord == Spec => []HeightRecordKept
<1>1. Init => RInv
  <2> SUFFICES ASSUME Init PROVE RInv
    OBVIOUS
  <2>1. bsj.height = height /\ pc = "idle"
    BY DEF Init
  <2> QED
    BY <2>1, InitType DEF RInv
<1>2. RInv /\ [Next]_vars => RInv'
  BY NextRecord
<1>3. RInv => HeightRecordKept
  BY DEF RInv, HeightRecordKept
<1> QED
  BY <1>1, <1>2, <1>3, PTL DEF Spec

(* The base in the record is the one of the run that ended last. *)
BInv ==
  /\ LInv
  /\ pc = "prune" => target <= last
  /\ pc = "prune" /\ status["block"] = "done" => bsj.base = target + 1
  /\ result = "ok" => bsj.base = target + 1

LEMMA NextBase ==
  ASSUME BInv, [Next]_vars
  PROVE  BInv'
<1>1. LInv'
  BY NextLatest DEF BInv
<1>2. /\ bsj \in Records /\ copy \in Records /\ "block" \in Jobs
      /\ status \in [Jobs -> Statuses]
      /\ target \in Int /\ last \in Int /\ height \in Int /\ latest \in Int
      /\ height <= MaxHeight /\ MaxHeight \in Int
  BY CometAssumption DEF CometAssumption, BInv, LInv, WInv, TypeOK, Jobs, Uint
<1>3. CASE NodeStep
  <2>1. pc' = "idle" /\ result' = result /\ target' = target
    BY <1>3 DEF NodeStep, NodeSavesBlock, NodeCommitsApplication, NodeSavesState
  <2>2. bsj'.base = bsj.base
    <3>1. bsj' = bsj \/ bsj' = [bsj EXCEPT !.height = height + 1]
      BY <1>3 DEF NodeStep, NodeSavesBlock, NodeCommitsApplication, NodeSavesState
    <3> QED
      BY <1>2, <3>1 DEF Records
  <2> QED
    BY <1>1, <2>1, <2>2 DEF BInv
<1>4. ASSUME NEW k \in Keeps, Start(k) PROVE BInv'
  <2>1. status' = [g \in Jobs |-> IF g = "block" THEN "open" ELSE "scan"]
    BY <1>4 DEF Start
  <2>2. status'["block"] = "open"
    BY <1>2, <2>1
  <2>3. result' = "none" /\ last' = last
    BY <1>4 DEF Start, dbVars
  <2>4. target' <= last
    BY <1>4, StartTargets DEF BInv
  <2> QED
    BY <1>1, <2>2, <2>3, <2>4 DEF BInv
<1>5. ASSUME NEW g \in Jobs,
             (g = "block" /\ (ReadRecord \/ DeleteHashes)) \/ Scan(g) \/ ScanFails(g)
      PROVE  BInv'
  <2>1. UNCHANGED <<bsj, last, target, pc, result>> /\ pc = "prune"
    BY <1>5 DEF ReadRecord, DeleteHashes, Scan, ScanFails, nodeVars, dbVars
  <2>2. status'["block"] = "done" => status["block"] = "done"
    BY <1>2, <1>5 DEF ReadRecord, DeleteHashes, Scan, ScanFails, NextKey, KeysDone
  <2> QED
    BY <1>1, <2>1, <2>2 DEF BInv
<1>6. CASE WriteRecord
  <2>1. bsj' = [copy EXCEPT !.base = NewBase(target)]
    BY <1>6 DEF WriteRecord
  <2>2. bsj'.base = NewBase(target)
    BY <1>2, <2>1 DEF Records
  <2>3. UNCHANGED <<last, target, result, pc>> /\ pc = "prune"
    BY <1>6 DEF WriteRecord, nodeVars
  <2>4. target <= MaxHeight
    BY <1>2, <2>3 DEF BInv, LInv, Chain
  <2>5. NewBase(target) = target + 1
    BY <1>2, <2>4, CometAssumption, RangeAssumption DEF CometAssumption, RangeAssumption, NewBase
  <2>6. bsj'.base = target' + 1
    BY <2>2, <2>3, <2>5
  <2> QED
    BY <1>1, <2>3, <2>6 DEF BInv
<1>7. CASE Wait
  <2>1. pc' = "idle" /\ UNCHANGED <<bsj, target, last>> /\ pc = "prune"
    BY <1>7 DEF Wait, Forget, dbVars
  <2>2. result' = "ok" => status["block"] = "done"
    BY <1>2, <1>7 DEF Wait
  <2> QED
    BY <1>1, <2>1, <2>2 DEF BInv
<1>8. CASE Crash
  <2>1. pc' = "idle" /\ result' = "crashed"
    BY <1>8 DEF Crash, Forget
  <2> QED
    BY <1>1, <2>1 DEF BInv
<1>9. CASE UNCHANGED vars
  BY <1>1, <1>9 DEF BInv, vars
<1> QED
  BY <1>3, <1>4, <1>5, <1>6, <1>7, <1>8, <1>9 DEF Next, JobStep

(* After a run that returned nil the base is honest: on a chain longer     *)
(* than what is to be kept, the blocks from it to the newest are all       *)
(* there, whatever earlier runs failed or died half way.                   *)
THEOREM CometBaseHonest ==
  ASSUME KeepsBelow
  PROVE  Spec => []BaseHonest
<1>1. Init => BInv
  <2> SUFFICES ASSUME Init PROVE BInv
    OBVIOUS
  <2>1. pc = "idle" /\ result = "none"
    BY DEF Init
  <2> QED
    BY <2>1, InitLatest DEF BInv
<1>2. BInv /\ [Next]_vars => BInv'
  BY NextBase
<1>3. BInv => BaseHonest
  <2> SUFFICES ASSUME BInv, result = "ok", high["block"] = target, first <= target + 1,
                      NEW p \in BlockKeys, NEW h \in bsj.base..Newest(p)
               PROVE  h \in keys[p]
    BY DEF BaseHonest
  <2>1. "block" \in Jobs /\ p \in RangeKeys("block")
    BY DEF Jobs, RangeKeys
  <2>2. first \in Int /\ target \in Int
    BY DEF BInv, LInv, WInv, TypeOK, Uint
  <2>3. bsj.base = target + 1
    BY DEF BInv
  <2>4. bsj.base = Larger(first, high["block"] + 1)
    BY <2>2, <2>3 DEF Larger
  <2>5. h \in Window("block", p)
    BY <2>4 DEF Window
  <2> QED
    BY <2>1, <2>5 DEF BInv, LInv, WInv, WindowIntact
<1> QED
  BY <1>1, <1>2, <1>3, PTL DEF Spec

----------------------------------------------------------------------------
(* The base is written last. *)

(* Of the heights up to the target, and of its length, a prefix that was   *)
(* walked through holds the target and the nines at most.                  *)
Cleared(p) ==
  \A h \in keys[p] : h <= target /\ h >= Power(NumDigits(target) - 1) =>
    h \in {target, Power(NumDigits(target)) - 1}

HeightsOfNode == \A p \in BlockKeys : keys[p] \subseteq 0..height

(* How far the block goroutine is, and what is gone. *)
Progress ==
  /\ status["block"] = "open" => at["block"] = 1 /\ digits["block"] = NumDigits(target)
  /\ status["block"] = "scan" =>
       /\ \A i \in 1..(at["block"] - 1) : Cleared(blockKeyInfos[i])
       /\ digits["block"] # NumDigits(target) => Cleared(blockKeyInfos[at["block"]])
  /\ status["block"] \in {"hashes", "base"} => \A p \in BlockKeys : Cleared(p)
  /\ status["block"] = "base" => keys["BH:"] = {}

CInv == TypeOK /\ HeightsOfNode /\ (pc = "prune" => Progress)

LEMMA BlockInfos ==
  /\ Len(blockKeyInfos) = 5 /\ KeyInfos("block") = blockKeyInfos /\ "block" \in Jobs
  /\ \A i \in 1..5 : blockKeyInfos[i] \in BlockKeys
  /\ \A p \in BlockKeys : \E i \in 1..5 : p = blockKeyInfos[i]
  /\ RangeKeys("block") = BlockKeys /\ BlockKeys \subseteq Prefixes
  /\ "BH:" \in Prefixes /\ "BH:" \notin BlockKeys
<1>1. /\ blockKeyInfos[1] = "H:" /\ blockKeyInfos[2] = "C:" /\ blockKeyInfos[3] = "EC:"
      /\ blockKeyInfos[4] = "SC:" /\ blockKeyInfos[5] = "P:" /\ Len(blockKeyInfos) = 5
  BY DEF blockKeyInfos
<1>2. \A i \in 1..5 : i = 1 \/ i = 2 \/ i = 3 \/ i = 4 \/ i = 5
  OBVIOUS
<1>3. \A i \in 1..5 : blockKeyInfos[i] \in BlockKeys
  BY <1>1, <1>2 DEF BlockKeys
<1>4. \A p \in BlockKeys : \E i \in 1..5 : p = blockKeyInfos[i]
  <2>1. 1 \in 1..5 /\ 2 \in 1..5 /\ 3 \in 1..5 /\ 4 \in 1..5 /\ 5 \in 1..5
    OBVIOUS
  <2> QED
    BY <1>1, <2>1 DEF BlockKeys
<1>5. KeyInfos("block") = blockKeyInfos /\ "block" \in Jobs /\ RangeKeys("block") = BlockKeys
  BY DEF KeyInfos, Jobs, RangeKeys
<1>6. BlockKeys \subseteq Prefixes /\ "BH:" \in Prefixes /\ "BH:" \notin BlockKeys
  BY DEF BlockKeys, Prefixes
<1> QED
  BY <1>1, <1>3, <1>4, <1>5, <1>6

(* The heights of a node's keys are in the lower half of the uint64        *)
(* values.                                                                 *)
LEMMA NodeHeights ==
  ASSUME TypeOK, HeightsOfNode, NEW p \in BlockKeys, NEW h \in keys[p]
  PROVE  h \in Uint /\ h < Word \div 2
<1>1. height \in Uint /\ height <= MaxHeight /\ MaxHeight \in Nat /\ MaxHeight + 1 < Word \div 2
  BY CometAssumption, PowerStep DEF CometAssumption, TypeOK, Uint
<1>2. h \in 0..height
  BY DEF HeightsOfNode
<1> QED
  BY <1>1, <1>2, PowerStep DEF Uint

(* One pass of the block goroutine: the first one clears its prefix, the   *)
(* others keep it cleared.                                                 *)
LEMMA PassClears ==
  ASSUME TypeOK, HeightsOfNode, Progress, status["block"] = "scan",
         NEW p, p = blockKeyInfos[at["block"]], p \in BlockKeys,
         NEW r \in RangeEnds(target, digits["block"]),
         keys' = [keys EXCEPT ![p] = @ \ PassDeletes(ShapeOf(p), keys[p], target, digits["block"], r)],
         target' = target
  PROVE  /\ Cleared(p)'
         /\ \A q \in BlockKeys : Cleared(q) => Cleared(q)'
<1>1. target \in Uint /\ keys \in [Prefixes -> SUBSET Int] /\ p \in Prefixes
  BY BlockInfos DEF TypeOK
<1>2. keys'[p] = keys[p] \ PassDeletes(ShapeOf(p), keys[p], target, digits["block"], r)
      /\ \A q \in BlockKeys : keys'[q] \subseteq keys[q]
  BY <1>1, BlockInfos
<1>3. \A q \in BlockKeys : Cleared(q) => Cleared(q)'
  BY <1>2 DEF Cleared
<1>4. CASE digits["block"] # NumDigits(target)
  BY <1>3, <1>4 DEF Progress
<1>5. CASE digits["block"] = NumDigits(target)
  <2> SUFFICES ASSUME NEW h \in keys'[p], h <= target, h >= Power(NumDigits(target) - 1),
                      h \notin {target, Power(NumDigits(target)) - 1}
               PROVE  FALSE
    BY DEF Cleared
  <2>1. h \in keys[p] /\ h \notin PassDeletes(ShapeOf(p), keys[p], target, digits["block"], r)
    BY <1>2
  <2>2. h \in Uint /\ h < Word \div 2
    BY <2>1, NodeHeights
  <2>3. Power(NumDigits(target) - 1) <= h
    <3>1. NumDigits(target) - 1 \in 0..MaxDigits
      BY <1>1, NumDigitsRange, PowerStep
    <3>2. Power(NumDigits(target) - 1) \in Nat /\ h \in Nat
      BY <2>2, <3>1, PowerType, PowerStep DEF Uint
    <3> QED
      BY <3>2
  <2> QED
    BY <1>1, <1>5, <2>1, <2>2, <2>3, RoundedFirstPass
<1> QED
  BY <1>3, <1>4, <1>5

LEMMA BlockScan ==
  ASSUME CInv, Scan("block")
  PROVE  Progress'
<1>1. TypeOK /\ HeightsOfNode /\ Progress /\ target \in Uint /\ target' = target
      /\ status["block"] = "scan" /\ at["block"] \in 1..5 /\ at \in [Jobs -> 1..5]
      /\ digits \in [Jobs -> 1..MaxDigits] /\ status \in [Jobs -> Statuses]
  <2>1. TypeOK /\ HeightsOfNode /\ Progress /\ target' = target /\ status["block"] = "scan"
    BY DEF CInv, Scan
  <2> QED
    BY <2>1, BlockInfos DEF TypeOK
<1>0. PICK p \in BlockKeys : p = blockKeyInfos[at["block"]]
  BY <1>1, BlockInfos
<1>2. EndOf("block") = target /\ KeyInfos("block") = blockKeyInfos
  BY <1>1, BlockInfos DEF EndOf, EndFor
<1>3. PICK r \in RangeEnds(target, digits["block"]) :
        LET deleted == PassDeletes(ShapeOf(p), keys[p], target, digits["block"], r)
        IN  /\ keys' = [keys EXCEPT ![p] = @ \ deleted]
            /\ \/ /\ GoesOn(digits["block"], r, deleted)
                  /\ digits' = [digits EXCEPT !["block"] = @ - 1]
                  /\ UNCHANGED <<at, status>>
               \/ NextKey("block") \/ KeysDone("block")
  BY <1>0, <1>2 DEF Scan
<1>4. Cleared(p)' /\ \A q \in BlockKeys : Cleared(q) => Cleared(q)'
  BY <1>0, <1>1, <1>3, PassClears
<1>5. \A i \in 1..(at["block"] - 1) : i \in 1..5 /\ Cleared(blockKeyInfos[i])'
  <2> TAKE i \in 1..(at["block"] - 1)
  <2>1. i \in 1..5 /\ Cleared(blockKeyInfos[i])
    BY <1>1 DEF Progress
  <2> QED
    BY <1>4, <2>1, BlockInfos
<1>6. \A i \in 1..at["block"] : Cleared(blockKeyInfos[i])'
  <2> TAKE i \in 1..at["block"]
  <2>1. i = at["block"] \/ i \in 1..(at["block"] - 1)
    BY <1>1
  <2> QED
    BY <1>0, <1>4, <1>5, <2>1
<1>7. CASE at' = at /\ status' = status
  <2>1. status'["block"] = "scan" /\ at'["block"] = at["block"]
    BY <1>1, <1>7
  <2>2. PICK j : j = at["block"]
    OBVIOUS
  <2>3. (\A i \in 1..(j - 1) : Cleared(blockKeyInfos[i])') /\ Cleared(blockKeyInfos[j])'
    BY <1>0, <1>4, <1>5, <2>2
  <2>4. j = at'["block"]
    BY <2>1, <2>2
  <2> QED
    BY <2>1, <2>3, <2>4 DEF Progress
<1>8. CASE NextKey("block")
  <2>1. /\ status'["block"] = "scan" /\ at'["block"] = at["block"] + 1
        /\ digits'["block"] = NumDigits(target)
    <3>1. status' = status /\ at' = [at EXCEPT !["block"] = @ + 1]
          /\ digits' = [digits EXCEPT !["block"] = NumDigits(target)]
      BY <1>2, <1>8 DEF NextKey
    <3> QED
      BY <1>1, <3>1, BlockInfos
  <2>2. at'["block"] - 1 = at["block"]
    BY <1>1, <2>1
  <2>3. (\A i \in 1..(at["block"] - 1) : Cleared(blockKeyInfos[i]))'
    BY <1>6, <2>2
  <2>4. digits'["block"] = NumDigits(target)'
    BY <1>1, <2>1
  <2> QED
    BY <2>1, <2>3, <2>4 DEF Progress
<1>9. CASE KeysDone("block")
  <2>1. at["block"] = 5 /\ status'["block"] = "hashes"
    BY <1>1, <1>9, BlockInfos DEF KeysDone
  <2>2. \A q \in BlockKeys : Cleared(q)'
    BY <1>6, <2>1, BlockInfos
  <2>3. (\A q \in BlockKeys : Cleared(q))'
    BY <2>2
  <2> QED
    BY <2>1, <2>3 DEF Progress
<1> QED
  BY <1>3, <1>7, <1>8, <1>9

(* What a goroutine of another database, and a failing one, leave to the   *)
(* block goroutine.                                                        *)
LEMMA OtherScan ==
  ASSUME CInv, NEW g \in Jobs, ScanFails(g) \/ (Scan(g) /\ g # "block")
  PROVE  Progress'
<1>1. TypeOK /\ Progress /\ target' = target /\ status \in [Jobs -> Statuses]
      /\ at \in [Jobs -> 1..5] /\ digits \in [Jobs -> 1..MaxDigits] /\ keys \in [Prefixes -> SUBSET Int]
  BY DEF CInv, Scan, ScanFails, TypeOK
<1>2. CASE g = "block"
  <2>1. status'["block"] = "failed"
    BY <1>1, <1>2, BlockInfos DEF ScanFails, Scan
  <2> QED
    BY <2>1 DEF Progress
<1>3. CASE g # "block"
  <2>1. UNCHANGED <<status["block"], at["block"], digits["block"]>>
    BY <1>1, <1>3, BlockInfos DEF Scan, ScanFails, NextKey, KeysDone
  <2>2. \A p \in BlockKeys \cup {"BH:"} : keys'[p] = keys[p]
    <3>1. PICK p \in RangeKeys(g) : \E del : keys' = keys \/ keys' = [keys EXCEPT ![p] = @ \ del]
      <4>1. KeyInfos(g)[at[g]] \in RangeKeys(g)
        <5>1. at[g] \in 1..Len(KeyInfos(g))
          <6>1. at[g] \in 1..5 /\ at[g] <= Len(KeyInfos(g))
            BY <1>1 DEF TypeOK
          <6> QED
            BY <6>1, KeyInfosOfJobs
        <5> QED
          BY <5>1, KeyInfosOfJobs
      <4> QED
        BY <4>1 DEF Scan, ScanFails
    <3>2. p \notin BlockKeys /\ p # "BH:" /\ p \in Prefixes
      BY <1>3, OneOwner, KeyInfosOfJobs, BlockInfos
    <3> QED
      BY <1>1, <3>1, <3>2, BlockInfos
  <2>3. \A p \in BlockKeys : Cleared(p)' <=> Cleared(p)
    BY <1>1, <2>2 DEF Cleared
  <2>4. \A i \in 1..5 : Cleared(blockKeyInfos[i])' <=> Cleared(blockKeyInfos[i])
    BY <2>3, BlockInfos
  <2>5. at["block"] \in 1..5 /\ keys'["BH:"] = keys["BH:"]
    BY <1>1, <2>2, BlockInfos
  <2>6. \A i \in 1..(at["block"] - 1) : i \in 1..5
    BY <2>5
  <2> QED
    BY <1>1, <2>1, <2>3, <2>4, <2>5, <2>6 DEF Progress
<1> QED
  BY <1>2, <1>3

LEMMA NextHeights ==
  ASSUME CInv, [Next]_vars
  PROVE  HeightsOfNode'
<1>1. TypeOK /\ keys \in [Prefixes -> SUBSET Int] /\ height \in Nat
      /\ \A p \in BlockKeys : keys[p] \subseteq 0..height
  BY PowerStep DEF CInv, TypeOK, HeightsOfNode, Uint
<1>2. CASE NodeSavesBlock
  <2>1. ASSUME NEW p \in BlockKeys
        PROVE  keys'[p] \subseteq keys[p] \cup {height, height + 1}
    BY <1>2, BlockInfos DEF NodeSavesBlock, With
  <2>2. height' = height + 1
    BY <1>2 DEF NodeSavesBlock
  <2>3. ASSUME NEW p \in BlockKeys, NEW h \in keys'[p]
        PROVE  h \in 0..height'
    <3>1. h \in 0..height \/ h = height \/ h = height + 1
      BY <1>1, <2>1, <2>3
    <3> QED
      BY <1>1, <2>2, <3>1
  <2> QED
    BY <2>3 DEF HeightsOfNode
<1>3. CASE ~NodeSavesBlock
  <2>1. height' = height
    BY <1>3 DEF Next, NodeStep, JobStep, NodeCommitsApplication, NodeSavesState, Start, ReadRecord,
                Scan, ScanFails, DeleteHashes, WriteRecord, Wait, Crash, nodeVars, dbVars, vars
  <2>2. CASE NodeCommitsApplication \/ NodeSavesState
    <3>1. \A p \in BlockKeys : keys'[p] = keys[p]
      BY <2>2, BlockInfos DEF NodeCommitsApplication, NodeSavesState, With, BlockKeys
    <3> QED
      BY <1>1, <2>1, <3>1 DEF HeightsOfNode
  <2>3. ASSUME NEW g \in Jobs, Scan(g) \/ ScanFails(g)
        PROVE  HeightsOfNode'
    <3>1. PICK p, del : keys' = keys \/ keys' = [keys EXCEPT ![p] = @ \ del]
      BY <2>3 DEF Scan, ScanFails
    <3>2. \A q \in BlockKeys : keys'[q] \subseteq keys[q]
      BY <1>1, <3>1, BlockInfos
    <3> QED
      BY <1>1, <2>1, <3>2 DEF HeightsOfNode
  <2>4. CASE DeleteHashes
    <3>1. \A q \in BlockKeys : keys'[q] = keys[q]
      BY <1>1, <2>4, BlockInfos DEF DeleteHashes
    <3> QED
      BY <1>1, <2>1, <3>1 DEF HeightsOfNode
  <2>5. CASE UNCHANGED keys
    BY <1>1, <2>1, <2>5 DEF HeightsOfNode
  <2> QED
    BY <1>3, <2>2, <2>3, <2>4, <2>5
       DEF Next, NodeStep, JobStep, Start, ReadRecord, WriteRecord, Wait, Crash, nodeVars, dbVars, vars
<1> QED
  BY <1>2, <1>3

LEMMA NextProgress ==
  ASSUME CInv, [Next]_vars, pc' = "prune"
  PROVE  Progress'
<1>1. TypeOK /\ status \in [Jobs -> Statuses] /\ keys \in [Prefixes -> SUBSET Int]
      /\ (pc = "prune" => Progress)
  BY DEF CInv, TypeOK
<1>2. ASSUME NEW k \in Keeps, Start(k) PROVE Progress'
  <2>1. status'["block"] = "open" /\ at'["block"] = 1 /\ digits'["block"] = NumDigits(target')
    BY <1>2, BlockInfos DEF Start, EndFor
  <2> QED
    BY <2>1 DEF Progress
<1>3. CASE ReadRecord
  <2>1. status["block"] = "open" /\ Progress /\ status'["block"] = "scan"
        /\ UNCHANGED <<keys, target, at, digits>>
    BY <1>1, <1>3, BlockInfos DEF ReadRecord, dbVars
  <2>2. at'["block"] = 1 /\ digits'["block"] = NumDigits(target)'
    BY <2>1 DEF Progress
  <2>3. (\A i \in 1..(at["block"] - 1) : Cleared(blockKeyInfos[i]))'
    BY <2>2
  <2> QED
    BY <2>1, <2>2, <2>3 DEF Progress
<1>4. ASSUME NEW g \in Jobs, Scan(g) \/ ScanFails(g) PROVE Progress'
  BY <1>4, BlockScan, OtherScan
<1>5. CASE DeleteHashes
  <2>1. Progress /\ status["block"] = "hashes" /\ target' = target
    BY <1>1, <1>5 DEF DeleteHashes
  <2>2. \A q \in BlockKeys : keys'[q] = keys[q]
    BY <1>1, <1>5, BlockInfos DEF DeleteHashes
  <2>3. (\A q \in BlockKeys : Cleared(q))'
    BY <2>1, <2>2 DEF Progress, Cleared
  <2>4. status'["block"] = "failed" \/ (status'["block"] = "base" /\ keys'["BH:"] = {})
    BY <1>1, <1>5, BlockInfos DEF DeleteHashes
  <2> QED
    BY <2>3, <2>4 DEF Progress
<1>6. CASE WriteRecord
  <2>1. status'["block"] = "done"
    BY <1>1, <1>6, BlockInfos DEF WriteRecord
  <2> QED
    BY <2>1 DEF Progress
<1>7. CASE UNCHANGED vars
  BY <1>1, <1>7 DEF vars, Progress, Cleared
<1>8. CASE NodeStep \/ Wait \/ Crash
  BY <1>8 DEF NodeStep, NodeSavesBlock, NodeCommitsApplication, NodeSavesState, Wait, Crash, Forget
<1> QED
  BY <1>2, <1>3, <1>4, <1>5, <1>6, <1>7, <1>8 DEF Next, JobStep

LEMMA InitProgress == Init => CInv
<1> SUFFICES ASSUME Init PROVE CInv
  OBVIOUS
<1>1. TypeOK /\ pc = "idle"
  BY InitType DEF Init
<1>2. PICK s \in Starts : first = s.first /\ height = s.height
  BY DEF Init
<1>3. 1 <= first /\ first \in Int /\ height \in Int
  BY <1>1, <1>2, CometAssumption DEF CometAssumption, Consistent, TypeOK, Uint
<1>4. ASSUME NEW p \in BlockKeys, NEW h \in keys[p] PROVE h \in 0..height
  <2>1. keys[p] = (IF p = "C:" THEN first - 1 ELSE first)..Newest(p)
    BY BlockInfos DEF Init
  <2>2. Newest(p) \in Int /\ Newest(p) <= height
    BY <1>3 DEF Newest, BlockKeys
  <2> QED
    BY <1>3, <2>1, <2>2
<1> QED
  BY <1>1, <1>4 DEF CInv, HeightsOfNode

(* The base moves only when the hashes of the blocks are gone and every    *)
(* block prefix was walked through, whatever --keep-blocks, the wrapped    *)
(* subtraction included, and however runs failed or died before.           *)
THEOREM CometBaseLast == Spec => BaseLast
<1>1. CInv /\ [Next]_vars => CInv'
  BY NextType, NextHeights, NextProgress DEF CInv
<1>2. ASSUME CInv, [Next]_vars, bsj'.base # bsj.base
      PROVE  /\ keys["BH:"] = {}
             /\ \A p \in BlockKeys :
                  \A h \in keys[p] : h <= target /\ h >= Power(NumDigits(target) - 1) =>
                    h \in {target, Power(NumDigits(target)) - 1}
  <2>1. CASE NodeSavesBlock
    <3>1. bsj' = [bsj EXCEPT !.height = height + 1] /\ bsj \in Records
      BY <1>2, <2>1 DEF NodeSavesBlock, CInv, TypeOK
    <3> QED
      BY <1>2, <3>1 DEF Records
  <2>2. CASE WriteRecord
    <3>1. Progress /\ status["block"] = "base"
      BY <1>2, <2>2 DEF CInv, WriteRecord
    <3> QED
      BY <3>1 DEF Progress, Cleared
  <2>3. CASE ~NodeSavesBlock /\ ~WriteRecord
    <3>1. bsj' = bsj
      BY <1>2, <2>3 DEF Next, NodeStep, JobStep, NodeCommitsApplication, NodeSavesState, Start,
           ReadRecord, Scan, ScanFails, DeleteHashes, Wait, Crash, nodeVars, dbVars, vars
    <3> QED
      BY <1>2, <3>1
  <2> QED
    BY <2>1, <2>2, <2>3
<1> QED
  BY <1>1, <1>2, InitProgress, PTL DEF Spec, BaseLast
=============================================================================

--------------------------- MODULE SeiPrune_proofs ---------------------------
(***************************************************************************)
(* Theorems of SeiPrune, for every word size, chain, choice of             *)
(* --keep-blocks and number of runs.                                       *)
(***************************************************************************)
EXTENDS SeiPrune, TLAPS

USE DEF Prefixes, BlockPrefixes, StatePrefixes

LEMMA SequenceFacts ==
  /\ \A i \in 1..6 : Sequence[i] \in Prefixes
  /\ \A p \in Prefixes : \E i \in 1..6 : Sequence[i] = p
  /\ \A i \in 1..6 : i >= 2 => Sequence[i] # "meta"
  /\ Sequence[1] = "meta"
BY DEF Sequence

(* The wrap and the conversion to int64, for every --keep-blocks. *)
LEMMA SignedRange ==
  ASSUME NEW n \in 0..(Word - 1)
  PROVE  Signed(n) \in -(Word \div 2)..(Word \div 2 - 1)
<1> DEFINE w == Word
<1>1. w \in Nat /\ w % 2 = 0 BY SeiAssumption
<1>2. w = 2 * (w \div 2) /\ w \div 2 \in Nat BY <1>1
<1> QED BY <1>1, <1>2 DEF Signed

LEMMA EndRange ==
  ASSUME stateHeight \in 0..MaxHeight, NEW keep \in Keeps
  PROVE  Signed(PruneHeight(keep)) \in -(Word \div 2)..(Word \div 2 - 1)
<1>1. PruneHeight(keep) \in 0..(Word - 1) BY SeiAssumption DEF PruneHeight
<1> QED BY <1>1, SignedRange

(* Up to 2^63 the conversion undoes the wrap of the subtraction. *)
LEMMA EndIsDifference ==
  ASSUME stateHeight \in 0..MaxHeight, NEW keep \in Keeps, ~(keep > Word \div 2)
  PROVE  Signed(PruneHeight(keep)) = stateHeight - keep
<1> DEFINE d == stateHeight - keep
           w == Word
<1>1. w \in Nat /\ stateHeight \in Int /\ stateHeight >= 0 /\ stateHeight < w \div 2
      /\ keep \in Int /\ keep >= 0 /\ keep <= w \div 2
  BY SeiAssumption
<1>2. d \in Int /\ d >= -(w \div 2) /\ d < w \div 2 BY <1>1
<1>3. CASE d >= 0
  <2>1. d % w = d BY <1>1, <1>2, <1>3
  <2> QED BY <2>1, <1>1, <1>2 DEF Signed, PruneHeight
<1>4. CASE d < 0
  <2>1. d % w = d + w BY <1>1, <1>2, <1>4
  <2>2. d + w >= w \div 2 BY <1>1, <1>2
  <2> QED BY <2>1, <2>2, <1>1, <1>2 DEF Signed, PruneHeight
<1> QED BY <1>2, <1>3, <1>4

----------------------------------------------------------------------------
(* Types. *)

(* As long as no --keep-blocks was above 2^63, the prunes never ask for    *)
(* more than the state has; the node's two heights are never further apart *)
(* than one block.                                                         *)
HeightInv ==
  /\ newest \in Base..MaxHeight
  /\ stateHeight \in (Base - 1)..MaxHeight /\ stateHeight \in {newest - 1, newest}
  /\ end \in -(Word \div 2)..(Word \div 2 - 1) /\ high \in 0..(Word \div 2 - 1)
  /\ end <= high /\ (~huge => high <= stateHeight)
  /\ step \in 0..7

StoreInv == stored \in [Prefixes -> SUBSET (0..(MaxHeight + 2))]

RestInv ==
  /\ result \in {"none", "ok", "failed", "killed"}
  /\ prunes \in 0..MaxPrunes
  /\ lost \in {"never", "before", "now"} /\ huge \in BOOLEAN

Types == HeightInv /\ StoreInv /\ RestInv

LEMMA TypesInit == Init => Types
<1> SUFFICES ASSUME Init PROVE Types OBVIOUS
<1>1. HeightInv BY SeiAssumption DEF Init, HeightInv
<1>2. \A p \in Prefixes : Written(p) \in SUBSET (0..(MaxHeight + 2))
  BY SeiAssumption DEF Init, Written
<1>3. StoreInv BY <1>2 DEF Init, StoreInv
<1>4. RestInv
  <2>1. huge \in BOOLEAN BY Zenon DEF Init
  <2> QED BY <2>1, SeiAssumption DEF Init, RestInv
<1> QED BY <1>1, <1>3, <1>4 DEF Types

LEMMA HeightsNext == HeightInv /\ [Next]_vars => HeightInv'
<1> SUFFICES ASSUME HeightInv, [Next]_vars PROVE HeightInv' OBVIOUS
<1> USE SeiAssumption
<1>1. CASE NodeSavesBlock BY <1>1 DEF HeightInv, NodeSavesBlock
<1>2. CASE NodeSavesState BY <1>2 DEF HeightInv, NodeSavesState
<1>3. CASE Start
  <2>1. PICK keep \in Keeps : end' = Signed(PruneHeight(keep)) /\ huge' = (huge \/ keep > Word \div 2)
    BY <1>3 DEF Start
  <2>2. stateHeight \in 0..MaxHeight BY DEF HeightInv
  <2>3. end' \in -(Word \div 2)..(Word \div 2 - 1) BY <2>1, <2>2, EndRange
  <2>4. high' = Larger(high, end') /\ step' = 1 /\ UNCHANGED <<newest, stateHeight>> BY <1>3 DEF Start
  <2>5. high' \in 0..(Word \div 2 - 1) /\ end' <= high' BY <2>3, <2>4 DEF HeightInv, Larger
  <2>6. ASSUME ~huge' PROVE high' <= stateHeight'
    <3>1. ~huge /\ ~(keep > Word \div 2) BY <2>1, <2>6, Zenon
    <3>2. end' = stateHeight - keep BY <2>1, <2>2, <3>1, EndIsDifference
    <3>3. keep \in Nat BY SeiAssumption
    <3> QED BY <2>4, <3>1, <3>2, <3>3 DEF HeightInv, Larger
  <2> QED BY <2>3, <2>4, <2>5, <2>6 DEF HeightInv
<1>4. CASE Pass BY <1>4 DEF HeightInv, Pass
<1>5. CASE PassFails BY <1>5 DEF HeightInv, PassFails
<1>6. CASE Finish BY <1>6 DEF HeightInv, Finish
<1>7. CASE Kill BY <1>7 DEF HeightInv, Kill
<1>8. CASE UNCHANGED vars BY <1>8 DEF HeightInv, vars
<1> QED BY <1>1, <1>2, <1>3, <1>4, <1>5, <1>6, <1>7, <1>8 DEF Next

LEMMA StoreNext == HeightInv /\ StoreInv /\ [Next]_vars => StoreInv'
<1> SUFFICES ASSUME HeightInv, StoreInv, [Next]_vars PROVE StoreInv' OBVIOUS
<1> USE SeiAssumption
<1>1. CASE NodeSavesBlock BY <1>1 DEF HeightInv, StoreInv, NodeSavesBlock
<1>2. CASE NodeSavesState BY <1>2 DEF HeightInv, StoreInv, NodeSavesState
<1>3. CASE Pass BY <1>3, SequenceFacts DEF StoreInv, Pass, Deleted
<1>4. CASE UNCHANGED stored BY <1>4 DEF StoreInv
<1> QED BY <1>1, <1>2, <1>3, <1>4 DEF Next, Start, PassFails, Finish, Kill, vars

LEMMA RestNext == RestInv /\ [Next]_vars => RestInv'
<1> SUFFICES ASSUME RestInv, [Next]_vars PROVE RestInv' OBVIOUS
<1>1. CASE Start
  <2>1. PICK keep \in Keeps : huge' = (huge \/ keep > Word \div 2) BY <1>1 DEF Start
  <2>2. huge' \in BOOLEAN BY <2>1, Zenon
  <2>3. lost' \in {"never", "before"} /\ prunes' = prunes + 1 /\ prunes < MaxPrunes /\ result' = "none"
    BY <1>1 DEF Start
  <2> QED BY <2>2, <2>3, SeiAssumption DEF RestInv
<1>2. CASE Next /\ ~Start
  BY <1>2 DEF RestInv, Next, NodeSavesBlock, NodeSavesState, Pass, PassFails, Finish, Kill
<1>3. CASE UNCHANGED vars BY <1>3 DEF RestInv, vars
<1> QED BY <1>1, <1>2, <1>3

LEMMA TypesNext == Types /\ [Next]_vars => Types'
BY HeightsNext, StoreNext, RestNext DEF Types

(* Type correctness of the Sei prune, for every --keep-blocks of 64 bits:  *)
(* the end of a range is a signed number, the stores hold heights that the *)
(* node can have written, and its two heights are never further apart than *)
(* a block.                                                                *)
THEOREM SeiTypes == Spec => []TypeOK
<1>1. Types => TypeOK
  BY SeiAssumption DEF Types, HeightInv, StoreInv, RestInv, TypeOK
<1> QED BY <1>1, TypesInit, TypesNext, PTL DEF Spec
----------------------------------------------------------------------------
(* What is kept. *)

KeptInv == \A p \in Prefixes : \A h \in Written(p) : h >= high => h \in stored[p]

LEMMA KeptInit == Init => KeptInv
BY SeiAssumption DEF Init, KeptInv

LEMMA KeptNext == Types /\ KeptInv /\ [Next]_vars => KeptInv'
<1> SUFFICES ASSUME Types, KeptInv, [Next]_vars PROVE KeptInv' OBVIOUS
<1> USE SeiAssumption DEF Types, HeightInv, StoreInv
<1>1. CASE NodeSavesBlock BY <1>1 DEF KeptInv, NodeSavesBlock, Written
<1>2. CASE NodeSavesState BY <1>2 DEF KeptInv, NodeSavesState, Written
<1>3. CASE Start
  <2>1. high' \in Int /\ high' >= high /\ UNCHANGED <<stored, newest, stateHeight>>
    <3>1. end' \in Int BY <1>3, HeightsNext
    <3> QED BY <1>3, <3>1 DEF Start, Larger
  <2>2. \A p \in Prefixes : Written(p)' = Written(p) /\ Written(p) \subseteq Int BY <2>1 DEF Written
  <2> QED BY <2>1, <2>2 DEF KeptInv
<1>4. CASE Pass
  <2>1. UNCHANGED <<newest, stateHeight, high>> BY <1>4 DEF Pass
  <2>2. ASSUME NEW p \in Prefixes, NEW h \in stored[p], h >= high PROVE h \in stored'[p]
    <3>1. h \notin Deleted(p) BY <2>2 DEF Deleted, InRange
    <3> QED BY <1>4, <2>2, <3>1, SequenceFacts DEF Pass
  <2>3. \A p \in Prefixes : Written(p)' = Written(p) BY <2>1 DEF Written
  <2> QED BY <2>1, <2>2, <2>3 DEF KeptInv
<1>5. CASE UNCHANGED <<stored, newest, stateHeight, high>> BY <1>5 DEF KeptInv, Written
<1> QED BY <1>1, <1>2, <1>3, <1>4, <1>5 DEF Next, PassFails, Finish, Kill, vars

(* As long as no run was given a --keep-blocks above 2^63, the largest end *)
(* is not above the height of the state, and nothing from it on is ever    *)
(* deleted: the newest block stays, and a chain younger than --keep-blocks *)
(* is untouched.                                                           *)
THEOREM SeiKept == Spec => []KeptUntouched
<1>1. Types /\ KeptInv => KeptUntouched BY DEF Types, HeightInv, KeptInv, KeptUntouched
<1> QED BY <1>1, TypesInit, TypesNext, KeptInit, KeptNext, PTL DEF Spec

----------------------------------------------------------------------------
(* What is gone. *)

(* Of the prefixes behind it, a run that lost no batch has left nothing    *)
(* below its end.                                                          *)
GoneInv == lost # "now" => \A i \in 1..6 : i < step => \A h \in stored[Sequence[i]] : h >= end

LEMMA GoneInit == Init => GoneInv
BY DEF Init, GoneInv

LEMMA GoneNext == Types /\ GoneInv /\ [Next]_vars => GoneInv'
<1> SUFFICES ASSUME Types, GoneInv, [Next]_vars PROVE GoneInv' OBVIOUS
<1> USE SeiAssumption, SequenceFacts DEF Types, HeightInv, StoreInv
<1>1. CASE NodeSavesBlock BY <1>1 DEF GoneInv, NodeSavesBlock
<1>2. CASE NodeSavesState BY <1>2 DEF GoneInv, NodeSavesState
<1>3. CASE Start BY <1>3 DEF GoneInv, Start
<1>4. CASE Pass
  <2>1. result' = result /\ end' = end /\ step' = step + 1 /\ step \in 1..6 BY <1>4 DEF Pass
  <2>2. \A p \in Prefixes : stored'[p] \subseteq stored[p] BY <1>4 DEF Pass, Deleted
  <2>3. ASSUME lost' # "now" PROVE lost # "now" /\ \A h \in stored'[Sequence[step]] : h >= end
    <3>1. lost # "now" /\ stored'[Sequence[step]] = stored[Sequence[step]] \ Deleted(Sequence[step])
      BY <1>4, <2>3 DEF Pass
    <3> QED BY <3>1, <2>1 DEF Deleted, InRange
  <2>4. ASSUME lost' # "now", NEW i \in 1..6, i < step', NEW h \in stored'[Sequence[i]] PROVE h >= end'
    <3>1. CASE i = step BY <2>1, <2>3, <2>4, <3>1
    <3>2. CASE i < step BY <2>1, <2>2, <2>3, <2>4, <3>2 DEF GoneInv
    <3> QED BY <2>1, <2>4, <3>1, <3>2
  <2> QED BY <2>4 DEF GoneInv
<1>5. CASE PassFails BY <1>5 DEF GoneInv, PassFails
<1>6. CASE Finish BY <1>6 DEF GoneInv, Finish
<1>7. CASE Kill BY <1>7 DEF GoneInv, Kill
<1>8. CASE UNCHANGED vars BY <1>8 DEF GoneInv, vars
<1> QED BY <1>1, <1>2, <1>3, <1>4, <1>5, <1>6, <1>7, <1>8 DEF Next

(* A run about to return nil that lost no batch has left nothing below its *)
(* end, whatever the runs before it had left and --keep-blocks is.         *)
THEOREM SeiNothingOldLeft == Spec => []NothingOldLeft
<1>1. GoneInv => NothingOldLeft
  <2>1. ASSUME GoneInv, step = 7, lost # "now", NEW p \in Prefixes, NEW h \in stored[p]
        PROVE  h >= end
    BY <2>1, SequenceFacts DEF GoneInv
  <2> QED BY <2>1 DEF NothingOldLeft
<1> QED BY <1>1, TypesInit, TypesNext, GoneInit, GoneNext, PTL DEF Spec

----------------------------------------------------------------------------
(* The blocks that are left can be used. *)

(* Headers are deleted first: when a later prefix is reached, no header is *)
(* left below the end.                                                     *)
UsableInv ==
  /\ stored["meta"] \subseteq 0..newest
  /\ BlocksUsable

LEMMA UsableInit == Init => UsableInv
BY SeiAssumption DEF Init, UsableInv, BlocksUsable, Written

LEMMA UsableNext == Types /\ KeptInv /\ GoneInv /\ UsableInv /\ [Next]_vars => UsableInv'
<1> SUFFICES ASSUME Types, KeptInv, GoneInv, UsableInv, [Next]_vars PROVE UsableInv' OBVIOUS
<1> USE SeiAssumption, SequenceFacts DEF Types, HeightInv, StoreInv
<1>1. CASE NodeSavesBlock BY <1>1 DEF UsableInv, BlocksUsable, NodeSavesBlock
<1>2. CASE NodeSavesState
  <2>1. /\ stateHeight' = newest /\ stateHeight + 1 = newest
        /\ newest' = newest /\ lost' = lost /\ huge' = huge
    BY <1>2 DEF NodeSavesState
  <2>2. stored'["meta"] = stored["meta"] /\ \A p \in Prefixes : stored[p] \subseteq stored'[p]
    BY <1>2 DEF NodeSavesState
  <2>3. stored'["part"] = stored["part"] /\ stored'["commit"] = stored["commit"]
    BY <1>2 DEF NodeSavesState
  <2>4. ASSUME ~huge PROVE \A p \in StatePrefixes : newest \in stored'[p]
    <3>1. newest \in Written("params") /\ newest \in Written("validators") /\ newest >= high
      BY <2>1, <2>4 DEF Written
    <3>2. newest \in stored["params"] /\ newest \in stored["validators"] BY <3>1 DEF KeptInv
    <3>3. newest \in stored'["responses"] BY <1>2 DEF NodeSavesState
    <3> QED BY <2>2, <3>2, <3>3
  <2> QED BY <2>1, <2>2, <2>3, <2>4 DEF UsableInv, BlocksUsable
<1>3. CASE Pass
  <2>1. UNCHANGED <<newest, stateHeight, end>> /\ step \in 1..6 BY <1>3 DEF Pass
  <2>2. \A p \in Prefixes : stored'[p] \subseteq stored[p] BY <1>3 DEF Pass, Deleted
  <2>3. ASSUME lost' = "never", NEW h \in stored'["meta"], NEW p \in Prefixes, h \in stored[p]
        PROVE  lost = "never" /\ h \in stored'[p]
    <3>1. lost = "never" /\ stored' = [stored EXCEPT ![Sequence[step]] = @ \ Deleted(Sequence[step])]
      BY <1>3, <2>3 DEF Pass
    <3>2. h >= end
      <4>1. CASE step = 1 BY <2>3, <3>1, <4>1 DEF Deleted, InRange
      <4>2. CASE step > 1 BY <2>1, <2>2, <2>3, <3>1, <4>2 DEF GoneInv
      <4> QED BY <2>1, <4>1, <4>2
    <3>3. h \notin Deleted(p)
      <4>1. h \in Int BY <2>3
      <4> QED BY <3>2, <4>1 DEF Deleted, InRange
    <3> QED BY <2>3, <3>1, <3>3
  <2>4. stored'["meta"] \subseteq 0..newest' BY <2>1, <2>2 DEF UsableInv
  <2>5. huge' = huge /\ (lost' = "never" => lost = "never") BY <1>3 DEF Pass
  <2>6. BlocksUsable' BY <2>1, <2>2, <2>3, <2>5 DEF UsableInv, BlocksUsable
  <2> QED BY <2>4, <2>6 DEF UsableInv
<1>4. CASE Start
  <2>1. /\ UNCHANGED <<stored, newest, stateHeight>>
        /\ lost' = "never" => lost = "never"
        /\ huge => huge'
    <3>1. huge => huge' BY <1>4, Zenon DEF Start
    <3> QED BY <1>4, <3>1 DEF Start
  <2> QED BY <2>1 DEF UsableInv, BlocksUsable
<1>5. CASE UNCHANGED <<stored, newest, stateHeight, lost, huge>> BY <1>5 DEF UsableInv, BlocksUsable
<1> QED BY <1>1, <1>2, <1>3, <1>4, <1>5 DEF Next, PassFails, Finish, Kill, vars

(* As long as no batch is lost and no --keep-blocks is above 2^63, a       *)
(* header never stays without the parts, the commit and the state entries  *)
(* of its height.                                                          *)
THEOREM SeiBlocksUsable == Spec => []BlocksUsable
<1>1. UsableInv => BlocksUsable BY DEF UsableInv
<1> QED
  BY <1>1, TypesInit, TypesNext, KeptInit, KeptNext, GoneInit, GoneNext, UsableInit, UsableNext,
     PTL DEF Spec
=============================================================================

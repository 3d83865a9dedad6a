------------------------------ MODULE SeiPrune ------------------------------
(***************************************************************************)
(* pruneSeiBlockAndStateStore: on a Sei chain the main goroutine prunes    *)
(* three prefixes of the block store and then three of the state store,    *)
(* each with one batch.  Keys are orderedcode, so that the order of bytes  *)
(* is that of signed numbers.  A run may fail or be killed anywhere and be *)
(* repeated with other flags, and the node goes on between the runs.       *)
(***************************************************************************)
EXTENDS Integers

CONSTANTS
  Word,         \* 2^64 in the code
  Base,         \* the first height the node has
  StartHeight,  \* bound: its height at the start
  MaxHeight,    \* bound: the last height
  Keeps,        \* the values of --keep-blocks, a uint64
  MaxPrunes     \* bound: how often the command is run

ASSUME SeiAssumption ==
  /\ Base \in Nat \ {0} /\ StartHeight \in Nat /\ MaxHeight \in Nat
  /\ Base <= StartHeight /\ StartHeight <= MaxHeight
  /\ Word \in Nat /\ Word % 2 = 0 /\ MaxHeight < Word \div 2
  /\ Keeps \subseteq 0..(Word - 1) /\ MaxPrunes \in Nat

BlockPrefixes == {"meta", "part", "commit"}
StatePrefixes == {"params", "responses", "validators"}
Prefixes == BlockPrefixes \cup StatePrefixes

(* Mutant of Sequence: the state store comes first. *)
SequenceStateFirst == <<"params", "responses", "validators", "meta", "part", "commit">>

(* The two loops. *)
Sequence == <<"meta", "part", "commit", "params", "responses", "validators">>

VARIABLES
  stored,       \* the heights stored under each prefix
  newest,       \* the newest block saved
  stateHeight,  \* LastBlockHeight in the state: newest, or one less after a death
  step,         \* the position in Sequence; 0 when no prune runs
  end,          \* endHeight of deleteSeiRange
  result,       \* how the latest run ended
  prunes,
  high,         \* history: the largest end so far
  lost,         \* history: a batch was not written, "never", in a run "before", or "now"
  huge          \* history: a run was given a --keep-blocks that is negative as an int64

vars == <<stored, newest, stateHeight, step, end, result, prunes, high, lost, huge>>

(* External: the heights that the node has written under each prefix.      *)
(* SaveBlock(h) writes the commit of h - 1; saving the state at h writes   *)
(* the parameters for h + 1 and the validators for h + 2.                  *)
Written(p) ==
  CASE p \in {"meta", "part"} -> Base..newest
    [] p = "commit"           -> (Base - 1)..(newest - 1)
    [] p = "responses"        -> Base..stateHeight
    [] p = "params"           -> Base..(stateHeight + 1)
    [] p = "validators"       -> Base..(stateHeight + 2)

TypeOK ==
  /\ stored \in [Prefixes -> SUBSET (0..(MaxHeight + 2))]
  /\ newest \in Base..MaxHeight /\ stateHeight \in (Base - 1)..MaxHeight
  /\ step \in 0..7
  /\ end \in -(Word \div 2)..(Word \div 2 - 1) /\ high \in 0..(Word \div 2 - 1)
  /\ result \in {"none", "ok", "failed", "killed"}
  /\ prunes \in 0..MaxPrunes
  /\ lost \in {"never", "before", "now"} /\ huge \in BOOLEAN

Init ==
  /\ newest = StartHeight /\ stateHeight = StartHeight
  /\ stored = [p \in Prefixes |-> Written(p)]
  /\ step = 0 /\ end = 0 /\ result = "none" /\ prunes = 0
  /\ high = 0 /\ lost = "never" /\ huge = FALSE

----------------------------------------------------------------------------
(* External: the node saves a block, and then the state after it; it may   *)
(* die between the two.                                                    *)

NodeSavesBlock ==
  /\ step = 0 /\ newest = stateHeight /\ newest < MaxHeight
  /\ newest' = newest + 1
  /\ stored' = [stored EXCEPT !["meta"] = @ \cup {newest + 1}, !["part"] = @ \cup {newest + 1},
                              !["commit"] = @ \cup {newest}]
  /\ UNCHANGED <<stateHeight, step, end, result, prunes, high, lost, huge>>

NodeSavesState ==
  /\ step = 0 /\ stateHeight < newest
  /\ stateHeight' = newest
  /\ stored' = [stored EXCEPT !["responses"] = @ \cup {newest}, !["params"] = @ \cup {newest + 1},
                              !["validators"] = @ \cup {newest + 2}]
  /\ UNCHANGED <<newest, step, end, result, prunes, high, lost, huge>>

----------------------------------------------------------------------------
(* uint64(LastBlockHeight) - keepBlocks; the conversion to int64 undoes    *)
(* the wrap for a --keep-blocks up to 2^63.  Above it, the end is negative *)
(* or higher than the newest block.                                        *)
PruneHeight(keep) == (stateHeight - keep) % Word

(* Mutant of Signed: the height stays unsigned. *)
SignedNever(n) == n
Signed(n) == IF n >= Word \div 2 THEN n - Word ELSE n

Larger(a, b) == IF a >= b THEN a ELSE b

Start ==
  /\ step = 0 /\ prunes < MaxPrunes
  /\ \E keep \in Keeps :
       /\ end' = Signed(PruneHeight(keep))
       /\ huge' = (huge \/ keep > Word \div 2)
  /\ step' = 1 /\ prunes' = prunes + 1 /\ result' = "none"
  /\ high' = Larger(high, end')
  /\ lost' = IF lost = "never" THEN "never" ELSE "before"
  /\ UNCHANGED <<stored, newest, stateHeight>>

(* Mutant of InRange: the end is included. *)
InRangeToEnd(h) == 0 <= h /\ h <= end

(* The heights whose keys lie between those of 0 and end.  Where end is    *)
(* negative its key comes first, and there are none.                       *)
InRange(h) == 0 <= h /\ h < end

Deleted(p) == {h \in stored[p] : InRange(h)}

(* Mutant of Pass: it stops at the first prefix with nothing to delete, as *)
(* deleteHeightRange does.                                                 *)
PassBreaks ==
  /\ step \in 1..6
  /\ LET p == Sequence[step]
     IN  /\ stored' = [stored EXCEPT ![p] = @ \ Deleted(p)]
         /\ step' = IF Deleted(p) = {} THEN 7 ELSE step + 1
  /\ UNCHANGED <<newest, stateHeight, end, result, prunes, high, lost, huge>>

(* deleteSeiRange: all keys of the range in one batch.  The error of Write *)
(* is not looked at: the keys count as pruned.                             *)
Pass ==
  /\ step \in 1..6
  /\ LET p == Sequence[step]
     IN  \/ stored' = [stored EXCEPT ![p] = @ \ Deleted(p)] /\ UNCHANGED lost
         \/ UNCHANGED stored /\ lost' = "now"
  /\ step' = step + 1
  /\ UNCHANGED <<newest, stateHeight, end, result, prunes, high, huge>>

(* The iterator or Delete returns an error: the batch is dropped, and the  *)
(* prefixes that follow are not pruned.                                    *)
PassFails ==
  /\ step \in 1..6
  /\ step' = 0 /\ result' = "failed"
  /\ UNCHANGED <<stored, newest, stateHeight, end, prunes, high, lost, huge>>

Finish ==
  /\ step = 7
  /\ step' = 0 /\ result' = "ok"
  /\ UNCHANGED <<stored, newest, stateHeight, end, prunes, high, lost, huge>>

Kill ==
  /\ step # 0
  /\ step' = 0 /\ result' = "killed"
  /\ UNCHANGED <<stored, newest, stateHeight, end, prunes, high, lost, huge>>

Next ==
  \/ NodeSavesBlock \/ NodeSavesState
  \/ Start \/ Pass \/ PassFails \/ Finish \/ Kill

Spec == Init /\ [][Next]_vars

----------------------------------------------------------------------------
(* Nothing from the largest end on is ever deleted, and that end is never  *)
(* above the height of the state, so that the newest block stays, for any  *)
(* --keep-blocks up to 2^63: a chain younger than it is not touched        *)
(* (sei.go:31, where the wrapped height becomes negative).  The flag is a  *)
(* uint64 (root.go:90): for one close to 2^64 the end is a positive int64  *)
(* above the newest block, and all blocks go.                              *)
KeptUntouched ==
  ~huge =>
    /\ high <= stateHeight
    /\ \A p \in Prefixes : \A h \in Written(p) : h >= high => h \in stored[p]

(* The hazard of two databases and six batches: at any point of any run,   *)
(* also a killed, failed or repeated one, a block whose header is left has *)
(* its parts and its commit, and what the state store had for its height   *)
(* (the loops go over headers first and over the state store last).  Only  *)
(* a batch whose write error was ignored (sei.go:96) breaks this, or what  *)
(* a node does whose newest block was deleted.                             *)
BlocksUsable ==
  lost = "never" /\ ~huge =>
    \A h \in stored["meta"] :
      /\ h \in stored["part"]
      /\ h < newest => h \in stored["commit"]
      /\ h <= stateHeight => \A p \in StatePrefixes : h \in stored[p]

(* When a run is about to return nil, nothing below its end is left, also  *)
(* where earlier runs were killed, failed or lost a batch, and whatever    *)
(* --keep-blocks is; unless it lost a batch itself.                        *)
NothingOldLeft ==
  step = 7 /\ lost # "now" =>
    \A p \in Prefixes : \A h \in stored[p] : h >= end
=============================================================================

----------------------------- MODULE CometPrune -----------------------------
(***************************************************************************)
(* The deletions of "cosmprund prune" (PruneCmtData up to g.Wait): three   *)
(* goroutines, one per database, that delete the keys of old heights, and  *)
(* the record of the block store that is moved last.  The node runs before *)
(* and between prunes (the lock of the databases excludes both at once),   *)
(* and a prune may fail, be killed, and be started again.                  *)
(***************************************************************************)
EXTENDS HeightRange, Sequences

CONSTANTS
  Starts,      \* [first, height, last, latest] of the node's stores
  Keeps,       \* the values of --keep-blocks
  MaxHeight,   \* bound: the node stops saving blocks at this height
  MaxRuns      \* bound: how many times the prune is started

(* A crash of the node leaves the application at most one height ahead of  *)
(* the state, and the block store no further than that and not behind.     *)
StartRecords == [first : Uint, height : Uint, last : Uint, latest : Uint]
Consistent(s) ==
  /\ 1 <= s.first /\ s.first <= s.last
  /\ s.last <= s.latest /\ s.latest <= s.height /\ s.height <= s.last + 1

ASSUME CometAssumption ==
  /\ Starts \subseteq StartRecords
  /\ \A s \in Starts : Consistent(s) /\ s.height <= MaxHeight
  /\ Keeps \subseteq Uint
  /\ MaxHeight \in Uint /\ MaxHeight + 1 < Word \div 2
  /\ MaxRuns \in Nat

(* blockKeyInfos, stateKeyInfos and appKeyInfos: what each goroutine walks *)
(* through, in this order.                                                 *)
Jobs == {"block", "state", "application"}
blockKeyInfos == <<"H:", "C:", "EC:", "SC:", "P:">>
stateKeyInfos == <<"abciResponsesKey:", "consensusParamsKey:">>
appKeyInfos   == <<"s/">>
KeyInfos(g) ==
  CASE g = "block" -> blockKeyInfos
    [] g = "state" -> stateKeyInfos
    [] g = "application" -> appKeyInfos

BlockKeys == {"H:", "C:", "EC:", "SC:", "P:"}
StateKeys == {"abciResponsesKey:", "consensusParamsKey:"}
RangeKeys(g) ==
  CASE g = "block" -> BlockKeys [] g = "state" -> StateKeys [] g = "application" -> {"s/"}
Prefixes == BlockKeys \cup StateKeys \cup {"s/", "BH:"}

(* asciiHeightParserTwoParts for block parts, asciiHeightParser otherwise. *)
ShapeOf(p) == IF p = "P:" THEN "colon" ELSE "number"

(* uint64 subtraction. *)
Minus(a, b) == IF a >= b THEN a - b ELSE a - b + Word

VARIABLES
  (* what the databases hold *)
  keys,     \* the heights of the keys of each prefix
  bsj,      \* the key "blockStore": the record [base, height]
  last,     \* LastBlockHeight in the key "stateKey"
  latest,   \* the version in the key "s/latest"
  (* what the node was *)
  first,    \* the lowest height it ever held
  height,   \* the newest block it saved
  (* the process *)
  pc,       \* "idle", or "prune" between the start of the goroutines and g.Wait
  target,   \* pruneHeight
  status,   \* of each goroutine
  at,       \* the index of the key info that it works on
  digits,   \* the loop variable of its deleteHeightRange
  copy,     \* bsj in the memory of pruneBlockStore
  result,   \* how the latest run ended
  (* history *)
  high,     \* the largest height each goroutine was ever told to delete
  misread,  \* a Get of "blockStore" failed in some run
  runs      \* how many runs were started

dbVars   == <<keys, bsj, last, latest>>
nodeVars == <<last, latest, first, height>>
jobVars  == <<status, at, digits>>
vars == <<keys, bsj, last, latest, first, height, pc, target, status, at,
          digits, copy, result, high, misread, runs>>

Records  == [base : Int, height : Int]
NoRecord == [base |-> 0, height |-> 0]
Statuses == {"open", "scan", "hashes", "base", "done", "failed"}

TypeOK ==
  /\ keys \in [Prefixes -> SUBSET Int]
  /\ bsj \in Records /\ copy \in Records
  /\ last \in Uint /\ latest \in Uint /\ first \in Uint /\ height \in Uint
  /\ height <= MaxHeight
  /\ pc \in {"idle", "prune"}
  /\ target \in Uint
  /\ status \in [Jobs -> Statuses]
  /\ at \in [Jobs -> 1..5] /\ \A g \in Jobs : at[g] <= Len(KeyInfos(g))
  /\ digits \in [Jobs -> 1..MaxDigits]
  /\ result \in {"none", "ok", "error", "crashed"}
  /\ high \in [Jobs -> Uint]
  /\ misread \in BOOLEAN
  /\ runs \in 0..MaxRuns

(* The newest height for which the node has written a key of the prefix:   *)
(* the commit of a block is stored with the block after it, the parameters *)
(* of the next block with the state.                                       *)
Newest(p) ==
  CASE p \in {"H:", "EC:", "SC:", "P:", "BH:"} -> height
    [] p = "C:" -> height - 1
    [] p = "abciResponsesKey:" -> latest
    [] p = "consensusParamsKey:" -> last + 1
    [] p = "s/" -> latest

Init ==
  /\ \E s \in Starts :
       /\ first = s.first /\ height = s.height /\ last = s.last /\ latest = s.latest
       /\ bsj = [base |-> s.first, height |-> s.height]
  /\ keys = [p \in Prefixes |-> (IF p = "C:" THEN first - 1 ELSE first)..Newest(p)]
  /\ pc = "idle" /\ target = 0
  /\ status = [g \in Jobs |-> "done"] /\ at = [g \in Jobs |-> 1]
  /\ digits = [g \in Jobs |-> 1]
  /\ copy = NoRecord /\ result = "none"
  /\ high = [g \in Jobs |-> 0] /\ misread = FALSE /\ runs = 0

----------------------------------------------------------------------------
(* The node, while no prune runs (external). *)

With(ps, h) == [p \in Prefixes |-> IF p \in ps THEN keys[p] \cup {h} ELSE keys[p]]

NodeSavesBlock ==
  /\ pc = "idle" /\ height = last /\ latest = last /\ height < MaxHeight
  /\ height' = height + 1
  /\ keys' = [p \in Prefixes |->
                 IF p = "C:" THEN keys[p] \cup {height}
                 ELSE With({"H:", "EC:", "SC:", "P:", "BH:"}, height + 1)[p]]
  /\ bsj' = [bsj EXCEPT !.height = height + 1]
  /\ UNCHANGED <<last, latest, first, pc, target, jobVars, copy, result, high, misread, runs>>

NodeCommitsApplication ==
  /\ pc = "idle" /\ latest < height
  /\ latest' = latest + 1
  /\ keys' = With({"abciResponsesKey:", "s/"}, latest + 1)
  /\ UNCHANGED <<bsj, last, first, height, pc, target, jobVars, copy, result, high, misread, runs>>

NodeSavesState ==
  /\ pc = "idle" /\ last < latest
  /\ last' = last + 1
  /\ keys' = With({"consensusParamsKey:"}, last + 2)
  /\ UNCHANGED <<bsj, latest, first, height, pc, target, jobVars, copy, result, high, misread, runs>>

----------------------------------------------------------------------------
(* The prune. *)

(* Mutant of EndFor: the application goroutine uses pruneHeight itself. *)
EndForNoMinusOne(g, t) == t

(* endHeight of the calls of deleteHeightRange: pruneAppStore takes one    *)
(* off, so that the version of the last block survives --keep-blocks 0.    *)
EndFor(g, t) == IF g = "application" THEN Minus(t, 1) ELSE t
EndOf(g) == EndFor(g, target)

Larger(a, b) == IF a >= b THEN a ELSE b

(* PruneCmtData computes pruneHeight from the state and starts the three   *)
(* goroutines.                                                             *)
Start(k) ==
  /\ pc = "idle" /\ runs < MaxRuns
  /\ pc' = "prune" /\ runs' = runs + 1 /\ result' = "none"
  /\ target' = Minus(last, k)
  /\ status' = [g \in Jobs |-> IF g = "block" THEN "open" ELSE "scan"]
  /\ at' = [g \in Jobs |-> 1]
  /\ digits' = [g \in Jobs |-> NumDigits(EndFor(g, target'))]
  /\ high' = [g \in Jobs |-> Larger(high[g], EndFor(g, target'))]
  /\ UNCHANGED <<dbVars, first, height, copy, misread>>

(* pruneBlockStore reads the record.  An error of Get is printed and       *)
(* ignored: no bytes unmarshal to the zero record.                         *)
ReadRecord ==
  /\ pc = "prune" /\ status["block"] = "open"
  /\ status' = [status EXCEPT !["block"] = "scan"]
  /\ \/ copy' = bsj /\ UNCHANGED misread
     \/ copy' = NoRecord /\ misread' = TRUE
  /\ UNCHANGED <<dbVars, first, height, pc, target, at, digits, result, high, runs>>

(* Mutant of KeysDone: out of the loop after any key info. *)
KeysDoneEarly(g) ==
  /\ status' = [status EXCEPT ![g] = IF g = "block" THEN "hashes" ELSE "done"]
  /\ UNCHANGED <<at, digits>>

(* Where a goroutine goes after a call of deleteHeightRange: to the next   *)
(* key info, or out of pruneKeys.                                          *)
NextKey(g) ==
  /\ at[g] < Len(KeyInfos(g))
  /\ at' = [at EXCEPT ![g] = @ + 1]
  /\ digits' = [digits EXCEPT ![g] = NumDigits(EndOf(g))]
  /\ UNCHANGED status
KeysDone(g) ==
  /\ at[g] = Len(KeyInfos(g))
  /\ status' = [status EXCEPT ![g] = IF g = "block" THEN "hashes" ELSE "done"]
  /\ UNCHANGED <<at, digits>>

(* One pass of deleteHeightRange, up to its batch write. *)
Scan(g) ==
  /\ pc = "prune" /\ status[g] = "scan"
  /\ \E rangeEnd \in RangeEnds(EndOf(g), digits[g]) :
       LET p == KeyInfos(g)[at[g]]
           deleted == PassDeletes(ShapeOf(p), keys[p], EndOf(g), digits[g], rangeEnd)
       IN  /\ keys' = [keys EXCEPT ![p] = @ \ deleted]
           /\ \/ /\ GoesOn(digits[g], rangeEnd, deleted)
                 /\ digits' = [digits EXCEPT ![g] = @ - 1]
                 /\ UNCHANGED <<at, status>>
              \/ /\ ~GoesOn(digits[g], rangeEnd, deleted)
                 /\ NextKey(g) \/ KeysDone(g)
  /\ UNCHANGED <<bsj, nodeVars, pc, target, copy, result, high, misread, runs>>

(* The iterator or the batch of a pass returns an error; the goroutine     *)
(* returns it.  The batch is applied when the error comes after its write. *)
ScanFails(g) ==
  /\ pc = "prune" /\ status[g] = "scan"
  /\ status' = [status EXCEPT ![g] = "failed"]
  /\ \E rangeEnd \in RangeEnds(EndOf(g), digits[g]) :
       LET p == KeyInfos(g)[at[g]]
           deleted == PassDeletes(ShapeOf(p), keys[p], EndOf(g), digits[g], rangeEnd)
       IN  /\ RangeStart(digits[g]) <= rangeEnd
           /\ keys' \in {keys, [keys EXCEPT ![p] = @ \ deleted]}
  /\ UNCHANGED <<bsj, nodeVars, pc, target, at, digits, copy, result, high, misread, runs>>

(* deleteAllByPrefix("BH:"): the hashes of all blocks, kept ones included. *)
DeleteHashes ==
  /\ pc = "prune" /\ status["block"] = "hashes"
  /\ \/ /\ keys' = [keys EXCEPT !["BH:"] = {}]
        /\ status' = [status EXCEPT !["block"] = "base"]
     \/ /\ status' = [status EXCEPT !["block"] = "failed"]
        /\ UNCHANGED keys
  /\ UNCHANGED <<bsj, nodeVars, pc, target, at, digits, copy, result, high, misread, runs>>

(* Mutant of NewBase: the pruned height itself. *)
NewBasePruned(t) == IF t < Word \div 2 THEN t ELSE t - Word

(* int64(pruneHeight) + 1, in two's complement. *)
NewBase(t) == IF t + 1 < Word \div 2 THEN t + 1 ELSE t + 1 - Word

(* Mutant of WriteRecord: the record keeps only the base. *)
WriteRecordBaseOnly ==
  /\ pc = "prune" /\ status["block"] = "base"
  /\ bsj' = [NoRecord EXCEPT !.base = NewBase(target)]
  /\ status' = [status EXCEPT !["block"] = "done"]
  /\ UNCHANGED <<keys, nodeVars, pc, target, at, digits, copy, result, high, misread, runs>>

(* The record in memory gets its new base and is written with a sync.      *)
WriteRecord ==
  /\ pc = "prune" /\ status["block"] = "base"
  /\ bsj' = [copy EXCEPT !.base = NewBase(target)]
  /\ status' = [status EXCEPT !["block"] = "done"]
  /\ UNCHANGED <<keys, nodeVars, pc, target, at, digits, copy, result, high, misread, runs>>

(* The memory of the process is gone. *)
Forget ==
  /\ pc' = "idle"
  /\ status' = [g \in Jobs |-> "done"] /\ at' = [g \in Jobs |-> 1]
  /\ digits' = [g \in Jobs |-> 1] /\ copy' = NoRecord

(* g.Wait: all goroutines have returned, an error of any is the result.    *)
Wait ==
  /\ pc = "prune" /\ \A g \in Jobs : status[g] \in {"done", "failed"}
  /\ Forget
  /\ result' = IF \E g \in Jobs : status[g] = "failed" THEN "error" ELSE "ok"
  /\ UNCHANGED <<dbVars, first, height, target, high, misread, runs>>

(* The process is killed, or panics (a record that cannot be parsed or     *)
(* written): the databases keep what was written.                          *)
Crash ==
  /\ pc = "prune"
  /\ Forget /\ result' = "crashed"
  /\ UNCHANGED <<dbVars, first, height, target, high, misread, runs>>

NodeStep == NodeSavesBlock \/ NodeCommitsApplication \/ NodeSavesState
JobStep(g) == Scan(g) \/ (g = "block" /\ (ReadRecord \/ DeleteHashes \/ WriteRecord))

Next ==
  \/ NodeStep
  \/ \E k \in Keeps : Start(k)
  \/ \E g \in Jobs : JobStep(g) \/ ScanFails(g)
  \/ Wait \/ Crash

Spec == Init /\ [][Next]_vars

----------------------------------------------------------------------------
(* What the prune must never do, whatever it is interrupted by. *)

(* The node never loses a height above the largest one it asked to prune:  *)
(* whatever runs were made, failed or killed, with whatever --keep-blocks, *)
(* every prefix still holds the heights from there (or from the first one  *)
(* of the node) to the newest, although the byte ranges of the passes      *)
(* cover larger heights (generic_chain.go:214-226).                        *)
Window(g, p) == Larger(first, high[g] + 1)..Newest(p)
WindowIntact == \A g \in Jobs : \A p \in RangeKeys(g) : Window(g, p) \subseteq keys[p]

(* The commit info of the version in s/latest is never deleted, not even   *)
(* by --keep-blocks 0 on a node whose application is level with its state: *)
(* that is what the -1 of pruneAppStore is for (generic_chain.go:109).     *)
(* Without it the application cannot be loaded again.                      *)
LatestVersionKept == latest \in keys["s/"]

(* After a run that returned nil, the blocks from the base written to the  *)
(* record to the newest block are all there: also when the run repeats one *)
(* that was killed or failed half way, as long as no earlier run asked for *)
(* more than this one and the base did not fall below the first height.    *)
BaseHonest ==
  result = "ok" /\ high["block"] = target /\ first <= target + 1 =>
    \A p \in BlockKeys : \A h \in bsj.base..Newest(p) : h \in keys[p]

(* The record is written back from a copy read before the deletions; its   *)
(* height stays the height of the newest block, unless a failed Get was    *)
(* ignored (generic_chain.go:53-56).                                       *)
HeightRecordKept == ~misread => bsj.height = height

(* The run that wrote the record was past all its deletions: a base that   *)
(* has moved to the present target is never seen beside a block prefix     *)
(* that was not walked through (generic_chain.go:68-92).  So a killed run  *)
(* leaves a base that is too low, never one that hides keys still to go.   *)
BaseLast ==
  [][ bsj'.base # bsj.base =>
        /\ keys["BH:"] = {}
        /\ \A p \in BlockKeys :
             \A h \in keys[p] : h <= target /\ h >= Power(NumDigits(target) - 1) =>
               h \in {target, Power(NumDigits(target)) - 1} ]_vars

(* The promise of the flag (root.go:90, "set the amount of blocks to       *)
(* keep"): the newest blocks are kept, so the newest block of all is       *)
(* there whenever at least one is to be kept.                              *)
NewestBlockKept ==
  (\A k \in Keeps : k >= 1) => \A p \in {"H:", "P:", "SC:"} : height \in keys[p]
=============================================================================

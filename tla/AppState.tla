------------------------------ MODULE AppState ------------------------------
(***************************************************************************)
(* PruneAppState: while the node is down, the pruner mounts the stores of  *)
(* the latest commit info, loads them and has PruneStores delete their old *)
(* versions.  The node runs before, between and after the prunes.          *)
(***************************************************************************)
EXTENDS MultiStore

CONSTANTS
  Keeps,       \* the values of --keep-versions, a uint64
  Word,        \* 2^64
  MaxPrunes    \* bound: how often the pruner is run

ASSUME AppStateAssumption ==
  /\ Word \in Nat /\ Word % 2 = 0
  /\ MaxVersion + 1 < Word \div 2   \* versions are int64, and few
  /\ Keeps \subseteq 0..(Word - 1)
  /\ MaxPrunes \in Nat

VARIABLES
  keepVersions,   \* the flag of the latest run
  mounted,        \* the stores that it mounted
  result,         \* how it ended
  prunes,
  overtaken       \* history: a prune took its height from a store ahead of s/latest

pruneVars == <<keepVersions, mounted, result, prunes, overtaken>>
vars == <<storeVars, pruneVars>>

TypeOK ==
  /\ StoreTypeOK
  /\ keepVersions \in Keeps \cup {0}
  /\ mounted \in SUBSET Names
  /\ result \in {"none", "done", "failed", "panicked", "killed"}
  /\ prunes \in 0..MaxPrunes
  /\ overtaken \in BOOLEAN

Init ==
  /\ StoreInit
  /\ keepVersions = 0 /\ mounted = {} /\ result = "none" /\ prunes = 0
  /\ overtaken = FALSE

(* Mutant of HasData: the stores without a hash are mounted as well. *)
HasAnyName(s) == TRUE

(* Leaked in-memory stores have an empty hash. *)
HasData(s) == s \notin Leaked

(* The stores to mount; none before the first commit. *)
StoreNames == {s \in DOMAIN infos[latest] : HasData(s)}

LargerOf(a, b) == IF a >= b THEN a ELSE b

(* The int64 with the bits of a uint64. *)
Signed(n) == IF n >= Word \div 2 THEN n - Word ELSE n

(* Mutant of Idx: one past the last version. *)
IdxPastEnd(n, keep) == LargerOf(Signed((n - keep) % Word), n)

(* The index, into n versions from the oldest on, of the first to be kept. *)
(* The flag is converted to int64, and the subtraction wraps.              *)
Idx(n, keep) == LargerOf(Signed((n - keep) % Word), n - 1)

(* v64[idx] of a list of versions: those for which the index is in range. *)
At(S, idx) == {v \in S : Cardinality({w \in S : w < v}) = idx}
FirstKept(s) == At(versions[s], Idx(Cardinality(versions[s]), keepVersions'))

StartPrune ==
  /\ proc = "down" /\ prunes < MaxPrunes
  /\ prunes' = prunes + 1 /\ keepVersions' \in Keeps
  /\ mounted' = StoreNames

(* LoadLatestVersion fails, and with it the command. *)
LoadFails ==
  /\ StartPrune
  /\ \E s \in StoreNames : ~CanLoad(s, latest)
  /\ result' = "failed"
  /\ UNCHANGED <<storeVars, overtaken>>

(* No store is mounted, so there are no versions. *)
NothingToPrune ==
  /\ StartPrune
  /\ StoreNames = {}
  /\ result' = "done"
  /\ UNCHANGED <<storeVars, overtaken>>

(* The index is out of range. *)
Panics ==
  /\ StartPrune
  /\ \A s \in StoreNames : CanLoad(s, latest)
  /\ \E s \in StoreNames : FirstKept(s) = {}
  /\ result' = "panicked"
  /\ UNCHANGED <<storeVars, overtaken>>

(* GetAllVersions answers for one of the stores, in the order of a Go map; *)
(* PruneStores does nothing for a height below 1.                          *)
BeginPrune ==
  /\ StartPrune
  /\ \A s \in StoreNames : CanLoad(s, latest)
  /\ \E s \in StoreNames :
       \E v \in FirstKept(s) :
         /\ to' = v - 1
         /\ todo' = IF v - 1 <= 0 THEN {} ELSE StoreNames
         /\ overtaken' = (overtaken \/ v > latest)
  /\ proc' = "pruning" /\ result' = "none" /\ skipped' = {}
  /\ UNCHANGED <<versions, infos, latest, mounts, tree, ids, stops>>

PruneEnds ==
  /\ proc = "pruning" /\ todo = {}
  /\ result' = "done" /\ Forget
  /\ UNCHANGED <<versions, infos, latest, mounts, skipped, stops, keepVersions, mounted, prunes, overtaken>>

PrunerKilled ==
  /\ proc = "pruning" /\ "pruner" \in Kills
  /\ result' = "killed" /\ Forget
  /\ UNCHANGED <<versions, infos, latest, mounts, skipped, stops, keepVersions, mounted, prunes, overtaken>>

Next ==
  \/ NodeNext /\ UNCHANGED pruneVars
  \/ LoadFails \/ NothingToPrune \/ Panics \/ BeginPrune \/ PruneEnds \/ PrunerKilled

Spec == Init /\ [][Next]_vars

(* The node is started again between the prunes, and a prune comes to its  *)
(* end or is killed.                                                       *)
FairSpec == Spec /\ NodeFairness /\ WF_vars(PruneEnds)

----------------------------------------------------------------------------
(* Properties. *)

(* The latest version loads in every store, whatever died and whatever     *)
(* failed, unless a prune took its height from a store that an interrupted *)
(* commit had left ahead.                                                  *)
LatestLoadsUnlessOvertaken == ~overtaken => LatestLoadable

(* A completed prune leaves no version, up to the latest one, in some of   *)
(* its stores and not in the others, save for those whose deletion failed: *)
(* what is left in a store can be loaded.  This holds also after prunes    *)
(* that were killed halfway, and for stores that an upgrade added.         *)
LeftVersionsLoad ==
  (proc = "pruning" /\ todo = {} /\ ~overtaken) =>
    \A s \in mounted \ skipped : \A v \in versions[s] : v <= latest => Loadable(v)

(* The pruner can load what the node and earlier prunes left behind,       *)
(* killed ones included: it mounts no store without data.                  *)
PrunerLoads == result = "failed" => overtaken

(* The index runs past the versions only for a --keep-versions of 0, or    *)
(* for one that is negative as an int64, whatever store answered           *)
(* GetAllVersions.                                                         *)
PanicsOnlyForFlag == result = "panicked" => keepVersions = 0 \/ keepVersions > Word \div 2

(* Whatever died and whatever failed, every store of the latest commit     *)
(* keeps a version at least as new as the latest one: no store is left     *)
(* with old versions alone, or with none.                                  *)
NewestVersionKept ==
  latest # 0 => \A s \in StoreNames : \E v \in versions[s] : v >= latest

(* README.md:10 and the text of --keep-versions (root.go:96): a prune      *)
(* takes a version only from a store that has more of them than are to be  *)
(* kept.                                                                   *)
KeepsVersions ==
  [][proc = "pruning" => \A s \in Trees :
       versions'[s] # versions[s] => Cardinality(versions[s]) > keepVersions]_vars

(* A commit that was begun is completed, by this process or by a later one *)
(* that replays the block, also when prunes, killed ones included, come    *)
(* between; no store that is ahead and none that lacks a version stops the *)
(* node from loading.                                                      *)
InterruptedCommitCompletes ==
  \A v \in Versions : (proc = "commit" /\ Version = v) ~> (latest >= v \/ overtaken)

(* The node and the pruner together implement the history that AppHistory  *)
(* promises.                                                               *)
PrunedHistory == INSTANCE AppHistory WITH kept <- Kept, damaged <- overtaken
ImplementsPrunedHistory == PrunedHistory!Spec

=============================================================================

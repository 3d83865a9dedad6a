----------------------------- MODULE MultiStore -----------------------------
(***************************************************************************)
(* The root multi store over application.db: one versioned tree per store, *)
(* the commit info s/<version> of every commit and the key s/latest.  The  *)
(* node loads it and commits block after block; its process may die        *)
(* between any two writes, and load again.                                 *)
(***************************************************************************)
EXTENDS Integers, FiniteSets

CONSTANTS
  Stores,          \* the IAVL stores of the node's first binary
  NewStores,       \* those that an upgrade adds
  Leaked,          \* in-memory stores that are named in commit infos
  InitialVersion,  \* rs.initialVersion
  KeepRecent,      \* of the node's pruning options
  Kills,           \* which processes die: "node", "pruner"
  Faults,          \* how DeleteVersionsTo fails: "other", "missing"
  MaxVersion,      \* bound: the last version committed
  MaxStops         \* bound: how often the node stops

Trees == Stores \cup NewStores
Names == Trees \cup Leaked

ASSUME MultiStoreAssumption ==
  /\ Stores # {} /\ Trees \cap Leaked = {}
  /\ InitialVersion \in Nat \ {0}
  /\ KeepRecent \in Nat \ {0}
  /\ Kills \subseteq {"node", "pruner"}
  /\ Faults \subseteq {"other", "missing"}
  /\ MaxVersion \in Nat /\ MaxStops \in Nat

VARIABLES
  versions,  \* the versions that each tree holds
  infos,     \* the commit infos: for each version, the version of each store
  latest,    \* s/latest
  mounts,    \* the trees that the node's binary mounts
  proc,      \* what the process that has the database open is doing
  tree,      \* in memory: the version of each loaded tree
  todo,      \* the stores still ahead in the loop at hand
  to,        \* the height of the PruneStores at hand
  skipped,   \* the stores it gave up on
  ids,       \* the commit info being collected
  stops

diskVars == <<versions, infos, latest>>
memVars == <<proc, tree, todo, to, skipped, ids>>
storeVars == <<versions, infos, latest, mounts, proc, tree, todo, to, skipped, ids, stops>>

Versions == 0..MaxVersion
CommitInfos == UNION {[S -> Versions] : S \in SUBSET Names}
NoInfo == [s \in {} |-> 0]

StoreTypeOK ==
  /\ versions \in [Trees -> SUBSET Versions]
  /\ infos \in [Versions -> CommitInfos]
  /\ latest \in Versions
  /\ mounts \in SUBSET Trees
  /\ proc \in {"down", "ready", "commit", "history", "flush", "pruning"}
  /\ tree \in [Trees -> Versions]
  /\ todo \in SUBSET Trees
  /\ to \in Versions
  /\ skipped \in SUBSET Trees
  /\ ids \in CommitInfos
  /\ stops \in 0..MaxStops

NotLoaded == [s \in Trees |-> 0]

StoreInit ==
  /\ versions = [s \in Trees |-> {}]
  /\ infos = [v \in Versions |-> NoInfo]
  /\ latest = 0
  /\ mounts = Stores
  /\ proc = "down" /\ tree = NotLoaded
  /\ todo = {} /\ to = 0 /\ skipped = {} /\ ids = NoInfo /\ stops = 0

----------------------------------------------------------------------------
(* Loading. *)

(* Mutant of CanLoad: only the newest version of a tree loads. *)
CanLoadNewest(s, v) ==
  s \in DOMAIN infos[v] =>
    infos[v][s] = v /\ s \in Trees /\ v \in versions[s] /\ \A w \in versions[s] : w <= v

(* getCommitID and iavl.LoadStore: a store that the commit info does not   *)
(* name loads the newest version of its tree; one that it names must be    *)
(* at the root's version and have that version.                            *)
CanLoad(s, v) ==
  s \in DOMAIN infos[v] => infos[v][s] = v /\ s \in Trees /\ v \in versions[s]
Loads(s, v) ==
  IF s \in DOMAIN infos[v] \/ versions[s] = {} THEN (IF s \in DOMAIN infos[v] THEN v ELSE 0)
  ELSE CHOOSE n \in versions[s] : \A w \in versions[s] : w <= n

(* The node starts, with its old binary or with the one of the upgrade.    *)
(* (loadVersion gives the stores of the upgrade, which the commit info     *)
(* does not name yet, the next version as their initial one.)              *)
NodeLoad ==
  /\ proc = "down"
  /\ mounts' \in {mounts, Trees}
  /\ \A s \in mounts' : CanLoad(s, latest)
  /\ tree' = [s \in Trees |-> IF s \in mounts' THEN Loads(s, latest) ELSE 0]
  /\ proc' = "ready"
  /\ UNCHANGED <<versions, infos, latest, todo, to, skipped, ids, stops>>

(* The process is gone, and what it had in memory. *)
Forget ==
  /\ proc' = "down" /\ tree' = NotLoaded
  /\ todo' = {} /\ to' = 0 /\ ids' = NoInfo

(* The node is stopped between two blocks, or killed within a commit. *)
NodeStops ==
  /\ proc \in {"ready", "commit", "history", "flush"} /\ stops < MaxStops
  /\ proc = "ready" \/ "node" \in Kills
  /\ stops' = stops + 1 /\ Forget
  /\ UNCHANGED <<versions, infos, latest, mounts, skipped>>

----------------------------------------------------------------------------
(* Commit. *)

Version == IF latest = 0 THEN InitialVersion ELSE latest + 1

BeginCommit ==
  /\ proc = "ready" /\ Version <= MaxVersion
  /\ proc' = "commit" /\ todo' = mounts
  /\ ids' = [s \in Leaked |-> Version]
  /\ UNCHANGED <<versions, infos, latest, mounts, tree, to, skipped, stops>>

(* The version that a tree is saved as. *)
Saved(s) == IF tree[s] = 0 THEN Version ELSE tree[s] + 1

With(id, s, v) == [n \in DOMAIN id \cup {s} |-> IF n = s THEN v ELSE id[n]]

(* Mutant of CommitStore: a tree that is ahead is saved once more. *)
CommitStoreAgain(s) ==
  /\ proc = "commit" /\ s \in todo /\ Saved(s) <= MaxVersion
  /\ versions' = [versions EXCEPT ![s] = @ \cup {Saved(s)}]
  /\ tree' = [tree EXCEPT ![s] = Saved(s)]
  /\ ids' = With(ids, s, Saved(s))
  /\ todo' = todo \ {s}
  /\ UNCHANGED <<infos, latest, mounts, proc, to, skipped, stops>>

(* commitStores for one store.  A tree that an interrupted commit left     *)
(* ahead is not saved again; one that was loaded behind its newest version *)
(* is saved over it.  (The stores go in the order of their names, which    *)
(* are arbitrary here.)                                                    *)
CommitStore(s) ==
  /\ proc = "commit" /\ s \in todo
  /\ \/ /\ tree[s] >= Version
        /\ ids' = With(ids, s, Version)
        /\ UNCHANGED <<versions, tree>>
     \/ /\ tree[s] < Version
        /\ versions' = [versions EXCEPT ![s] = @ \cup {Saved(s)}]
        /\ tree' = [tree EXCEPT ![s] = Saved(s)]
        /\ ids' = With(ids, s, Saved(s))
  /\ todo' = todo \ {s}
  /\ UNCHANGED <<infos, latest, mounts, proc, to, skipped, stops>>

(* Mutant of StoresCommitted: the commit goes on before every store is saved. *)
StoresCommittedEarly ==
  /\ proc = "commit" /\ proc' = "flush" /\ todo' = {}
  /\ UNCHANGED <<versions, infos, latest, mounts, tree, to, skipped, ids, stops>>

(* Mutant of StoresCommitted: a height below 1 is pruned like any other. *)
StoresCommittedUnguarded ==
  /\ proc = "commit" /\ todo = {}
  /\ to' = Version - 1 - KeepRecent
  /\ proc' = "history" /\ todo' = mounts /\ skipped' = {}
  /\ UNCHANGED <<versions, infos, latest, mounts, tree, ids, stops>>

(* handlePruning.  GetPruningHeight answers 0 or a height that leaves the  *)
(* new version and the KeepRecent versions before it.                      *)
StoresCommitted ==
  /\ proc = "commit" /\ todo = {}
  /\ \/ proc' = "flush" /\ UNCHANGED <<todo, to, skipped>>
     \/ /\ Version - 1 - KeepRecent > 0
        /\ to' = Version - 1 - KeepRecent
        /\ proc' = "history" /\ todo' = mounts /\ skipped' = {}
  /\ UNCHANGED <<versions, infos, latest, mounts, tree, ids, stops>>

HistoryPruned ==
  /\ proc = "history" /\ todo = {}
  /\ proc' = "flush" /\ to' = 0
  /\ UNCHANGED <<versions, infos, latest, mounts, tree, todo, skipped, ids, stops>>

(* Mutant of FlushMetadata: the commit info is left out of the batch. *)
FlushLatestOnly ==
  /\ proc = "flush"
  /\ latest' = Version
  /\ proc' = "ready" /\ ids' = NoInfo
  /\ UNCHANGED <<versions, infos, mounts, tree, todo, to, skipped, stops>>

(* flushMetadata, which Commit defers to its end: one batch. *)
FlushMetadata ==
  /\ proc = "flush"
  /\ infos' = [infos EXCEPT ![Version] = ids]
  /\ latest' = Version
  /\ proc' = "ready" /\ ids' = NoInfo
  /\ UNCHANGED <<versions, mounts, tree, todo, to, skipped, stops>>

----------------------------------------------------------------------------
(* PruneStores, which the node and the pruner share. *)

(* Mutant of CanDelete: the newest version may go as well. *)
CanDeleteNewest(s) == \E v \in versions[s] : v <= to

(* DeleteVersionsTo deletes the versions up to a height from the oldest    *)
(* on, and refuses when that would be all of them.                         *)
CanDelete(s) ==
  /\ \E v \in versions[s] : v <= to
  /\ \E v \in versions[s] : v > to

DeleteOldest(s) ==
  /\ proc \in {"history", "pruning"} /\ s \in todo /\ CanDelete(s)
  /\ \E v \in versions[s] :
       /\ \A w \in versions[s] : v <= w
       /\ versions' = [versions EXCEPT ![s] = @ \ {v}]
  /\ UNCHANGED <<infos, latest, mounts, proc, tree, todo, to, skipped, ids, stops>>

(* Mutant of StoreDone: the loop ends with the first store. *)
StoreDoneReturns(s) ==
  /\ proc \in {"history", "pruning"} /\ s \in todo /\ ~CanDelete(s)
  /\ todo' = {}
  /\ UNCHANGED <<versions, infos, latest, mounts, proc, tree, to, skipped, ids, stops>>

(* The store is done, or its refusal is logged: the loop goes on. *)
StoreDone(s) ==
  /\ proc \in {"history", "pruning"} /\ s \in todo /\ ~CanDelete(s)
  /\ todo' = todo \ {s}
  /\ UNCHANGED <<versions, infos, latest, mounts, proc, tree, to, skipped, ids, stops>>

(* Any other error of DeleteVersionsTo is logged and the loop goes on, but *)
(* ErrVersionDoesNotExist ends it; no caller heeds what it returns.        *)
DeleteFails(s) ==
  /\ proc \in {"history", "pruning"} /\ s \in todo
  /\ \/ "other" \in Faults /\ todo' = todo \ {s} /\ skipped' = skipped \cup {s}
     \/ "missing" \in Faults /\ todo' = {} /\ skipped' = skipped \cup todo
  /\ UNCHANGED <<versions, infos, latest, mounts, proc, tree, to, ids, stops>>

PruneStore(s) == DeleteOldest(s) \/ StoreDone(s) \/ DeleteFails(s)

----------------------------------------------------------------------------
NodeNext ==
  \/ NodeLoad \/ NodeStops
  \/ BeginCommit \/ StoresCommitted \/ HistoryPruned \/ FlushMetadata
  \/ \E s \in Trees : CommitStore(s) \/ PruneStore(s)

NodeSpec == StoreInit /\ [][NodeNext]_storeVars

(* The process runs whenever it is not stopped, and it is started again:   *)
(* nothing else holds a step of it back.                                   *)
NodeFairness ==
  /\ WF_storeVars(NodeLoad)
  /\ WF_storeVars(BeginCommit)
  /\ WF_storeVars(StoresCommitted \/ HistoryPruned \/ FlushMetadata)
  /\ WF_storeVars(\E s \in Trees : CommitStore(s) \/ PruneStore(s))

----------------------------------------------------------------------------
(* Properties. *)

(* A version can be loaded when every store its commit info names is at    *)
(* that version and has it: loadVersion (store.go:203-256).                *)
Loadable(v) == infos[v] # NoInfo /\ \A s \in DOMAIN infos[v] \ Leaked : CanLoad(s, v)

(* Whatever was interrupted, the version that s/latest names can be loaded *)
(* in every store, so that the block after it can be replayed.             *)
LatestLoadable == latest # 0 => Loadable(latest)

(* The commit info that is about to be flushed names every mounted store   *)
(* at the version of the commit, also when an interrupted commit left some *)
(* of them ahead; otherwise the next load fails on the mismatch.           *)
CommitIdsMatch ==
  proc = "flush" =>
    /\ DOMAIN ids = mounts \cup Leaked
    /\ \A s \in DOMAIN ids : ids[s] = Version
    /\ \A s \in mounts : Version \in versions[s]

(* The multi store implements the history that AppHistory promises, its    *)
(* versions being those that load in every store.                          *)
Kept == {v \in 1..MaxVersion : v <= latest /\ Loadable(v)}
History == INSTANCE AppHistory WITH kept <- Kept, damaged <- FALSE
ImplementsHistory == History!Spec
=============================================================================

-------------------------- MODULE AppState_proofs --------------------------
(***************************************************************************)
(* Proofs about the root multi store and about PruneAppState between the   *)
(* node's runs, for any stores, leaked names, initial version and bounds.  *)
(*                                                                         *)
(* First the node alone (NodeSpec): KInv is what its actions keep even     *)
(* where a prune has damaged the stores; LInv adds that the latest version *)
(* loads.  Then the node with the pruner (Spec), whatever dies: AInv holds *)
(* always, OInv until a prune takes its height from a store ahead.  BInv,  *)
(* for Rollback_proofs, is what a node that does not die within a commit   *)
(* adds: no store is ever ahead.                                           *)
(***************************************************************************)
EXTENDS AppState, FiniteSetTheorems, TLAPS

----------------------------------------------------------------------------
(* Commit infos and versions. *)

LEMMA CommitInfosFunction ==
  ASSUME NEW c
  PROVE  c \in CommitInfos <=>
           /\ c = [s \in DOMAIN c |-> c[s]] /\ DOMAIN c \subseteq Names
           /\ \A s \in DOMAIN c : c[s] \in Versions
<1>1. ASSUME c \in CommitInfos
      PROVE  /\ c = [s \in DOMAIN c |-> c[s]] /\ DOMAIN c \subseteq Names
             /\ \A s \in DOMAIN c : c[s] \in Versions
  <2>1. PICK S \in SUBSET Names : c \in [S -> Versions]
    BY <1>1 DEF CommitInfos
  <2> QED
    BY <2>1
<1>2. ASSUME c = [s \in DOMAIN c |-> c[s]], DOMAIN c \subseteq Names,
             \A s \in DOMAIN c : c[s] \in Versions
      PROVE  c \in CommitInfos
  <2>1. c \in [DOMAIN c -> Versions]
    BY <1>2
  <2> QED
    BY <1>2, <2>1 DEF CommitInfos
<1> QED
  BY <1>1, <1>2

LEMMA NoInfoType == NoInfo \in CommitInfos /\ DOMAIN NoInfo = {}
<1>1. DOMAIN NoInfo = {} /\ NoInfo = [s \in DOMAIN NoInfo |-> NoInfo[s]]
  BY DEF NoInfo
<1> QED
  BY <1>1, CommitInfosFunction

(* With puts one store into the commit info. *)
LEMMA WithInfo ==
  ASSUME NEW id \in CommitInfos, NEW s \in Names, NEW v \in Versions
  PROVE  /\ With(id, s, v) \in CommitInfos
         /\ DOMAIN With(id, s, v) = DOMAIN id \cup {s}
         /\ With(id, s, v)[s] = v
         /\ \A n \in DOMAIN id : n # s => With(id, s, v)[n] = id[n]
<1> DEFINE w == With(id, s, v)
<1>1. w = [n \in DOMAIN id \cup {s} |-> IF n = s THEN v ELSE id[n]]
  BY DEF With
<1>2. DOMAIN w = DOMAIN id \cup {s}
  BY <1>1
<1>3. w[s] = v /\ \A n \in DOMAIN id : n # s => w[n] = id[n]
  BY <1>1
<1>4. DOMAIN id \subseteq Names /\ \A n \in DOMAIN id : id[n] \in Versions
  BY CommitInfosFunction
<1>5. DOMAIN w \subseteq Names /\ \A n \in DOMAIN w : w[n] \in Versions
  BY <1>2, <1>3, <1>4
<1>6. w = [n \in DOMAIN w |-> w[n]]
  BY <1>1, <1>2
<1>7. w \in CommitInfos
  BY <1>5, <1>6, CommitInfosFunction
<1> QED
  BY <1>2, <1>3, <1>7

LEMMA VersionFacts ==
  ASSUME StoreTypeOK
  PROVE  /\ latest \in Nat /\ Version \in Nat /\ latest < Version
         /\ latest # 0 => Version = latest + 1
         /\ Version <= MaxVersion => Version \in Versions
BY MultiStoreAssumption DEF MultiStoreAssumption, StoreTypeOK, Version, Versions

----------------------------------------------------------------------------
(* The invariants. *)

Node == {"ready", "commit", "history", "flush"}
Committing == {"commit", "history", "flush"}

(* What the databases hold of a commit that has not been flushed, and of   *)
(* stores that the node never mounted.                                     *)
DiskInv ==
  /\ infos[0] = NoInfo
  /\ Stores \subseteq mounts
  /\ \A s \in Trees \ mounts : versions[s] = {}
  /\ \A s \in Trees \ DOMAIN infos[latest] : versions[s] \subseteq {Version}
  /\ \A s \in Trees : versions[s] \subseteq 1..Version

(* No commit info is above the latest version. *)
FreshInv == \A v \in Versions : v > latest => infos[v] = NoInfo

(* What the node has loaded. *)
TreeInv ==
  proc \in Node =>
    \A s \in mounts : /\ tree[s] \in {0, latest, Version}
                      /\ tree[s] = Version => Version \in versions[s]

(* How far the commit is. *)
CommitInv ==
  /\ proc \in Committing => Version \in Versions
  /\ proc = "commit" => todo \subseteq mounts /\ DOMAIN ids = Leaked \cup (mounts \ todo)
  /\ proc \in {"history", "flush"} => DOMAIN ids = Leaked \cup mounts
  /\ proc \in Committing =>
       \A s \in DOMAIN ids : ids[s] = Version /\ (s \notin Leaked => Version \in versions[s])
  /\ proc = "history" => to < Version
  /\ proc = "commit" => \A s \in mounts \ todo : tree[s] = Version
  /\ proc \in {"history", "flush"} => \A s \in mounts : tree[s] = Version

(* No store is left with old versions alone. *)
NewestInv ==
  latest # 0 => \A s \in DOMAIN infos[latest] \ Leaked : \E v \in versions[s] : v >= latest

KInv == StoreTypeOK /\ DiskInv /\ TreeInv /\ CommitInv /\ NewestInv

(* The latest version loads, and the deletions at hand leave it alone.     *)
PrunesBelow == proc \in {"history", "pruning"} /\ latest # 0 => to < latest
LInv == LatestLoadable /\ PrunesBelow

----------------------------------------------------------------------------
LEMMA InitStore == StoreInit => KInv /\ LInv /\ FreshInv
<1> SUFFICES ASSUME StoreInit PROVE KInv /\ LInv /\ FreshInv
  OBVIOUS
<1>1. 0 \in Versions /\ MaxStops \in Nat
  BY MultiStoreAssumption DEF MultiStoreAssumption, Versions
<1>2. StoreTypeOK
  BY <1>1, NoInfoType DEF StoreInit, StoreTypeOK, NotLoaded, Trees
<1>3. DiskInv
  BY <1>1 DEF StoreInit, DiskInv
<1>4. TreeInv /\ CommitInv /\ NewestInv /\ LInv
  BY DEF StoreInit, TreeInv, CommitInv, NewestInv, LInv, LatestLoadable, PrunesBelow, Node, Committing
<1>5. FreshInv
  BY DEF StoreInit, FreshInv
<1> QED
  BY <1>2, <1>3, <1>4, <1>5 DEF KInv

(* A step that only takes the process away. *)
LEMMA ForgetStep ==
  ASSUME KInv, Forget, UNCHANGED <<versions, infos, latest, mounts>>,
         skipped' \in SUBSET Trees, stops' \in 0..MaxStops
  PROVE  KInv' /\ (LInv => LInv')
<1>1. StoreTypeOK'
  <2>1. 0 \in Versions
    BY MultiStoreAssumption DEF MultiStoreAssumption, Versions
  <2> QED
    BY <2>1, NoInfoType DEF KInv, StoreTypeOK, Forget, NotLoaded
<1>2. DiskInv'
  BY DEF KInv, DiskInv, Version
<1>3. TreeInv' /\ CommitInv' /\ NewestInv'
  BY DEF KInv, TreeInv, CommitInv, NewestInv, Forget, Node, Committing
<1>4. LInv => LInv'
  BY DEF LInv, LatestLoadable, PrunesBelow, Loadable, CanLoad, Forget
<1> QED
  BY <1>1, <1>2, <1>3, <1>4 DEF KInv

LEMMA LoadStep ==
  ASSUME KInv, NodeLoad
  PROVE  KInv' /\ (LInv => LInv')
<1>1. UNCHANGED <<versions, infos, latest, todo, to, skipped, ids, stops>> /\ proc' = "ready"
  BY DEF NodeLoad
<1>2. mounts' \in SUBSET Trees /\ mounts \subseteq mounts'
  BY DEF NodeLoad, KInv, StoreTypeOK
<1>3. /\ Version \in Nat /\ latest \in Nat /\ latest < Version /\ latest \in Versions
      /\ 0 \in Versions /\ Version' = Version
  BY <1>1, VersionFacts, MultiStoreAssumption
     DEF KInv, MultiStoreAssumption, StoreTypeOK, Versions, Version
<1>4. ASSUME NEW s \in Trees
      PROVE  /\ Loads(s, latest) \in Versions
             /\ Loads(s, latest) \in {0, latest, Version}
             /\ Loads(s, latest) = Version => Version \in versions[s]
  <2>1. versions[s] \subseteq Versions
    BY DEF KInv, StoreTypeOK
  <2>2. CASE s \in DOMAIN infos[latest]
    BY <1>3, <2>2 DEF Loads
  <2>3. CASE s \notin DOMAIN infos[latest] /\ versions[s] = {}
    BY <1>3, <2>3 DEF Loads
  <2>4. CASE s \notin DOMAIN infos[latest] /\ versions[s] # {}
    <3>1. versions[s] = {Version}
      BY <2>4 DEF KInv, DiskInv
    <3>2. Version <= Version
      BY <1>3
    <3>3. Loads(s, latest) = CHOOSE n \in {Version} : \A w \in {Version} : w <= n
      BY <2>4, <3>1 DEF Loads
    <3>4. Loads(s, latest) = Version
      BY <3>2, <3>3
    <3> QED
      BY <2>1, <3>1, <3>4
  <2> QED
    BY <2>2, <2>3, <2>4
<1>5. tree' = [s \in Trees |-> IF s \in mounts' THEN Loads(s, latest) ELSE 0]
  BY DEF NodeLoad
<1>6. StoreTypeOK'
  BY <1>1, <1>2, <1>3, <1>4, <1>5 DEF KInv, StoreTypeOK
<1>7. DiskInv'
  BY <1>1, <1>2, <1>3 DEF KInv, DiskInv
<1>8. TreeInv'
  <2>1. \A s \in mounts' : tree'[s] = Loads(s, latest)
    BY <1>2, <1>5
  <2> QED
    BY <1>1, <1>2, <1>3, <1>4, <2>1 DEF TreeInv
<1>9. CommitInv' /\ NewestInv'
  BY <1>1 DEF KInv, CommitInv, NewestInv, Committing
<1>10. LInv => LInv'
  BY <1>1 DEF LInv, LatestLoadable, PrunesBelow, Loadable, CanLoad
<1> QED
  BY <1>6, <1>7, <1>8, <1>9, <1>10 DEF KInv

LEMMA BeginStep ==
  ASSUME KInv, BeginCommit
  PROVE  KInv' /\ (LInv => LInv')
<1>1. /\ proc = "ready" /\ proc' = "commit" /\ todo' = mounts
      /\ ids' = [s \in Leaked |-> Version] /\ Version <= MaxVersion
      /\ UNCHANGED <<versions, infos, latest, mounts, tree, to, skipped, stops>>
  BY DEF BeginCommit
<1>2. Version \in Versions /\ Version' = Version
  BY <1>1, VersionFacts DEF KInv, Version
<1>3. ids' \in CommitInfos /\ DOMAIN ids' = Leaked /\ \A s \in Leaked : ids'[s] = Version
  <2>1. DOMAIN ids' = Leaked /\ (\A s \in Leaked : ids'[s] = Version)
          /\ ids' = [s \in DOMAIN ids' |-> ids'[s]]
    BY <1>1
  <2> QED
    BY <1>2, <2>1, CommitInfosFunction DEF Names
<1>4. StoreTypeOK'
  BY <1>1, <1>3 DEF KInv, StoreTypeOK
<1>5. DiskInv'
  BY <1>1, <1>2 DEF KInv, DiskInv
<1>6. TreeInv' /\ NewestInv'
  BY <1>1, <1>2 DEF KInv, TreeInv, NewestInv, Node
<1>7. CommitInv'
  BY <1>1, <1>2, <1>3 DEF CommitInv, Committing
<1>8. LInv => LInv'
  BY <1>1 DEF LInv, LatestLoadable, PrunesBelow, Loadable, CanLoad
<1> QED
  BY <1>4, <1>5, <1>6, <1>7, <1>8 DEF KInv

(* Whichever branch is taken, the store now has the version of the commit  *)
(* and the commit info says so.                                            *)
LEMMA CommitStoreSaves ==
  ASSUME KInv, NEW s \in Trees, CommitStore(s)
  PROVE  /\ ids' = With(ids, s, Version)
         /\ versions' = [versions EXCEPT ![s] = @ \cup {Version}]
         /\ tree' = [tree EXCEPT ![s] = Version]
<1>1. /\ proc = "commit" /\ s \in mounts
      /\ versions \in [Trees -> SUBSET Versions] /\ tree \in [Trees -> Versions]
  BY DEF CommitStore, KInv, CommitInv, StoreTypeOK
<1>2. /\ Version \in Nat /\ latest \in Nat /\ latest < Version
      /\ latest # 0 => Version = latest + 1
  BY VersionFacts DEF KInv
<1>3. tree[s] \in {0, latest, Version} /\ (tree[s] = Version => Version \in versions[s])
  BY <1>1 DEF KInv, TreeInv, Node
<1>4. CASE tree[s] >= Version
  <2>1. tree[s] = Version
    BY <1>2, <1>3, <1>4
  <2>2. ids' = With(ids, s, Version) /\ UNCHANGED <<versions, tree>>
    BY <1>2, <1>3, <1>4, <2>1 DEF CommitStore
  <2>3. versions[s] \cup {Version} = versions[s]
    BY <1>3, <2>1
  <2> QED
    BY <1>1, <2>1, <2>2, <2>3
<1>5. CASE tree[s] < Version
  <2>1. Saved(s) = Version
    BY <1>2, <1>3, <1>5 DEF Saved, Version
  <2>2. ~(tree[s] >= Version)
    BY <1>2, <1>3, <1>5
  <2> QED
    BY <2>1, <2>2 DEF CommitStore
<1> QED
  BY <1>2, <1>3, <1>4, <1>5

LEMMA CommitStoreStep ==
  ASSUME KInv, NEW s \in Trees, CommitStore(s)
  PROVE  KInv' /\ (LInv => LInv')
<1>1. /\ proc = "commit" /\ s \in todo /\ todo' = todo \ {s}
      /\ UNCHANGED <<infos, latest, mounts, proc, to, skipped, stops>>
  BY DEF CommitStore
<1>2. /\ Version \in Nat /\ latest \in Nat /\ latest < Version /\ Version' = Version
  BY <1>1, VersionFacts DEF KInv, Version
<1>3. s \in mounts /\ Version \in Versions /\ versions \in [Trees -> SUBSET Versions]
        /\ tree \in [Trees -> Versions] /\ mounts \subseteq Trees /\ s \in Names /\ s \notin Leaked
  BY <1>1, MultiStoreAssumption
     DEF KInv, CommitInv, Committing, StoreTypeOK, MultiStoreAssumption, Names
<1>5. /\ ids' = With(ids, s, Version)
      /\ versions' = [versions EXCEPT ![s] = @ \cup {Version}]
      /\ tree' = [tree EXCEPT ![s] = Version]
  BY CommitStoreSaves
<1>6. /\ ids' \in CommitInfos /\ DOMAIN ids' = DOMAIN ids \cup {s} /\ ids'[s] = Version
      /\ \A n \in DOMAIN ids : n # s => ids'[n] = ids[n]
  <2>1. ids \in CommitInfos
    BY DEF KInv, StoreTypeOK
  <2>2. /\ With(ids, s, Version) \in CommitInfos
        /\ DOMAIN With(ids, s, Version) = DOMAIN ids \cup {s}
        /\ With(ids, s, Version)[s] = Version
        /\ \A n \in DOMAIN ids : n # s => With(ids, s, Version)[n] = ids[n]
    BY <1>3, <2>1, WithInfo
  <2>3. ids' = With(ids, s, Version)
    BY <1>5
  <2> QED
    BY <2>2, <2>3
<1>7. StoreTypeOK'
  BY <1>1, <1>3, <1>5, <1>6 DEF KInv, StoreTypeOK
<1>8. /\ Version \in versions'[s]
      /\ \A n \in Trees : versions[n] \subseteq versions'[n] /\ versions'[n] \subseteq versions[n] \cup {Version}
      /\ \A n \in Trees : n # s => versions'[n] = versions[n]
  BY <1>3, <1>5
<1>9. DiskInv'
  <2>1. \A n \in Trees \ mounts : versions'[n] = {}
    BY <1>3, <1>8 DEF KInv, DiskInv
  <2>2. \A n \in Trees \ DOMAIN infos[latest] : versions'[n] \subseteq {Version}
    BY <1>8 DEF KInv, DiskInv
  <2>3. \A n \in Trees : versions'[n] \subseteq 1..Version
    BY <1>2, <1>8 DEF KInv, DiskInv
  <2> QED
    BY <1>1, <1>2, <2>1, <2>2, <2>3 DEF KInv, DiskInv
<1>10. TreeInv'
  <2>1. \A n \in mounts : n # s => tree'[n] = tree[n]
    BY <1>3, <1>5
  <2>2. tree'[s] = Version
    BY <1>3, <1>5
  <2> QED
    BY <1>1, <1>2, <1>3, <1>8, <2>1, <2>2 DEF KInv, TreeInv, Node
<1>11. CommitInv'
  <2>1. DOMAIN ids' = Leaked \cup (mounts \ todo') /\ todo' \subseteq mounts
    BY <1>1, <1>3, <1>6 DEF KInv, CommitInv
  <2>2. \A n \in DOMAIN ids' \ Leaked : n \in Trees
    BY <1>3, <2>1
  <2>3. \A n \in DOMAIN ids' : ids'[n] = Version /\ (n \notin Leaked => Version \in versions'[n])
    BY <1>1, <1>6, <1>8, <2>2 DEF KInv, CommitInv, Committing
  <2>4. \A n \in mounts \ todo' : tree'[n] = Version
    BY <1>1, <1>3, <1>5 DEF KInv, CommitInv
  <2> QED
    BY <1>1, <1>2, <1>3, <2>1, <2>3, <2>4 DEF CommitInv, Committing
<1>12. NewestInv' 
  <2>1. DOMAIN infos[latest] \subseteq Names
    BY CommitInfosFunction DEF KInv, StoreTypeOK
  <2>2. \A n \in DOMAIN infos[latest] \ Leaked : n \in Trees
    BY <2>1 DEF Names
  <2> QED
    BY <1>1, <1>8, <2>2 DEF KInv, NewestInv
<1>13. LInv => LInv'
  <2>1. \A n \in Trees : CanLoad(n, latest) => CanLoad(n, latest)'
    BY <1>1, <1>8 DEF CanLoad
  <2>2. \A n : n \notin Trees => (CanLoad(n, latest) => CanLoad(n, latest)')
    BY <1>1 DEF CanLoad
  <2> QED
    BY <1>1, <2>1, <2>2 DEF LInv, LatestLoadable, PrunesBelow, Loadable
<1> QED
  BY <1>7, <1>9, <1>10, <1>11, <1>12, <1>13 DEF KInv

(* The height that handlePruning asks for is below the latest version.     *)
LEMMA CommittedStep ==
  ASSUME KInv, StoresCommitted
  PROVE  KInv' /\ (LInv => LInv')
<1>1. /\ proc = "commit" /\ todo = {} /\ proc' \in {"flush", "history"}
      /\ UNCHANGED <<versions, infos, latest, mounts, tree, ids, stops>>
  BY DEF StoresCommitted
<1>2. /\ Version \in Nat /\ latest \in Nat /\ latest < Version /\ Version' = Version
      /\ latest # 0 => Version = latest + 1
  BY <1>1, VersionFacts DEF KInv, Version
<1>3. /\ Version \in Versions /\ DOMAIN ids = Leaked \cup mounts
      /\ \A s \in DOMAIN ids : ids[s] = Version /\ (s \notin Leaked => Version \in versions[s])
      /\ \A s \in mounts : tree[s] = Version
  BY <1>1 DEF KInv, CommitInv, Committing
<1>4. \/ UNCHANGED <<todo, to, skipped>> /\ proc' = "flush"
      \/ /\ to' = Version - 1 - KeepRecent /\ to' > 0
         /\ todo' = mounts /\ skipped' = {} /\ proc' = "history"
  BY DEF StoresCommitted
<1>5. /\ todo' \in SUBSET Trees /\ skipped' \in SUBSET Trees /\ to' \in Versions
      /\ proc' = "history" => to' < Version /\ (latest # 0 => to' < latest)
  BY <1>2, <1>3, <1>4, MultiStoreAssumption DEF KInv, StoreTypeOK, Versions, MultiStoreAssumption
<1>6. StoreTypeOK'
  BY <1>1, <1>5 DEF KInv, StoreTypeOK
<1>7. DiskInv' /\ NewestInv'
  BY <1>1, <1>2 DEF KInv, DiskInv, NewestInv
<1>8. TreeInv'
  BY <1>1, <1>2 DEF KInv, TreeInv, Node
<1>9. CommitInv'
  BY <1>1, <1>2, <1>3, <1>5 DEF CommitInv, Committing
<1>10. LInv => LInv'
  BY <1>1, <1>5 DEF LInv, LatestLoadable, PrunesBelow, Loadable, CanLoad
<1> QED
  BY <1>6, <1>7, <1>8, <1>9, <1>10 DEF KInv

LEMMA HistoryStep ==
  ASSUME KInv, HistoryPruned
  PROVE  KInv' /\ (LInv => LInv')
<1>1. /\ proc = "history" /\ proc' = "flush" /\ to' = 0
      /\ UNCHANGED <<versions, infos, latest, mounts, tree, todo, skipped, ids, stops>>
  BY DEF HistoryPruned
<1>2. 0 \in Versions /\ Version' = Version
  BY <1>1, MultiStoreAssumption DEF MultiStoreAssumption, Versions, Version
<1>3. StoreTypeOK'
  BY <1>1, <1>2 DEF KInv, StoreTypeOK
<1>4. DiskInv' /\ NewestInv' /\ TreeInv'
  BY <1>1, <1>2 DEF KInv, DiskInv, NewestInv, TreeInv, Node
<1>5. CommitInv'
  BY <1>1, <1>2 DEF KInv, CommitInv, Committing
<1>6. LInv => LInv'
  BY <1>1 DEF LInv, LatestLoadable, PrunesBelow, Loadable, CanLoad
<1> QED
  BY <1>3, <1>4, <1>5, <1>6 DEF KInv

(* What is flushed becomes the latest version, and all of it is there.     *)
LEMMA FlushStep ==
  ASSUME KInv, FlushMetadata
  PROVE  KInv' /\ LInv'
<1>1. /\ proc = "flush" /\ proc' = "ready" /\ ids' = NoInfo /\ latest' = Version
      /\ infos' = [infos EXCEPT ![Version] = ids]
      /\ UNCHANGED <<versions, mounts, tree, todo, to, skipped, stops>>
  BY DEF FlushMetadata
<1>2. /\ Version \in Nat /\ latest \in Nat /\ latest < Version
      /\ latest # 0 => Version = latest + 1
  BY VersionFacts DEF KInv
<1>3. /\ Version \in Versions /\ DOMAIN ids = Leaked \cup mounts
      /\ \A s \in DOMAIN ids : ids[s] = Version /\ (s \notin Leaked => Version \in versions[s])
  BY <1>1 DEF KInv, CommitInv, Committing
<1>4. infos \in [Versions -> CommitInfos] /\ ids \in CommitInfos /\ mounts \subseteq Trees
  BY DEF KInv, StoreTypeOK
<1>5. infos'[Version] = ids /\ \A v \in Versions : v # Version => infos'[v] = infos[v]
  BY <1>1, <1>3, <1>4
<1>6. Version' = Version + 1 /\ Version # 0
  BY <1>1, <1>2 DEF Version
<1>7. StoreTypeOK'
  <2>1. infos' \in [Versions -> CommitInfos]
    BY <1>1, <1>3, <1>4
  <2> QED
    BY <1>1, <1>3, <2>1, NoInfoType DEF KInv, StoreTypeOK
<1>8. DiskInv'
  <2>1. 0 \in Versions /\ \A v \in Versions : v \in Nat
    BY MultiStoreAssumption DEF MultiStoreAssumption, Versions
  <2>2. infos'[0] = NoInfo
    BY <1>5, <1>6, <2>1 DEF KInv, DiskInv
  <2>4. \A s \in Trees \ mounts : versions[s] = {}
    BY DEF KInv, DiskInv
  <2>5. \A s \in Trees \ DOMAIN infos'[latest'] : versions'[s] \subseteq {Version'}
    BY <1>1, <1>3, <1>5, <2>4
  <2>6. \A s \in Trees : versions[s] \subseteq 1..Version'
    BY <1>2, <1>6 DEF KInv, DiskInv
  <2> QED
    BY <1>1, <2>2, <2>4, <2>5, <2>6 DEF KInv, DiskInv
<1>9. TreeInv'
  <2>1. \A s \in mounts : tree[s] = Version
    BY <1>1 DEF KInv, CommitInv
  <2>2. \A s \in mounts : tree[s] = latest' /\ tree[s] # Version'
    BY <1>1, <1>2, <1>6, <2>1
  <2> QED
    BY <1>1, <2>2 DEF TreeInv
<1>10. CommitInv'
  BY <1>1 DEF CommitInv, Committing
<1>11. NewestInv'
  BY <1>1, <1>2, <1>3, <1>5 DEF NewestInv
<1>12. LInv'
  <2>1. \A s \in DOMAIN ids \ Leaked : s \in Trees /\ ids[s] = Version /\ Version \in versions[s]
    BY <1>3, <1>4
  <2>2. ids # NoInfo
    <3>1. PICK s \in Stores : TRUE
      BY MultiStoreAssumption DEF MultiStoreAssumption
    <3>2. s \in DOMAIN ids
      BY <1>3, <3>1 DEF KInv, DiskInv
    <3> QED
      BY <3>2, NoInfoType
  <2> QED
    BY <1>1, <1>5, <2>1, <2>2 DEF LInv, LatestLoadable, PrunesBelow, Loadable, CanLoad
<1> QED
  BY <1>7, <1>8, <1>9, <1>10, <1>11, <1>12 DEF KInv

(* Only versions below what is being pruned go, and never a store's        *)
(* newest one.                                                             *)
LEMMA DeleteStep ==
  ASSUME KInv, NEW s \in Trees, DeleteOldest(s)
  PROVE  KInv' /\ (LInv => LInv')
<1>1. /\ proc \in {"history", "pruning"}
      /\ UNCHANGED <<infos, latest, mounts, proc, tree, todo, to, skipped, ids, stops>>
  BY DEF DeleteOldest
<1>2. PICK v \in versions[s] :
        /\ \A w \in versions[s] : v <= w
        /\ versions' = [versions EXCEPT ![s] = @ \ {v}]
  BY DEF DeleteOldest
<1>3. /\ versions \in [Trees -> SUBSET Versions] /\ to \in Nat /\ latest \in Nat
      /\ mounts \subseteq Trees /\ \A w \in Versions : w \in Nat
  BY MultiStoreAssumption DEF KInv, StoreTypeOK, Versions, MultiStoreAssumption
<1>4. v \in Nat /\ v <= to /\ \E w \in versions[s] : w > to
  <2>1. \A w \in versions[s] : w \in Nat
    BY <1>3
  <2>2. (\E w \in versions[s] : w <= to) /\ (\E w \in versions[s] : w > to)
    BY DEF DeleteOldest, CanDelete
  <2> QED
    BY <1>2, <1>3, <2>1, <2>2
<1>5. /\ versions'[s] = versions[s] \ {v}
      /\ \A n \in Trees : n # s => versions'[n] = versions[n]
      /\ \A n \in Trees : versions'[n] \subseteq versions[n]
      /\ \A n \in Trees, w \in Versions : w > to /\ w \in versions[n] => w \in versions'[n]
  <2>1. versions'[s] = versions[s] \ {v} /\ \A n \in Trees : n # s => versions'[n] = versions[n]
    BY <1>2, <1>3
  <2>2. \A w \in Versions : w > to => w # v
    BY <1>3, <1>4
  <2> QED
    BY <2>1, <2>2
<1>6. StoreTypeOK'
  <2>1. versions' \in [Trees -> SUBSET Versions]
    BY <1>2, <1>3
  <2> QED
    BY <1>1, <2>1 DEF KInv, StoreTypeOK
<1>7. Version' = Version /\ Version \in Nat
  BY <1>1, VersionFacts DEF KInv, Version
<1>8. DiskInv'
  <2>1. \A n \in Trees \ mounts : versions'[n] = {}
    BY <1>5 DEF KInv, DiskInv
  <2>2. \A n \in Trees \ DOMAIN infos[latest] : versions'[n] \subseteq {Version}
    BY <1>5 DEF KInv, DiskInv
  <2>3. \A n \in Trees : versions'[n] \subseteq 1..Version
    BY <1>5 DEF KInv, DiskInv
  <2> QED
    BY <1>1, <1>7, <2>1, <2>2, <2>3 DEF KInv, DiskInv
<1>9. proc = "history" =>
        to < Version /\ Version \in Versions
        /\ (\A n \in Trees : Version \in versions[n] => Version \in versions'[n])
  BY <1>3, <1>5, <1>7 DEF KInv, CommitInv, Committing
<1>10. TreeInv'
  BY <1>1, <1>3, <1>7, <1>9 DEF KInv, TreeInv, Node
<1>11. CommitInv'
  <2>1. CASE proc = "pruning"
    BY <1>1, <2>1 DEF CommitInv, Committing
  <2>2. CASE proc = "history"
    <3>1. DOMAIN ids = Leaked \cup mounts /\ \A n \in DOMAIN ids \ Leaked : n \in Trees
      BY <1>3, <2>2 DEF KInv, CommitInv
    <3>2. \A n \in DOMAIN ids : ids[n] = Version /\ (n \notin Leaked => Version \in versions'[n])
      BY <1>9, <2>2, <3>1 DEF KInv, CommitInv, Committing
    <3>3. \A n \in mounts : tree[n] = Version
      BY <2>2 DEF KInv, CommitInv
    <3> QED
      BY <1>1, <1>7, <1>9, <2>2, <3>1, <3>2, <3>3 DEF CommitInv, Committing
  <2> QED
    BY <1>1, <2>1, <2>2
<1>12. \A n \in DOMAIN infos[latest] \ Leaked : n \in Trees
  <2>1. infos[latest] \in CommitInfos
    BY DEF KInv, StoreTypeOK
  <2> QED
    BY <2>1, CommitInfosFunction DEF Names
<1>13. NewestInv'
  <2> SUFFICES ASSUME latest # 0, NEW n \in DOMAIN infos[latest] \ Leaked
               PROVE  \E w \in versions'[n] : w >= latest
    BY <1>1 DEF NewestInv
  <2>1. PICK m \in versions[n] : m >= latest
    BY DEF KInv, NewestInv
  <2>2. n \in Trees
    BY <1>12
  <2>3. CASE n = s /\ m = v
    <3>1. PICK w \in versions[s] : w > to
      BY <1>4
    <3>2. w \in Nat /\ w # v /\ w >= latest
      BY <1>3, <1>4, <2>1, <2>3, <3>1
    <3> QED
      BY <1>5, <2>3, <3>1, <3>2
  <2>4. CASE n # s \/ m # v
    BY <1>5, <2>1, <2>2, <2>4
  <2> QED
    BY <2>3, <2>4
<1>14. LInv => LInv'
  <2> SUFFICES ASSUME LInv PROVE LInv'
    OBVIOUS
  <2>1. latest # 0 => Loadable(latest)'
    <3> SUFFICES ASSUME latest # 0 PROVE Loadable(latest)'
      OBVIOUS
    <3>1. to < latest /\ latest \in Versions
      BY <1>1 DEF LInv, PrunesBelow, KInv, StoreTypeOK
    <3>2. \A n \in DOMAIN infos[latest] \ Leaked : infos[latest][n] = latest /\ latest \in versions[n]
      BY DEF LInv, LatestLoadable, Loadable, CanLoad
    <3>3. \A n \in DOMAIN infos[latest] \ Leaked : latest \in versions'[n]
      BY <1>3, <1>5, <1>12, <3>1, <3>2
    <3> QED
      BY <1>1, <1>12, <3>2, <3>3 DEF LInv, LatestLoadable, Loadable, CanLoad
  <2> QED
    BY <1>1, <2>1 DEF LInv, LatestLoadable, PrunesBelow
<1> QED
  BY <1>6, <1>8, <1>10, <1>11, <1>13, <1>14 DEF KInv

(* Giving up on stores touches none of them.                               *)
LEMMA SkipStep ==
  ASSUME KInv, NEW s \in Trees, StoreDone(s) \/ DeleteFails(s)
  PROVE  KInv' /\ (LInv => LInv')
<1>1. /\ proc \in {"history", "pruning"} /\ todo' \subseteq todo /\ skipped' \subseteq skipped \cup todo \cup {s}
      /\ UNCHANGED <<versions, infos, latest, mounts, proc, tree, to, ids, stops>>
  BY DEF StoreDone, DeleteFails
<1>2. Version' = Version
  BY <1>1 DEF Version
<1>3. StoreTypeOK'
  BY <1>1 DEF KInv, StoreTypeOK
<1>4. DiskInv' /\ NewestInv' /\ TreeInv'
  BY <1>1, <1>2 DEF KInv, DiskInv, NewestInv, TreeInv, Node
<1>5. CommitInv'
  BY <1>1, <1>2 DEF KInv, CommitInv, Committing
<1>6. LInv => LInv'
  BY <1>1 DEF LInv, LatestLoadable, PrunesBelow, Loadable, CanLoad
<1> QED
  BY <1>3, <1>4, <1>5, <1>6 DEF KInv

----------------------------------------------------------------------------
LEMMA NodeStepInv ==
  ASSUME KInv, [NodeNext]_storeVars
  PROVE  KInv' /\ (LInv => LInv')
<1>1. CASE NodeLoad
  BY <1>1, LoadStep
<1>2. CASE NodeStops
  <2>1. Forget /\ UNCHANGED <<versions, infos, latest, mounts, skipped>>
          /\ stops' = stops + 1 /\ stops < MaxStops
    BY <1>2 DEF NodeStops
  <2>2. skipped' \in SUBSET Trees /\ stops' \in 0..MaxStops
    BY <2>1, MultiStoreAssumption DEF KInv, StoreTypeOK, MultiStoreAssumption
  <2> QED
    BY <2>1, <2>2, ForgetStep
<1>3. CASE BeginCommit
  BY <1>3, BeginStep
<1>4. CASE StoresCommitted
  BY <1>4, CommittedStep
<1>5. CASE HistoryPruned
  BY <1>5, HistoryStep
<1>6. CASE FlushMetadata
  BY <1>6, FlushStep
<1>7. ASSUME NEW s \in Trees, CommitStore(s)
      PROVE  KInv' /\ (LInv => LInv')
  BY <1>7, CommitStoreStep
<1>8. ASSUME NEW s \in Trees, PruneStore(s)
      PROVE  KInv' /\ (LInv => LInv')
  BY <1>8, DeleteStep, SkipStep DEF PruneStore
<1>9. CASE UNCHANGED storeVars
  <2>1. KInv' = KInv
    BY <1>9 DEF storeVars, KInv, StoreTypeOK, DiskInv, TreeInv, CommitInv, NewestInv, Version
  <2>2. LInv' = LInv
    BY <1>9 DEF storeVars, LInv, LatestLoadable, PrunesBelow, Loadable, CanLoad
  <2> QED
    BY <2>1, <2>2
<1> QED
  BY <1>1, <1>2, <1>3, <1>4, <1>5, <1>6, <1>7, <1>8, <1>9 DEF NodeNext

----------------------------------------------------------------------------
(* The refinement of AppHistory. *)

(* A step that neither flushes nor deletes leaves what can be loaded.      *)
LEMMA KeptSame ==
  ASSUME KInv, UNCHANGED <<infos, latest>>, latest \in Nat,
         \A n \in Trees, v \in Versions : v <= latest => (v \in versions[n] <=> v \in versions'[n])
  PROVE  Kept' = Kept
<1>1. \A v \in 1..MaxVersion : v \in Versions
  BY DEF Versions
<1>2. ASSUME NEW v \in 1..MaxVersion, v <= latest
      PROVE  Loadable(v)' <=> Loadable(v)
  <2>1. \A n : n \in Trees => (CanLoad(n, v)' <=> CanLoad(n, v))
    BY <1>1, <1>2 DEF CanLoad
  <2>2. \A n : n \notin Trees => (CanLoad(n, v)' <=> CanLoad(n, v))
    BY DEF CanLoad
  <2> QED
    BY <2>1, <2>2 DEF Loadable
<1> QED
  BY <1>2 DEF Kept

(* Only FlushMetadata writes commit infos, and then for the new latest     *)
(* version.                                                                *)
LEMMA FreshStep ==
  ASSUME KInv, FreshInv, [NodeNext]_storeVars
  PROVE  FreshInv'
<1>1. latest \in Nat /\ Version \in Nat /\ latest < Version /\ \A v \in Versions : v \in Nat
  BY VersionFacts, MultiStoreAssumption DEF KInv, Versions, MultiStoreAssumption
<1>2. CASE UNCHANGED <<infos, latest>>
  BY <1>2 DEF FreshInv, NoInfo
<1>3. CASE FlushMetadata
  <2>1. latest' = Version /\ infos' = [infos EXCEPT ![Version] = ids]
    BY <1>3 DEF FlushMetadata
  <2>2. \A v \in Versions : v # Version => infos'[v] = infos[v]
    BY <2>1 DEF KInv, StoreTypeOK
  <2> QED
    BY <1>1, <2>1, <2>2 DEF FreshInv, NoInfo
<1>4. UNCHANGED <<infos, latest>> \/ FlushMetadata
  BY DEF NodeNext, NodeLoad, NodeStops, BeginCommit, StoresCommitted, HistoryPruned, CommitStore,
         PruneStore, DeleteOldest, StoreDone, DeleteFails, storeVars
<1> QED
  BY <1>2, <1>3, <1>4

(* The steps of AppHistory, over the versions that load. *)
Grows ==
  /\ latest' \in Nat /\ latest' > latest
  /\ Kept' = Kept \cup {latest'}

Thins ==
  /\ Kept' \in SUBSET Kept
  /\ latest \in Kept => latest \in Kept'
  /\ UNCHANGED latest

LEMMA NodeStepHistory ==
  ASSUME KInv, LInv, FreshInv, [NodeNext]_storeVars
  PROVE  Grows \/ Thins \/ UNCHANGED <<Kept, latest>>
<1>1. latest \in Nat /\ Version \in Nat /\ latest < Version /\ \A v \in Versions : v \in Nat
  BY VersionFacts, MultiStoreAssumption DEF KInv, Versions, MultiStoreAssumption
<1>2. ASSUME UNCHANGED <<versions, infos, latest>> PROVE UNCHANGED <<Kept, latest>>
  BY <1>1, <1>2, KeptSame
<1>3. CASE FlushMetadata
  <2>1. /\ latest' = Version /\ infos' = [infos EXCEPT ![Version] = ids] /\ versions' = versions
        /\ proc = "flush"
    BY <1>3 DEF FlushMetadata
  <2>2. Version \in Versions /\ Version >= 1 /\ Version \in 1..MaxVersion
    BY <1>1, <2>1 DEF KInv, CommitInv, Committing, Versions
  <2>3. infos' \in [Versions -> CommitInfos] /\ \A v \in Versions : v # Version => infos'[v] = infos[v]
    BY <2>1, <2>2 DEF KInv, StoreTypeOK
  <2>4. \A v \in 1..MaxVersion : v <= latest => (Loadable(v)' <=> Loadable(v))
    <3> SUFFICES ASSUME NEW v \in 1..MaxVersion, v <= latest PROVE Loadable(v)' <=> Loadable(v)
      OBVIOUS
    <3>1. v \in Versions /\ v # Version
      BY <1>1 DEF Versions
    <3>2. infos'[v] = infos[v]
      BY <2>3, <3>1
    <3> QED
      BY <2>1, <3>2 DEF Loadable, CanLoad
  <2>5. \A v \in 1..MaxVersion : v > latest /\ v # Version => ~Loadable(v)'
    <3>1. \A v \in Versions : v > latest => infos[v] = NoInfo
      BY DEF FreshInv
    <3>2. \A v \in 1..MaxVersion : v \in Versions
      BY DEF Versions
    <3>3. NoInfo' = NoInfo
      BY DEF NoInfo
    <3> QED
      BY <2>3, <3>1, <3>2, <3>3 DEF Loadable
  <2>6. \A v \in 1..MaxVersion : v = Version => Loadable(v)'
    <3>1. Loadable(latest)'
      BY <1>1, <1>3, <2>1, FlushStep DEF LInv, LatestLoadable
    <3> QED
      BY <2>1, <3>1 DEF Loadable, CanLoad
  <2>7. Kept' = Kept \cup {latest'}
    <3>1. ASSUME NEW v \in 1..MaxVersion
          PROVE  v \in Kept' <=> v \in Kept \cup {Version}
      <4>1. CASE v = Version
        BY <1>1, <2>1, <2>6, <4>1 DEF Kept
      <4>2. CASE v # Version /\ v <= latest
        BY <1>1, <2>1, <2>4, <4>2 DEF Kept
      <4>3. CASE v # Version /\ v > latest
        BY <1>1, <2>5, <4>3 DEF Kept
      <4> QED
        BY <1>1, <4>1, <4>2, <4>3
    <3>2. Kept \subseteq 1..MaxVersion /\ Kept' \subseteq 1..MaxVersion
      BY DEF Kept
    <3> QED
      BY <2>1, <2>2, <3>1, <3>2
  <2> QED
    BY <1>1, <2>1, <2>7 DEF Grows
<1>4. ASSUME NEW s \in Trees, CommitStore(s)
      PROVE  UNCHANGED <<Kept, latest>>
  <2>1. versions' = [versions EXCEPT ![s] = @ \cup {Version}] /\ UNCHANGED <<infos, latest>>
    BY <1>4, CommitStoreSaves DEF CommitStore
  <2>2. versions \in [Trees -> SUBSET Versions]
    BY DEF KInv, StoreTypeOK
  <2>3. \A v \in Versions : v <= latest => v # Version
    BY <1>1
  <2>4. \A n \in Trees, v \in Versions : v <= latest => (v \in versions[n] <=> v \in versions'[n])
    BY <2>1, <2>2, <2>3
  <2> QED
    BY <1>1, <2>1, <2>4, KeptSame
<1>5. ASSUME NEW s \in Trees, DeleteOldest(s)
      PROVE  Thins
  <2>1. UNCHANGED <<infos, latest>> /\ versions \in [Trees -> SUBSET Versions]
          /\ \A n \in Trees : versions'[n] \subseteq versions[n]
    BY <1>5 DEF DeleteOldest, KInv, StoreTypeOK
  <2>2. ASSUME NEW v \in 1..MaxVersion, Loadable(v)'
        PROVE  Loadable(v)
    <3>1. NoInfo' = NoInfo
      BY DEF NoInfo
    <3>2. infos[v] # NoInfo
            /\ \A n \in DOMAIN infos[v] \ Leaked : infos[v][n] = v /\ n \in Trees /\ v \in versions'[n]
      BY <2>1, <2>2, <3>1 DEF Loadable, CanLoad, Trees
    <3> QED
      BY <2>1, <3>2 DEF Loadable, CanLoad
  <2>3. Kept' \subseteq Kept
    BY <2>1, <2>2 DEF Kept
  <2>4. latest \in Kept => latest' \in Kept'
    <3>1. latest \in Kept => latest # 0
      BY DEF Kept
    <3>2. latest # 0 => Loadable(latest)'
      BY <1>5, <2>1, DeleteStep DEF LInv, LatestLoadable
    <3> QED
      BY <2>1, <3>1, <3>2 DEF Kept
  <2> QED
    BY <2>1, <2>3, <2>4 DEF Thins
<1>6. CASE NodeLoad
  BY <1>2, <1>6 DEF NodeLoad
<1>7. CASE NodeStops
  BY <1>2, <1>7 DEF NodeStops
<1>8. CASE BeginCommit
  BY <1>2, <1>8 DEF BeginCommit
<1>9. CASE StoresCommitted
  BY <1>2, <1>9 DEF StoresCommitted
<1>10. CASE HistoryPruned
  BY <1>2, <1>10 DEF HistoryPruned
<1>11. ASSUME NEW s \in Trees, StoreDone(s) \/ DeleteFails(s)
       PROVE  UNCHANGED <<Kept, latest>>
  BY <1>2, <1>11 DEF StoreDone, DeleteFails
<1>12. CASE UNCHANGED storeVars
  BY <1>2, <1>12 DEF storeVars
<1>13. ASSUME NEW s \in Trees, PruneStore(s)
       PROVE  Thins \/ UNCHANGED <<Kept, latest>>
  BY <1>5, <1>11, <1>13 DEF PruneStore
<1> QED
  BY <1>3, <1>4, <1>6, <1>7, <1>8, <1>9, <1>10, <1>12, <1>13 DEF NodeNext

LEMMA InitHistory == StoreInit => History!Init
<1> SUFFICES ASSUME StoreInit PROVE History!Init
  OBVIOUS
<1>1. latest = 0
  BY DEF StoreInit
<1>2. Kept = {}
  BY <1>1 DEF Kept
<1> QED
  BY <1>1, <1>2 DEF History!Init

----------------------------------------------------------------------------
LEMMA NodeInv == NodeSpec => [](KInv /\ LInv /\ FreshInv)
<1>1. KInv /\ LInv /\ FreshInv /\ [NodeNext]_storeVars => (KInv /\ LInv /\ FreshInv)'
  BY NodeStepInv, FreshStep
<1> QED
  BY <1>1, InitStore, PTL DEF NodeSpec

(* The variables keep their types, whatever the node does: in particular,  *)
(* no version and no height of a prune leaves its range.                   *)
THEOREM StoreTypes == NodeSpec => []StoreTypeOK
<1>1. KInv => StoreTypeOK
  BY DEF KInv
<1> QED
  BY <1>1, NodeInv, PTL

LEMMA KeptCommitIds == KInv => CommitIdsMatch
<1> SUFFICES ASSUME KInv, proc = "flush"
             PROVE  /\ DOMAIN ids = mounts \cup Leaked
                    /\ \A s \in DOMAIN ids : ids[s] = Version
                    /\ \A s \in mounts : Version \in versions[s]
  BY DEF CommitIdsMatch
<1>1. \A s \in mounts : s \notin Leaked
  BY MultiStoreAssumption DEF KInv, StoreTypeOK, MultiStoreAssumption
<1>2. DOMAIN ids = Leaked \cup mounts
  BY DEF KInv, CommitInv
<1>3. \A s \in DOMAIN ids : ids[s] = Version /\ (s \notin Leaked => Version \in versions[s])
  BY DEF KInv, CommitInv, Committing
<1> QED
  BY <1>1, <1>2, <1>3

(* The commit info that Commit is about to flush names every mounted store *)
(* at the version of the commit, also after a commit that died halfway.    *)
THEOREM StoreCommitIds == NodeSpec => []CommitIdsMatch
BY KeptCommitIds, NodeInv, PTL

(* However often the node dies within a commit, the version that s/latest  *)
(* names can be loaded in every store.                                     *)
THEOREM StoreLatestLoadable == NodeSpec => []LatestLoadable
<1>1. LInv => LatestLoadable
  BY DEF LInv
<1> QED
  BY <1>1, NodeInv, PTL

(* The multi store, with its commits that die between two stores and its   *)
(* prunes that fail in some of them, implements a history in which a       *)
(* version is committed at once and the latest one stays.                  *)
THEOREM StoreImplementsHistory == NodeSpec => ImplementsHistory
<1>1. KInv /\ LInv /\ FreshInv /\ [NodeNext]_storeVars => [History!Next]_<<Kept, latest, FALSE>>
  BY NodeStepHistory DEF Grows, Thins, History!Next, History!Commit, History!Prune
<1> QED
  BY <1>1, InitHistory, NodeInv, PTL DEF NodeSpec, ImplementsHistory, History!Spec

----------------------------------------------------------------------------
(* The node and the pruner. *)

AInv == KInv /\ TypeOK /\ PanicsOnlyForFlag

(* Between two commits no store has a version above the latest one, where  *)
(* the node does not die within one.                                       *)
Settled ==
  proc \notin Committing => \A s \in Trees : versions[s] \subseteq 1..latest

(* The height asked for is the one below the latest version, and what the  *)
(* loop has passed has no older version left.                              *)
PruneInv ==
  proc = "pruning" =>
    /\ latest # 0 /\ mounted = StoreNames /\ to = latest - 1
    /\ \A s \in mounted \ (todo \cup skipped) : versions[s] \subseteq latest..MaxVersion

OInv == ~overtaken => LInv /\ PruneInv /\ result # "failed"

BInv == ~overtaken /\ LInv /\ PruneInv /\ result # "failed" /\ Settled

----------------------------------------------------------------------------
(* The index that PruneAppState computes. *)

LEMMA VersionsFinite ==
  ASSUME NEW S \in SUBSET Versions
  PROVE  IsFiniteSet(S) /\ Cardinality(S) \in Nat /\ \A v \in S : v \in Nat
<1>1. IsFiniteSet(Versions)
  BY FS_Interval, MultiStoreAssumption DEF Versions, MultiStoreAssumption
<1>2. IsFiniteSet(S)
  BY <1>1, FS_Subset
<1>3. \A v \in S : v \in Nat
  BY MultiStoreAssumption DEF Versions, MultiStoreAssumption
<1> QED
  BY <1>2, <1>3, FS_CardinalityType

(* The versions below one of a list, and how many there are at most.       *)
LEMMA Below ==
  ASSUME NEW S \in SUBSET Versions, NEW v \in S
  PROVE  /\ Cardinality({w \in S : w < v}) \in Nat
         /\ Cardinality({w \in S : w < v}) <= Cardinality(S) - 1
         /\ Cardinality({w \in S : w < v}) = Cardinality(S) - 1 <=> \A w \in S : w <= v
<1> DEFINE below == {w \in S : w < v}
<1>1. IsFiniteSet(S) /\ Cardinality(S) \in Nat /\ \A w \in S : w \in Nat
  BY VersionsFinite
<1>2. IsFiniteSet(S \ {v}) /\ Cardinality(S \ {v}) = Cardinality(S) - 1
  BY <1>1, FS_RemoveElement
<1>3. below \in SUBSET (S \ {v})
  BY <1>1
<1>4. /\ IsFiniteSet(below) /\ Cardinality(below) <= Cardinality(S \ {v})
      /\ Cardinality(S \ {v}) = Cardinality(below) => S \ {v} = below
  BY <1>2, <1>3, FS_Subset
<1>5. Cardinality(below) \in Nat
  BY <1>4, FS_CardinalityType
<1>6. below = S \ {v} <=> \A w \in S : w <= v
  BY <1>1
<1>7. below = S \ {v} => Cardinality(below) = Cardinality(S \ {v})
  OBVIOUS
<1> HIDE DEF below
<1>8. Cardinality(below) = Cardinality(S) - 1 <=> \A w \in S : w <= v
  BY <1>1, <1>2, <1>4, <1>5, <1>6, <1>7
<1>9. Cardinality(below) <= Cardinality(S) - 1
  BY <1>2, <1>4
<1> QED
  BY <1>5, <1>8, <1>9 DEF below

(* Idx is at least that of the newest version, whatever the subtraction    *)
(* wraps to, and past it only for a flag that is 0 or negative as an int64.*)
LEMMA IdxBounds ==
  ASSUME NEW n \in 0..(MaxVersion + 1), NEW keep \in 0..(Word - 1)
  PROVE  /\ Idx(n, keep) \in Int /\ Idx(n, keep) >= n - 1
         /\ keep # 0 /\ keep <= Word \div 2 => Idx(n, keep) = n - 1
<1> DEFINE d == n - keep
           w == Word
           x == Signed(d % w)
<1>1. /\ w \in Nat /\ w % 2 = 0 /\ n \in Int /\ n >= 0 /\ n < w \div 2
      /\ keep \in Int /\ keep >= 0 /\ keep < w
  BY AppStateAssumption, MultiStoreAssumption DEF AppStateAssumption, MultiStoreAssumption
<1>2. d \in Int /\ d > -w /\ d < w \div 2
  BY <1>1
<1>3. w = 2 * (w \div 2) /\ w \div 2 \in Nat
  BY <1>1
<1>4. d % w = IF d >= 0 THEN d ELSE d + w
  <2>1. CASE d >= 0
    <3>1. d % w = d
      BY <1>1, <1>2, <1>3, <2>1
    <3> QED
      BY <2>1, <3>1
  <2>2. CASE d < 0
    <3>1. d % w = d + w
      BY <1>1, <1>2, <1>3, <2>2
    <3> QED
      BY <1>2, <2>2, <3>1
  <2> QED
    BY <1>2, <2>1, <2>2
<1>5. d % w \in Int
  BY <1>1, <1>2, <1>4
<1>6. x \in Int /\ (keep # 0 /\ keep <= w \div 2 => x <= n - 1)
  BY <1>1, <1>2, <1>3, <1>4, <1>5 DEF Signed
<1>7. Idx(n, keep) = LargerOf(x, n - 1)
  BY DEF Idx
<1> HIDE DEF x
<1> QED
  BY <1>1, <1>6, <1>7 DEF LargerOf

LEMMA FirstKeptIsNewest ==
  ASSUME NEW S \in SUBSET Versions, NEW keep \in Keeps
  PROVE  /\ \A v \in At(S, Idx(Cardinality(S), keep)) : v \in S /\ \A w \in S : w <= v
         /\ \A v \in S : keep # 0 /\ keep <= Word \div 2 /\ (\A w \in S : w <= v)
                            => v \in At(S, Idx(Cardinality(S), keep))
<1> DEFINE n == Cardinality(S)
<1>1. n \in 0..(MaxVersion + 1)
  <2>1. IsFiniteSet(Versions) /\ Cardinality(Versions) = MaxVersion + 1 /\ MaxVersion \in Nat
    BY FS_Interval, MultiStoreAssumption DEF Versions, MultiStoreAssumption
  <2>2. Cardinality(S) <= Cardinality(Versions)
    BY <2>1, FS_Subset
  <2> QED
    BY <2>1, <2>2, VersionsFinite
<1>2. /\ Idx(n, keep) \in Int /\ Idx(n, keep) >= n - 1
      /\ keep # 0 /\ keep <= Word \div 2 => Idx(n, keep) = n - 1
  BY <1>1, IdxBounds, AppStateAssumption DEF AppStateAssumption
<1>3. ASSUME NEW v \in At(S, Idx(n, keep))
      PROVE  v \in S /\ \A w \in S : w <= v
  <2>1. v \in S /\ Cardinality({w \in S : w < v}) = Idx(n, keep)
    BY DEF At
  <2>2. /\ Cardinality({w \in S : w < v}) <= n - 1
        /\ Cardinality({w \in S : w < v}) = n - 1 <=> \A w \in S : w <= v
    BY <2>1, Below
  <2>3. Idx(n, keep) = n - 1
    BY <1>1, <1>2, <2>1, <2>2
  <2> QED
    BY <2>1, <2>2, <2>3
<1>4. ASSUME NEW v \in S, keep # 0, keep <= Word \div 2, \A w \in S : w <= v
      PROVE  v \in At(S, Idx(n, keep))
  <2>1. Cardinality({w \in S : w < v}) = n - 1
    BY <1>4, Below
  <2> QED
    BY <1>2, <1>4, <2>1 DEF At
<1> QED
  BY <1>3, <1>4

----------------------------------------------------------------------------
LEMMA StoreNamesFacts ==
  ASSUME KInv
  PROVE  /\ StoreNames = DOMAIN infos[latest] \ Leaked /\ StoreNames \subseteq Trees
         /\ latest = 0 => StoreNames = {}
         /\ latest \in Nat /\ \A s \in Trees : versions[s] \in SUBSET Versions
<1>1. infos[latest] \in CommitInfos /\ versions \in [Trees -> SUBSET Versions]
  BY DEF KInv, StoreTypeOK
<1>2. DOMAIN infos[latest] \subseteq Names
  BY <1>1, CommitInfosFunction
<1>3. StoreNames = DOMAIN infos[latest] \ Leaked
  BY DEF StoreNames, HasData
<1>4. latest = 0 => StoreNames = {}
  BY <1>3, NoInfoType DEF KInv, DiskInv
<1> QED
  BY <1>1, <1>2, <1>3, <1>4, VersionFacts DEF Names, KInv

(* No store that loads has its index out of range for any other flag.      *)
LEMMA PanicFlag ==
  ASSUME KInv, keepVersions' \in Keeps, Panics
  PROVE  keepVersions' = 0 \/ keepVersions' > Word \div 2
<1> SUFFICES ASSUME keepVersions' # 0, keepVersions' <= Word \div 2 PROVE FALSE
  <2>1. keepVersions' \in Int /\ Word \div 2 \in Int
    BY AppStateAssumption DEF AppStateAssumption
  <2> QED
    BY <2>1
<1>1. PICK s \in StoreNames : FirstKept(s) = {}
  BY DEF Panics
<1>2. s \in Trees /\ versions[s] \in SUBSET Versions /\ s \in DOMAIN infos[latest] /\ latest # 0
  BY StoreNamesFacts DEF StoreNames
<1>3. latest \in versions[s]
  BY <1>1, <1>2 DEF Panics, CanLoad
<1>4. /\ versions[s] \subseteq 1..Version /\ Version = latest + 1 /\ latest \in Nat
      /\ \A w \in versions[s] : w \in Nat
  BY <1>2, VersionFacts DEF KInv, DiskInv
<1>5. \E v \in versions[s] : \A w \in versions[s] : w <= v
  <2>1. CASE Version \in versions[s]
    BY <1>4, <2>1
  <2>2. CASE Version \notin versions[s]
    BY <1>3, <1>4, <2>2
  <2> QED
    BY <2>1, <2>2
<1> QED
  BY <1>1, <1>2, <1>5, FirstKeptIsNewest DEF FirstKept

LEMMA StartFacts ==
  ASSUME AInv, StartPrune
  PROVE  /\ proc = "down" /\ mounted' = StoreNames /\ mounted' \in SUBSET Names
         /\ keepVersions' \in Keeps /\ prunes' \in 0..MaxPrunes
<1>1. proc = "down" /\ mounted' = StoreNames /\ keepVersions' \in Keeps
        /\ prunes' = prunes + 1 /\ prunes < MaxPrunes
  BY DEF StartPrune
<1>2. StoreNames \subseteq Names
  BY StoreNamesFacts DEF AInv, Names
<1> QED
  BY <1>1, <1>2, AppStateAssumption DEF AInv, TypeOK, AppStateAssumption

(* The prune that begins asks for a height below the newest version of the *)
(* store that answered.                                                    *)
LEMMA BeginPruneStep ==
  ASSUME AInv, BeginPrune
  PROVE  AInv' /\ (OInv => OInv') /\ (BInv => BInv')
<1>1. /\ proc' = "pruning" /\ result' = "none" /\ skipped' = {}
      /\ UNCHANGED <<versions, infos, latest, mounts, tree, ids, stops>>
      /\ StartPrune /\ \A s \in StoreNames : CanLoad(s, latest)
  BY DEF BeginPrune
<1>2. /\ proc = "down" /\ mounted' = StoreNames /\ mounted' \in SUBSET Names
      /\ keepVersions' \in Keeps /\ prunes' \in 0..MaxPrunes
  BY <1>1, StartFacts
<1>3. PICK s \in StoreNames : \E v \in FirstKept(s) :
        /\ to' = v - 1 /\ todo' = IF v - 1 <= 0 THEN {} ELSE StoreNames
        /\ overtaken' = (overtaken \/ v > latest)
  BY DEF BeginPrune
<1>4. PICK v \in FirstKept(s) :
        /\ to' = v - 1 /\ todo' = IF v - 1 <= 0 THEN {} ELSE StoreNames
        /\ overtaken' = (overtaken \/ v > latest)
  BY <1>3
<1>5. /\ s \in Trees /\ versions[s] \in SUBSET Versions /\ s \in DOMAIN infos[latest]
      /\ latest # 0 /\ latest \in Nat /\ StoreNames \subseteq Trees
  BY StoreNamesFacts DEF StoreNames, AInv
<1>6. v \in versions[s] /\ \A w \in versions[s] : w <= v
  BY <1>2, <1>5, FirstKeptIsNewest DEF FirstKept
<1>7. v \in Versions /\ v >= 1 /\ to' \in Versions /\ v \in Nat
  <2>1. versions[s] \subseteq 1..Version /\ Version \in Nat
    BY <1>5, VersionFacts DEF AInv, KInv, DiskInv
  <2> QED
    BY <1>4, <1>5, <1>6, <2>1, MultiStoreAssumption DEF Versions, MultiStoreAssumption
<1>8. todo' \subseteq Trees
  BY <1>4, <1>5
<1>9. KInv'
  <2>1. StoreTypeOK'
    BY <1>1, <1>7, <1>8 DEF AInv, KInv, StoreTypeOK
  <2>2. DiskInv' /\ NewestInv'
    BY <1>1 DEF AInv, KInv, DiskInv, NewestInv, Version
  <2>3. TreeInv' /\ CommitInv'
    BY <1>1 DEF TreeInv, CommitInv, Node, Committing
  <2> QED
    BY <2>1, <2>2, <2>3 DEF KInv
<1>10. overtaken' \in BOOLEAN /\ (~overtaken' <=> ~overtaken /\ v <= latest)
  <2>1. overtaken' = (overtaken \/ v > latest)
    BY <1>4
  <2>2. v > latest <=> ~(v <= latest)
    BY <1>5, <1>7
  <2> QED
    BY <2>1, <2>2, Zenon
<1>11. AInv'
  BY <1>1, <1>2, <1>9, <1>10 DEF AInv, TypeOK, KInv, PanicsOnlyForFlag
<1>12. ASSUME v <= latest, LInv
       PROVE  LInv' /\ PruneInv'
  <2>1. latest \in versions[s]
    BY <1>1, <1>5 DEF CanLoad
  <2>2. v = latest
    BY <1>5, <1>6, <1>7, <1>12, <2>1
  <2>3. LInv'
    BY <1>1, <1>4, <1>5, <1>12, <2>2 DEF LInv, LatestLoadable, Loadable, CanLoad, PrunesBelow
  <2>4. StoreNames' = StoreNames
    BY <1>1 DEF StoreNames
  <2>5. ASSUME NEW n \in mounted' \ (todo' \cup skipped')
        PROVE  versions'[n] \subseteq latest'..MaxVersion
    <3>1. latest = 1 /\ n \in Trees
      BY <1>1, <1>2, <1>4, <1>5, <2>2, <2>5
    <3>2. versions[n] \subseteq 1..Version /\ versions[n] \subseteq Versions /\ Version \in Nat
      BY <3>1, StoreNamesFacts, VersionFacts DEF AInv, KInv, DiskInv
    <3> QED
      BY <1>1, <3>1, <3>2, MultiStoreAssumption DEF Versions, MultiStoreAssumption
  <2>6. PruneInv'
    BY <1>1, <1>2, <1>4, <1>5, <2>2, <2>4, <2>5 DEF PruneInv
  <2> QED
    BY <2>3, <2>6
<1>13. OInv => OInv'
  <2> SUFFICES ASSUME OInv, ~overtaken' PROVE LInv' /\ PruneInv' /\ result' # "failed"
    BY DEF OInv
  <2>1. ~overtaken /\ v <= latest
    BY <1>10
  <2> QED
    BY <1>1, <1>12, <2>1 DEF OInv
<1>14. BInv => BInv'
  <2> SUFFICES ASSUME BInv PROVE BInv'
    OBVIOUS
  <2>1. versions[s] \subseteq 1..latest
    BY <1>2, <1>5 DEF BInv, Settled, Committing
  <2>2. v <= latest
    BY <1>5, <1>6, <2>1
  <2>3. ~overtaken'
    BY <1>10, <2>2 DEF BInv
  <2>4. Settled'
    BY <1>1, <1>2 DEF BInv, Settled, Committing
  <2> QED
    BY <1>1, <1>12, <2>2, <2>3, <2>4 DEF BInv
<1> QED
  BY <1>11, <1>13, <1>14

(* A run that does not get as far as the deletions.                        *)
LEMMA NoPruneStep ==
  ASSUME AInv, LoadFails \/ NothingToPrune \/ Panics
  PROVE  AInv' /\ (OInv => OInv') /\ (BInv => BInv')
<1>1. StartPrune /\ UNCHANGED <<storeVars, overtaken>>
  BY DEF LoadFails, NothingToPrune, Panics
<1>2. /\ proc = "down" /\ mounted' \in SUBSET Names
      /\ keepVersions' \in Keeps /\ prunes' \in 0..MaxPrunes
  BY <1>1, StartFacts
<1>3. KInv' /\ (LInv => LInv')
  BY <1>1, NodeStepInv DEF AInv
<1>4. \/ LoadFails /\ result' = "failed"
      \/ NothingToPrune /\ result' = "done"
      \/ Panics /\ result' = "panicked" /\ (keepVersions' = 0 \/ keepVersions' > Word \div 2)
  <2>1. Panics => keepVersions' = 0 \/ keepVersions' > Word \div 2
    BY <1>2, PanicFlag DEF AInv
  <2> QED
    BY <2>1 DEF LoadFails, NothingToPrune, Panics
<1>5. PanicsOnlyForFlag'
  BY <1>4 DEF PanicsOnlyForFlag
<1>6. AInv'
  BY <1>1, <1>2, <1>3, <1>4, <1>5 DEF AInv, TypeOK, KInv
<1>7. LInv => result' # "failed"
  <2> SUFFICES ASSUME LInv PROVE ~LoadFails
    BY <1>4
  <2> SUFFICES ASSUME NEW s \in StoreNames PROVE CanLoad(s, latest)
    BY DEF LoadFails
  <2>1. latest # 0 /\ s \in DOMAIN infos[latest] \ Leaked
    BY StoreNamesFacts DEF AInv
  <2> QED
    BY <2>1 DEF LInv, LatestLoadable, Loadable
<1>8. PruneInv' /\ (Settled => Settled')
  BY <1>1, <1>2 DEF Settled, PruneInv, storeVars
<1> QED
  BY <1>1, <1>3, <1>6, <1>7, <1>8 DEF OInv, BInv

(* The pruner ends, or is killed between two deletions. *)
LEMMA PruneEndsStep ==
  ASSUME AInv, PruneEnds \/ PrunerKilled
  PROVE  AInv' /\ (OInv => OInv') /\ (BInv => BInv')
<1>1. /\ proc = "pruning" /\ Forget /\ proc' = "down" /\ result' \in {"done", "killed"}
      /\ UNCHANGED <<versions, infos, latest, mounts, skipped, stops, keepVersions, mounted, prunes,
                     overtaken>>
  BY DEF PruneEnds, PrunerKilled, Forget
<1>2. KInv' /\ (LInv => LInv')
  <2>1. skipped' \in SUBSET Trees /\ stops' \in 0..MaxStops
    BY <1>1 DEF AInv, KInv, StoreTypeOK
  <2> QED
    BY <1>1, <2>1, ForgetStep DEF AInv
<1>3. AInv'
  BY <1>1, <1>2 DEF AInv, TypeOK, KInv, PanicsOnlyForFlag
<1>4. PruneInv' /\ result' # "failed" /\ (Settled => Settled')
  BY <1>1 DEF Settled, PruneInv, Committing
<1> QED
  BY <1>1, <1>2, <1>3, <1>4 DEF OInv, BInv

----------------------------------------------------------------------------
(* The node's steps, and those of the loop that it shares with the pruner. *)

LEMMA SettledStep ==
  ASSUME "node" \notin Kills, KInv, Settled, [NodeNext]_storeVars
  PROVE  Settled'
<1>1. latest \in Nat /\ Version \in Nat /\ latest < Version /\ versions \in [Trees -> SUBSET Versions]
        /\ \A s \in Trees : versions[s] \subseteq 1..Version
  BY VersionFacts DEF KInv, StoreTypeOK, DiskInv
<1>2. ASSUME UNCHANGED <<versions, latest>>, proc' \notin Committing => proc \notin Committing
      PROVE  Settled'
  BY <1>2 DEF Settled
<1>3. CASE FlushMetadata
  BY <1>1, <1>3 DEF FlushMetadata, Settled
<1>4. ASSUME NEW s \in Trees, CommitStore(s)
      PROVE  Settled'
  BY <1>4 DEF CommitStore, Settled, Committing
<1>5. ASSUME NEW s \in Trees, DeleteOldest(s)
      PROVE  Settled'
  <2>1. \A n \in Trees : versions'[n] \subseteq versions[n]
    BY <1>1, <1>5 DEF DeleteOldest
  <2> QED
    BY <1>5, <2>1 DEF DeleteOldest, Settled
<1>6. ASSUME NEW s \in Trees, PruneStore(s)
      PROVE  Settled'
  BY <1>2, <1>5, <1>6 DEF PruneStore, StoreDone, DeleteFails
<1>7. CASE NodeLoad
  BY <1>2, <1>7 DEF NodeLoad, Committing
<1>8. CASE NodeStops
  BY <1>2, <1>8 DEF NodeStops, Committing
<1>9. CASE BeginCommit \/ StoresCommitted \/ HistoryPruned
  BY <1>9 DEF BeginCommit, StoresCommitted, HistoryPruned, Settled, Committing
<1>10. CASE UNCHANGED storeVars
  BY <1>2, <1>10 DEF storeVars
<1> QED
  BY <1>3, <1>4, <1>6, <1>7, <1>8, <1>9, <1>10 DEF NodeNext

LEMMA LoopStep ==
  ASSUME KInv, LInv, PruneInv, UNCHANGED mounted, [NodeNext]_storeVars
  PROVE  PruneInv'
<1> SUFFICES ASSUME proc' = "pruning"
             PROVE  /\ latest' # 0 /\ mounted' = StoreNames' /\ to' = latest' - 1
                    /\ \A n \in mounted' \ (todo' \cup skipped') : versions'[n] \subseteq latest'..MaxVersion
  BY DEF PruneInv
<1>1. \/ UNCHANGED storeVars
      \/ \E s \in Trees : proc = "pruning" /\ PruneStore(s)
  BY DEF NodeNext, NodeLoad, NodeStops, Forget, BeginCommit, StoresCommitted, HistoryPruned,
         FlushMetadata, CommitStore, PruneStore, DeleteOldest, StoreDone, DeleteFails
<1>2. proc = "pruning" /\ UNCHANGED <<infos, latest, to>>
  BY <1>1 DEF storeVars, PruneStore, DeleteOldest, StoreDone, DeleteFails
<1>3. /\ latest # 0 /\ mounted = StoreNames /\ to = latest - 1 /\ latest \in Nat
      /\ \A s \in mounted \ (todo \cup skipped) : versions[s] \subseteq latest..MaxVersion
      /\ StoreNames \subseteq Trees /\ \A n \in Trees : versions[n] \in SUBSET Versions
  BY <1>2, StoreNamesFacts DEF PruneInv
<1>4. StoreNames' = StoreNames
  BY <1>2 DEF StoreNames
<1>5. ASSUME NEW n \in mounted \ (todo' \cup skipped')
      PROVE  versions'[n] \subseteq latest..MaxVersion
  <2>1. CASE UNCHANGED storeVars
    BY <1>3, <1>5, <2>1 DEF storeVars
  <2>2. ASSUME NEW s \in Trees, DeleteOldest(s)
        PROVE  versions'[n] \subseteq latest..MaxVersion
    <3>1. versions'[n] \subseteq versions[n] /\ UNCHANGED <<todo, skipped>>
      BY <1>3, <1>5, <2>2 DEF DeleteOldest, KInv, StoreTypeOK
    <3> QED
      BY <1>3, <1>5, <3>1
  <2>3. ASSUME NEW s \in Trees, StoreDone(s)
        PROVE  versions'[n] \subseteq latest..MaxVersion
    <3>1. todo' = todo \ {s} /\ UNCHANGED <<versions, skipped>> /\ ~CanDelete(s)
      BY <2>3 DEF StoreDone
    <3>2. CASE n = s
      <4>1. latest \in versions[n] /\ versions[n] \subseteq 0..MaxVersion
        BY <1>3, <1>5 DEF LInv, LatestLoadable, Loadable, CanLoad, StoreNames, HasData, Versions
      <4>2. \A w \in versions[n] : ~(w <= to)
        BY <1>3, <3>1, <3>2, <4>1 DEF CanDelete
      <4> QED
        BY <1>3, <3>1, <4>1, <4>2, MultiStoreAssumption DEF MultiStoreAssumption
    <3>3. CASE n # s
      BY <1>3, <1>5, <3>1, <3>3
    <3> QED
      BY <3>2, <3>3
  <2>4. ASSUME NEW s \in Trees, DeleteFails(s)
        PROVE  versions'[n] \subseteq latest..MaxVersion
    <3>1. versions' = versions /\ n \notin todo \cup skipped
      BY <1>5, <2>4 DEF DeleteFails
    <3> QED
      BY <1>3, <1>5, <3>1
  <2> QED
    BY <1>1, <2>1, <2>2, <2>3, <2>4 DEF PruneStore
<1> QED
  BY <1>2, <1>3, <1>4, <1>5

LEMMA NextApp ==
  ASSUME AInv, [Next]_vars
  PROVE  /\ AInv' /\ (OInv => OInv')
         /\ "node" \notin Kills /\ BInv => BInv'
<1>1. ASSUME [NodeNext]_storeVars, UNCHANGED pruneVars
      PROVE  /\ AInv' /\ (OInv => OInv')
             /\ "node" \notin Kills /\ BInv => BInv'
  <2>1. KInv' /\ (LInv => LInv')
    BY <1>1, NodeStepInv DEF AInv
  <2>2. UNCHANGED <<keepVersions, mounted, result, prunes, overtaken>>
    BY <1>1 DEF pruneVars
  <2>3. AInv'
    BY <2>1, <2>2 DEF AInv, TypeOK, KInv, PanicsOnlyForFlag
  <2>4. LInv /\ PruneInv => PruneInv'
    BY <1>1, <2>2, LoopStep DEF AInv
  <2>5. OInv => OInv'
    BY <2>1, <2>2, <2>4 DEF OInv
  <2>6. "node" \notin Kills /\ BInv => BInv'
    BY <1>1, <2>1, <2>2, <2>4, SettledStep DEF AInv, BInv
  <2> QED
    BY <2>3, <2>5, <2>6
<1>2. CASE LoadFails \/ NothingToPrune \/ Panics
  BY <1>2, NoPruneStep
<1>3. CASE BeginPrune
  BY <1>3, BeginPruneStep
<1>4. CASE PruneEnds \/ PrunerKilled
  BY <1>4, PruneEndsStep
<1>5. UNCHANGED vars => UNCHANGED storeVars /\ UNCHANGED pruneVars
  BY DEF vars
<1> QED
  BY <1>1, <1>2, <1>3, <1>4, <1>5 DEF Next

LEMMA InitApp == Init => AInv /\ OInv /\ BInv /\ FreshInv
<1> SUFFICES ASSUME Init PROVE AInv /\ OInv /\ BInv /\ FreshInv
  OBVIOUS
<1>1. KInv /\ LInv /\ FreshInv
  BY InitStore DEF Init
<1>2. TypeOK /\ PanicsOnlyForFlag
  <2>1. 0 \in 0..MaxPrunes
    BY AppStateAssumption DEF AppStateAssumption
  <2>2. result = "none" /\ FALSE \in BOOLEAN
    BY DEF Init
  <2> QED
    BY <1>1, <2>1, <2>2 DEF Init, TypeOK, KInv, PanicsOnlyForFlag
<1>3. Settled /\ PruneInv /\ result # "failed" /\ ~overtaken
  BY DEF Init, StoreInit, Settled, PruneInv
<1> QED
  BY <1>1, <1>2, <1>3 DEF AInv, OInv, BInv

----------------------------------------------------------------------------
(* The pruner writes neither commit infos nor s/latest, and the node does  *)
(* not prune over an interrupted commit.                                   *)
LEMMA PrunerSteps ==
  ASSUME [Next]_vars
  PROVE  \/ [NodeNext]_storeVars /\ UNCHANGED overtaken
         \/ UNCHANGED <<versions, infos, latest>>
BY DEF Next, vars, storeVars, pruneVars, LoadFails, NothingToPrune, Panics, BeginPrune, PruneEnds,
       PrunerKilled

LEMMA AppInv == Spec => [](AInv /\ OInv /\ FreshInv)
<1>1. Init => AInv /\ OInv /\ FreshInv
  BY InitApp
<1>2. AInv /\ OInv /\ [Next]_vars => (AInv /\ OInv)'
  BY NextApp
<1>3. AInv /\ FreshInv /\ [Next]_vars => FreshInv'
  <2>1. UNCHANGED <<versions, infos, latest>> /\ FreshInv => FreshInv'
    BY DEF FreshInv, NoInfo
  <2> QED
    BY <2>1, PrunerSteps, FreshStep DEF AInv
<1> QED
  BY <1>1, <1>2, <1>3, PTL DEF Spec

(* The variables keep their types; the height asked for, which the code    *)
(* gets by subtracting from a stored version, is never negative.           *)
THEOREM AppTypes == Spec => []TypeOK
<1>1. AInv => TypeOK
  BY DEF AInv
<1> QED
  BY <1>1, AppInv, PTL

(* Whatever dies, the node within a commit or the pruner between two       *)
(* deletions, and whatever deletion fails, every store of the latest       *)
(* commit keeps a version at least as new as the latest one.               *)
THEOREM AppNewestVersionKept == Spec => []NewestVersionKept
<1>1. AInv => NewestVersionKept
  BY StoreNamesFacts DEF AInv, KInv, NewestInv, NewestVersionKept
<1> QED
  BY <1>1, AppInv, PTL

(* Pruning between two runs of the node, and dying in either, does not     *)
(* make it flush a commit info that disagrees with its stores.             *)
THEOREM AppCommitIds == Spec => []CommitIdsMatch
<1>1. AInv => CommitIdsMatch
  BY KeptCommitIds DEF AInv
<1> QED
  BY <1>1, AppInv, PTL

(* The index past the end of the versions is reached for no --keep-versions*)
(* from 1 to 2^63, whichever store answers and whatever died before.       *)
THEOREM AppPanicsOnlyForFlag == Spec => []PanicsOnlyForFlag
<1>1. AInv => PanicsOnlyForFlag
  BY DEF AInv
<1> QED
  BY <1>1, AppInv, PTL

(* Whatever dies, the latest version loads in every store until a prune    *)
(* takes its height from a store that an interrupted commit left ahead.    *)
THEOREM AppLatestLoadable == Spec => []LatestLoadsUnlessOvertaken
<1>1. OInv => LatestLoadsUnlessOvertaken
  BY DEF OInv, LInv, LatestLoadsUnlessOvertaken
<1> QED
  BY <1>1, AppInv, PTL

(* Until then no prune finds stores that it cannot load, either.           *)
THEOREM AppPrunerLoads == Spec => []PrunerLoads
<1>1. OInv => PrunerLoads
  BY DEF OInv, PrunerLoads
<1> QED
  BY <1>1, AppInv, PTL

(* And what a prune whose loop has ended leaves, up to the latest version, *)
(* in a store that it did not give up on, loads in all of the stores.      *)
THEOREM AppLeftVersionsLoad == Spec => []LeftVersionsLoad
<1>1. ASSUME AInv, OInv
      PROVE  LeftVersionsLoad
  <2> SUFFICES ASSUME proc = "pruning", todo = {}, ~overtaken,
                      NEW s \in mounted \ skipped, NEW v \in versions[s], v <= latest
               PROVE  Loadable(v)
    BY DEF LeftVersionsLoad
  <2>1. latest # 0 /\ versions[s] \subseteq latest..MaxVersion /\ LatestLoadable
    BY <1>1 DEF OInv, PruneInv, LInv
  <2>2. v = latest
    BY <1>1, <2>1, StoreNamesFacts DEF AInv
  <2> QED
    BY <2>1, <2>2 DEF LatestLoadable
<1> QED
  BY <1>1, AppInv, PTL

(* To the node, a prune with all of its deletions, failures and deaths is  *)
(* one that AppHistory allows, over the node's own deaths as well.         *)
THEOREM AppImplementsHistory == Spec => ImplementsPrunedHistory
<1>1. ASSUME AInv, OInv, FreshInv, [Next]_vars
      PROVE  [PrunedHistory!Next]_<<Kept, latest, overtaken>>
  <2>1. CASE overtaken' = TRUE
    BY <2>1 DEF PrunedHistory!Next, PrunedHistory!Overtake
  <2>2. CASE [NodeNext]_storeVars /\ UNCHANGED overtaken /\ ~overtaken
    BY <1>1, <2>2, NodeStepHistory
       DEF AInv, OInv, Grows, Thins, PrunedHistory!Next, PrunedHistory!Commit, PrunedHistory!Prune
  <2>3. CASE UNCHANGED <<versions, infos, latest>> /\ overtaken' = overtaken
    <3>1. Kept' = Kept
      BY <1>1, <2>3, StoreNamesFacts, KeptSame DEF AInv
    <3> QED
      BY <2>3, <3>1
  <2>4. overtaken \in BOOLEAN /\ overtaken' \in BOOLEAN /\ (overtaken => overtaken')
    <3>1. overtaken \in BOOLEAN /\ overtaken' \in BOOLEAN
      BY <1>1, NextApp DEF AInv, TypeOK
    <3> QED
      BY <1>1, <3>1 DEF Next, vars, pruneVars, LoadFails, NothingToPrune, Panics, BeginPrune,
                        PruneEnds, PrunerKilled
  <2> QED
    BY <1>1, <2>1, <2>2, <2>3, <2>4, PrunerSteps
<1>2. Init => PrunedHistory!Init
  BY InitHistory DEF Init, History!Init, PrunedHistory!Init
<1> QED
  BY <1>1, <1>2, AppInv, PTL DEF Spec, ImplementsPrunedHistory, PrunedHistory!Spec
=============================================================================

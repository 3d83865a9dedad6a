-------------------------- MODULE Rollback_proofs --------------------------
(***************************************************************************)
(* Proofs about RollbackToVersion, on stores that the node and killed      *)
(* prunes left, for any number of rollbacks.  As in AppState_proofs, the   *)
(* node does not die within a commit.                                      *)
(*                                                                         *)
(* A state is one of three kinds: Sound, where all that AppState_proofs    *)
(* says of the stores holds; Rolling, within a rollback; Stuck, after one  *)
(* that was killed or that returned an error behind the first store that   *)
(* it cut.  Nothing but a manual repair leads out of Stuck.                *)
(***************************************************************************)
EXTENDS Rollback, AppState_proofs

----------------------------------------------------------------------------
(* What the commit infos say, those above s/latest that a rollback leaves  *)
(* included: all of their stores are at their version and are mounted, and *)
(* there is one for every version that a tree has up to s/latest.          *)
InfosInv ==
  /\ \A v \in Versions : \A s \in DOMAIN infos[v] :
       infos[v][s] = v /\ (s \in Trees => s \in mounts)
  /\ \A s \in Trees : \A v \in versions[s] : v <= latest => infos[v] # NoInfo

Sound == AInv /\ BInv /\ InfosInv

RollTypes ==
  /\ versions \in [Trees -> SUBSET Versions]
  /\ infos \in [Versions -> CommitInfos]
  /\ latest \in Versions /\ mounts \in SUBSET Trees /\ tree \in [Trees -> Versions]
  /\ skipped \in SUBSET Trees /\ stops \in 0..MaxStops
  /\ keepVersions \in Keeps \cup {0} /\ mounted \in SUBSET Names
  /\ result \in {"none", "done", "panicked", "killed"} /\ prunes \in 0..MaxPrunes
  /\ ~overtaken /\ overtaken \in BOOLEAN
  /\ PanicsOnlyForFlag

(* The stores are as they were, or those that the loop has passed are cut  *)
(* back to a target that they have; a target that a store ahead lacks has  *)
(* been noted.                                                             *)
Cutting ==
  /\ to \in 1..latest /\ todo \subseteq mounts
  /\ \A s \in mounts \ todo : tree[s] = to /\ to \in versions[s] /\ versions[s] \subseteq 1..to
  /\ todo # mounts => cut
  /\ todo = mounts \/ to = latest => LatestLoadable
  /\ todo # mounts /\ ~uneven => \A s \in todo : Target(s)

Rolling ==
  /\ proc = "rollback"
  /\ RollTypes /\ DiskInv /\ InfosInv
  /\ \A s \in Trees : versions[s] \subseteq 1..latest
  /\ Cutting

Stuck ==
  /\ proc = "down" /\ cut
  /\ StoreNames \subseteq mounts /\ mounts \subseteq Trees
  /\ \E s \in StoreNames : ~CanLoad(s, latest)
  /\ ~uneven => \E v \in 1..latest : Loadable(v)

RInv == Sound \/ Rolling \/ Stuck

----------------------------------------------------------------------------
(* The node and the pruner on sound stores. *)

LEMMA InfosStep ==
  ASSUME AInv, InfosInv, [Next]_vars
  PROVE  InfosInv'
<1>1. /\ latest \in Nat /\ Version \in Nat /\ latest < Version
      /\ latest # 0 => Version = latest + 1
      /\ versions \in [Trees -> SUBSET Versions] /\ \A v \in Versions : v \in Nat
      /\ NoInfo' = NoInfo
  BY VersionFacts, MultiStoreAssumption
     DEF AInv, KInv, StoreTypeOK, Versions, MultiStoreAssumption, NoInfo
<1>2. ASSUME UNCHANGED <<infos, latest>>, mounts \subseteq mounts',
             \A s \in Trees : \A v \in versions'[s] : v \in versions[s] \/ v = Version
      PROVE  InfosInv'
  <2>1. \A v \in Versions : \A s \in DOMAIN infos[v] :
          infos[v][s] = v /\ (s \in Trees => s \in mounts')
    BY <1>2 DEF InfosInv
  <2>2. \A s \in Trees : \A v \in versions'[s] : v <= latest => infos[v] # NoInfo
    BY <1>1, <1>2 DEF InfosInv
  <2> QED
    BY <1>1, <1>2, <2>1, <2>2 DEF InfosInv
<1>3. ASSUME UNCHANGED <<versions, infos, latest>>, mounts \subseteq mounts'
      PROVE  InfosInv'
  BY <1>2, <1>3
<1>4. CASE FlushMetadata
  <2>1. /\ proc = "flush" /\ latest' = Version /\ infos' = [infos EXCEPT ![Version] = ids]
        /\ UNCHANGED <<versions, mounts>>
    BY <1>4 DEF FlushMetadata
  <2>2. /\ Version \in Versions /\ DOMAIN ids = Leaked \cup mounts
        /\ \A s \in DOMAIN ids : ids[s] = Version
    BY <2>1 DEF AInv, KInv, CommitInv, Committing
  <2>3. /\ infos'[Version] = ids
        /\ \A v \in Versions : v # Version => infos'[v] = infos[v]
    BY <2>1, <2>2 DEF AInv, KInv, StoreTypeOK
  <2>4. \A v \in Versions : \A s \in DOMAIN infos'[v] :
          infos'[v][s] = v /\ (s \in Trees => s \in mounts)
    <3>1. \A s \in Trees : s \notin Leaked
      BY MultiStoreAssumption DEF MultiStoreAssumption
    <3> QED
      BY <2>2, <2>3, <3>1 DEF InfosInv
  <2>5. ids # NoInfo
    <3>1. PICK s \in Stores : s \in mounts
      BY MultiStoreAssumption DEF MultiStoreAssumption, AInv, KInv, DiskInv
    <3> QED
      BY <2>2, <3>1, NoInfoType
  <2>6. ASSUME NEW s \in Trees, NEW v \in versions[s], v <= Version
        PROVE  infos'[v] # NoInfo
    <3>1. v \in Versions /\ v \in Nat
      BY <1>1
    <3>2. CASE v = Version
      BY <2>3, <2>5, <3>2
    <3>3. CASE v # Version /\ latest # 0
      BY <1>1, <2>3, <2>6, <3>1, <3>3 DEF InfosInv
    <3>4. CASE v # Version /\ latest = 0
      <4>1. infos[latest] = NoInfo
        BY <3>4 DEF AInv, KInv, DiskInv
      <4>2. s \notin DOMAIN infos[latest]
        BY <4>1, NoInfoType
      <4> QED
        BY <3>4, <4>2 DEF AInv, KInv, DiskInv
    <3> QED
      BY <3>2, <3>3, <3>4
  <2> QED
    BY <1>1, <2>1, <2>4, <2>6 DEF InfosInv
<1>5. CASE NodeLoad
  <2>1. mounts \subseteq mounts'
    BY <1>5 DEF NodeLoad, AInv, KInv, StoreTypeOK
  <2> QED
    BY <1>3, <1>5, <2>1 DEF NodeLoad
<1>6. ASSUME NEW s \in Trees, CommitStore(s)
      PROVE  InfosInv'
  <2>1. versions' = [versions EXCEPT ![s] = @ \cup {Version}] /\ UNCHANGED <<infos, latest, mounts>>
    BY <1>6, CommitStoreSaves DEF CommitStore, AInv
  <2>2. \A n \in Trees : \A v \in versions'[n] : v \in versions[n] \/ v = Version
    BY <1>1, <2>1
  <2> QED
    BY <1>2, <2>1, <2>2
<1>7. ASSUME NEW s \in Trees, DeleteOldest(s)
      PROVE  InfosInv'
  <2>1. \A n \in Trees : versions'[n] \subseteq versions[n]
    BY <1>1, <1>7 DEF DeleteOldest
  <2> QED
    BY <1>2, <1>7, <2>1 DEF DeleteOldest
<1>8. ASSUME NEW s \in Trees, StoreDone(s) \/ DeleteFails(s)
      PROVE  InfosInv'
  BY <1>3, <1>8 DEF StoreDone, DeleteFails
<1>9. CASE NodeStops \/ BeginCommit \/ StoresCommitted \/ HistoryPruned
  BY <1>3, <1>9 DEF NodeStops, BeginCommit, StoresCommitted, HistoryPruned
<1>10. CASE LoadFails \/ NothingToPrune \/ Panics
  BY <1>3, <1>10 DEF LoadFails, NothingToPrune, Panics, storeVars
<1>11. CASE BeginPrune \/ PruneEnds \/ PrunerKilled
  BY <1>3, <1>11 DEF BeginPrune, PruneEnds, PrunerKilled
<1>12. CASE UNCHANGED vars
  BY <1>3, <1>12 DEF vars, storeVars
<1> QED
  BY <1>4, <1>5, <1>6, <1>7, <1>8, <1>9, <1>10, <1>11, <1>12 DEF Next, NodeNext, PruneStore

LEMMA SoundStep ==
  ASSUME "node" \notin Kills, Sound, [Next]_vars
  PROVE  Sound'
BY NextApp, InfosStep DEF Sound

----------------------------------------------------------------------------
(* The rollback. *)

LEMMA RollFacts ==
  ASSUME RollTypes, DiskInv, latest \in Nat, latest # 0
  PROVE  /\ Version = latest + 1 /\ \A v \in Versions : v \in Nat
         /\ StoreNames = DOMAIN infos[latest] \ Leaked /\ StoreNames \subseteq Trees
         /\ \A s \in Trees : \A v \in versions[s] : v <= latest => s \in StoreNames
         /\ \A v \in Versions : DOMAIN infos[v] \subseteq Names
<1>1. Version = latest + 1 /\ \A v \in Versions : v \in Nat
  BY MultiStoreAssumption DEF Version, Versions, MultiStoreAssumption
<1>2. \A v \in Versions : DOMAIN infos[v] \subseteq Names
  BY CommitInfosFunction DEF RollTypes
<1>3. StoreNames = DOMAIN infos[latest] \ Leaked /\ StoreNames \subseteq Trees
  BY <1>2 DEF StoreNames, HasData, Names, RollTypes
<1>4. ASSUME NEW s \in Trees, NEW v \in versions[s], v <= latest
      PROVE  s \in StoreNames
  <2>1. v # Version
    BY <1>1, <1>4
  <2>2. s \in DOMAIN infos[latest] /\ s \notin Leaked
    BY <1>4, <2>1, MultiStoreAssumption DEF DiskInv, MultiStoreAssumption
  <2> QED
    BY <1>3, <2>2
<1> QED
  BY <1>1, <1>2, <1>3, <1>4

LEMMA BeginRollbackStep ==
  ASSUME Sound, BeginRollback
  PROVE  Rolling'
<1>1. /\ proc = "ready" /\ to' \in 1..latest /\ proc' = "rollback" /\ todo' = mounts
      /\ UNCHANGED <<versions, infos, latest, mounts, tree, skipped, ids, stops, pruneVars, cut, uneven>>
  BY DEF BeginRollback, diskVars
<1>2. RollTypes'
  BY <1>1 DEF Sound, AInv, BInv, KInv, TypeOK, StoreTypeOK, RollTypes,
              PanicsOnlyForFlag, pruneVars
<1>3. DiskInv' /\ InfosInv'
  BY <1>1 DEF Sound, AInv, KInv, DiskInv, InfosInv, Version, NoInfo
<1>4. \A s \in Trees : versions[s] \subseteq 1..latest
  BY <1>1 DEF Sound, BInv, Settled, Committing
<1>5. LatestLoadable'
  BY <1>1 DEF Sound, BInv, LInv, LatestLoadable, Loadable, CanLoad, NoInfo
<1>6. Cutting'
  BY <1>1, <1>5 DEF Cutting
<1> QED
  BY <1>1, <1>2, <1>3, <1>4, <1>6 DEF Rolling

LEMMA OverwriteStep ==
  ASSUME Rolling, NEW s \in Trees, OverwriteStore(s)
  PROVE  Rolling'
<1>1. /\ proc = "rollback" /\ s \in todo /\ to \in versions[s] /\ todo' = todo \ {s} /\ cut'
      /\ versions' = [versions EXCEPT ![s] = {v \in @ : v <= to}]
      /\ tree' = [tree EXCEPT ![s] = to]
      /\ uneven' = (uneven \/ \E r \in todo : ~Target(r))
      /\ UNCHANGED <<infos, latest, mounts, proc, to, skipped, ids, stops, pruneVars, rollbacks>>
  BY DEF OverwriteStore, Target
<1>2. /\ versions \in [Trees -> SUBSET Versions] /\ tree \in [Trees -> Versions]
      /\ to \in 1..latest /\ latest \in Versions /\ to \in Versions /\ to \in Nat
      /\ latest \in Nat /\ latest # 0 /\ todo \subseteq mounts /\ mounts \subseteq Trees
      /\ \A v \in Versions : v \in Nat
  BY MultiStoreAssumption DEF Rolling, RollTypes, Cutting, Versions, MultiStoreAssumption
<1>3. /\ versions'[s] = {v \in versions[s] : v <= to} /\ tree'[s] = to
      /\ \A n \in Trees : n # s => versions'[n] = versions[n] /\ tree'[n] = tree[n]
      /\ \A n \in Trees : versions'[n] \subseteq versions[n]
      /\ \A n \in Trees : to \in versions[n] => to \in versions'[n]
  BY <1>1, <1>2
<1>4. RollTypes'
  <2>1. versions' \in [Trees -> SUBSET Versions] /\ tree' \in [Trees -> Versions]
    BY <1>1, <1>2
  <2> QED
    BY <1>1, <2>1 DEF Rolling, RollTypes, PanicsOnlyForFlag, pruneVars
<1>5. DiskInv'
  BY <1>1, <1>3 DEF Rolling, DiskInv, Version, NoInfo
<1>6. InfosInv'
  BY <1>1, <1>3 DEF Rolling, InfosInv, NoInfo
<1>7. \A n \in Trees : versions'[n] \subseteq 1..latest'
  BY <1>1, <1>3 DEF Rolling
<1>8. \A n \in mounts \ todo' : tree'[n] = to /\ to \in versions'[n] /\ versions'[n] \subseteq 1..to
  <2> SUFFICES ASSUME NEW n \in mounts \ todo'
               PROVE  tree'[n] = to /\ to \in versions'[n] /\ versions'[n] \subseteq 1..to
    OBVIOUS
  <2>1. CASE n = s
    <3>1. versions[s] \subseteq 1..latest
      BY DEF Rolling
    <3>2. \A v \in versions'[s] : v \in 1..to
      BY <1>2, <1>3, <3>1
    <3> QED
      BY <1>1, <1>3, <2>1, <3>2
  <2>2. CASE n # s
    BY <1>1, <1>2, <1>3, <2>2 DEF Rolling, Cutting
  <2> QED
    BY <2>1, <2>2
<1>9. todo' # mounts
  BY <1>1, <1>2
<1>10. ASSUME to = latest
       PROVE  LatestLoadable'
  <2>1. LatestLoadable
    BY <1>10 DEF Rolling, Cutting
  <2>2. \A n \in Trees : latest \in versions[n] => latest \in versions'[n]
    BY <1>3, <1>10
  <2> QED
    BY <1>1, <2>1, <2>2 DEF LatestLoadable, Loadable, CanLoad, NoInfo
<1>11. ASSUME ~uneven'
       PROVE  \A n \in todo' : Target(n)'
  <2>1. \A n \in todo : Target(n)
    BY <1>1, <1>11
  <2> QED
    BY <1>1, <1>2, <1>3, <2>1 DEF Target
<1>12. Cutting'
  BY <1>1, <1>2, <1>8, <1>9, <1>10, <1>11 DEF Cutting
<1> QED
  BY <1>1, <1>4, <1>5, <1>6, <1>7, <1>12 DEF Rolling

(* What a rollback whose target every store has leaves in all of them.     *)
LEMMA TargetLoads ==
  ASSUME Rolling, todo # mounts, \A s \in todo : Target(s)
  PROVE  to \in 1..latest /\ Loadable(to)
<1>1. /\ to \in 1..latest /\ latest \in Nat /\ latest # 0 /\ to \in Versions /\ to <= latest
      /\ todo \subseteq mounts /\ mounts \subseteq Trees
  BY MultiStoreAssumption DEF Rolling, RollTypes, Cutting, Versions, MultiStoreAssumption
<1>2. \A s \in mounts : to \in versions[s]
  BY DEF Rolling, Cutting, Target
<1>3. infos[to] # NoInfo
  <2>1. PICK s \in mounts \ todo : TRUE
    BY <1>1
  <2> QED
    BY <1>1, <1>2, <2>1 DEF Rolling, InfosInv
<1>4. ASSUME NEW s \in DOMAIN infos[to] \ Leaked
      PROVE  CanLoad(s, to)
  <2>1. s \in Trees
    BY <1>1, RollFacts DEF Rolling, Names
  <2>2. infos[to][s] = to /\ s \in mounts
    BY <1>1, <2>1 DEF Rolling, InfosInv
  <2> QED
    BY <1>2, <2>1, <2>2 DEF CanLoad
<1> QED
  BY <1>1, <1>3, <1>4 DEF Loadable

(* A rollback that does not come to its end.  If it has cut something back *)
(* below s/latest, the stores no longer load.                              *)
LEMMA AbandonStep ==
  ASSUME Rolling, RollbackFails \/ RollbackKilled
  PROVE  Sound' \/ Stuck'
<1>1. /\ proc' = "down" /\ Forget
      /\ UNCHANGED <<versions, infos, latest, mounts, skipped, stops, pruneVars, rollVars>>
  BY DEF RollbackFails, RollbackKilled, Forget, diskVars
<1>2. /\ to \in 1..latest /\ latest \in Nat /\ latest # 0 /\ to \in Versions /\ to \in Nat
      /\ todo \subseteq mounts /\ mounts \subseteq Trees /\ 0 \in Versions
      /\ to <= latest /\ latest \in Versions
  BY MultiStoreAssumption DEF Rolling, RollTypes, Cutting, Versions, MultiStoreAssumption
<1>3. /\ StoreNames = DOMAIN infos[latest] \ Leaked /\ StoreNames \subseteq Trees
      /\ \A s \in Trees : \A v \in versions[s] : v <= latest => s \in StoreNames
  BY <1>2, RollFacts DEF Rolling
<1>4. UNCHANGED <<StoreNames, NoInfo, Version>>
  BY <1>1 DEF StoreNames, NoInfo, Version
<1>5. \A v : Loadable(v) => Loadable(v)'
  BY <1>1, <1>4 DEF Loadable, CanLoad
<1>6. CASE todo = mounts \/ to = latest
  <2>1. LatestLoadable /\ LatestLoadable'
    BY <1>1, <1>5, <1>6 DEF Rolling, Cutting, LatestLoadable
  <2>2. StoreTypeOK'
    BY <1>1, <1>2, NoInfoType DEF Rolling, RollTypes, StoreTypeOK, Forget, NotLoaded
  <2>3. DiskInv' /\ InfosInv'
    BY <1>1, <1>4 DEF Rolling, DiskInv, InfosInv
  <2>4. NewestInv'
    <3>1. \A s \in DOMAIN infos[latest] \ Leaked : latest \in versions[s]
      BY <1>2, <2>1 DEF LatestLoadable, Loadable, CanLoad
    <3> QED
      BY <1>1, <1>2, <3>1 DEF NewestInv
  <2>5. TreeInv' /\ CommitInv'
    BY <1>1 DEF TreeInv, CommitInv, Node, Committing
  <2>6. AInv'
    BY <1>1, <2>2, <2>3, <2>4, <2>5 DEF AInv, KInv, TypeOK, Rolling, RollTypes, PanicsOnlyForFlag, pruneVars
  <2>7. BInv'
    BY <1>1, <2>1 DEF BInv, LInv, PrunesBelow, Settled, PruneInv, Rolling, RollTypes, pruneVars
  <2> QED
    BY <2>3, <2>6, <2>7 DEF Sound
<1>7. CASE todo # mounts /\ to # latest
  <2>1. cut'
    BY <1>1, <1>7 DEF Rolling, Cutting, rollVars
  <2>2. StoreNames \subseteq mounts
    BY <1>2, <1>3 DEF Rolling, InfosInv
  <2>3. \E s \in StoreNames : ~CanLoad(s, latest)
    <3>1. PICK s \in mounts \ todo : TRUE
      BY <1>2, <1>7
    <3>2. to \in versions[s] /\ versions[s] \subseteq 1..to
      BY <3>1 DEF Rolling, Cutting
    <3>3. s \in StoreNames /\ latest \notin versions[s]
      BY <1>2, <1>3, <1>7, <3>1, <3>2
    <3> QED
      BY <1>3, <3>3 DEF CanLoad
  <2>4. ~uneven' => \E v \in 1..latest : Loadable(v)'
    <3>1. ~uneven' => \A s \in todo : Target(s)
      BY <1>1, <1>7 DEF Rolling, Cutting, rollVars
    <3>2. ~uneven' => to \in 1..latest /\ Loadable(to)
      BY <1>7, <3>1, TargetLoads
    <3> QED
      BY <1>5, <3>2
  <2>5. \E s \in StoreNames' : ~CanLoad(s, latest)'
    BY <1>1, <1>4, <2>3 DEF CanLoad
  <2> QED
    BY <1>1, <1>2, <1>4, <2>1, <2>2, <2>4, <2>5 DEF Stuck
<1> QED
  BY <1>6, <1>7

(* The target becomes the latest version, and every store has it.          *)
LEMMA FlushRollbackStep ==
  ASSUME Rolling, FlushRollback
  PROVE  Sound'
<1>1. /\ proc' = "down" /\ todo = {} /\ latest' = to /\ Forget
      /\ infos' = [infos EXCEPT ![to] = [s \in mounts |-> tree[s]]]
      /\ UNCHANGED <<versions, mounts, skipped, stops, pruneVars, rollbacks, uneven>>
  BY DEF FlushRollback, Forget
<1>2. /\ to \in 1..latest /\ latest \in Nat /\ to \in Versions /\ to \in Nat /\ to # 0
      /\ mounts \subseteq Trees /\ 0 \in Versions /\ infos \in [Versions -> CommitInfos]
      /\ versions \in [Trees -> SUBSET Versions] /\ to <= latest
  BY MultiStoreAssumption DEF Rolling, RollTypes, Cutting, Versions, MultiStoreAssumption
<1>3. \A s \in mounts : tree[s] = to /\ to \in versions[s] /\ versions[s] \subseteq 1..to
  BY <1>1 DEF Rolling, Cutting
<1> DEFINE info == [s \in mounts |-> tree[s]]
<1>4. DOMAIN info = mounts /\ \A s \in mounts : info[s] = to
  BY <1>3
<1>5. info \in CommitInfos
  <2>1. info = [s \in DOMAIN info |-> info[s]] /\ DOMAIN info \subseteq Names
    BY <1>2 DEF Names
  <2> QED
    BY <1>2, <1>4, <2>1, CommitInfosFunction
<1>6. infos'[to] = info /\ \A v \in Versions : v # to => infos'[v] = infos[v]
  BY <1>1, <1>2
<1> HIDE DEF info
<1>7. PICK s0 \in Stores : s0 \in mounts
  BY MultiStoreAssumption DEF MultiStoreAssumption, Rolling, DiskInv
<1>8. info # NoInfo /\ NoInfo' = NoInfo
  BY <1>4, <1>7, NoInfoType DEF NoInfo
<1>9. \A s \in Trees \ mounts : versions[s] = {}
  BY DEF Rolling, DiskInv
<1>10. \A s \in Trees : versions[s] \subseteq 1..to
  BY <1>3, <1>9
<1>11. StoreTypeOK'
  <2>1. infos' \in [Versions -> CommitInfos]
    BY <1>1, <1>2, <1>5 DEF info
  <2> QED
    BY <1>1, <1>2, <2>1, NoInfoType DEF Rolling, RollTypes, StoreTypeOK, Forget, NotLoaded
<1>12. DiskInv'
  <2>1. infos'[0] = NoInfo
    BY <1>2, <1>6 DEF Rolling, DiskInv
  <2>2. Version' = to + 1
    BY <1>1, <1>2 DEF Version
  <2>3. \A s \in Trees : versions'[s] \subseteq 1..Version'
    BY <1>1, <1>2, <1>10, <2>2
  <2>4. \A s \in Trees \ DOMAIN infos'[latest'] : versions'[s] \subseteq {Version'}
    BY <1>1, <1>4, <1>6, <1>9
  <2> QED
    BY <1>1, <1>8, <1>9, <2>1, <2>3, <2>4 DEF Rolling, DiskInv
<1>13. InfosInv'
  <2>1. \A v \in Versions : \A s \in DOMAIN infos'[v] :
          infos'[v][s] = v /\ (s \in Trees => s \in mounts)
    BY <1>4, <1>6 DEF Rolling, InfosInv
  <2>2. ASSUME NEW s \in Trees, NEW v \in versions[s], v <= to
        PROVE  infos'[v] # NoInfo
    <3>1. v \in Versions /\ v \in Nat /\ v <= latest
      BY <1>2, <1>10, <2>2
    <3> QED
      BY <1>6, <1>8, <3>1 DEF Rolling, InfosInv
  <2> QED
    BY <1>1, <1>8, <2>1, <2>2 DEF InfosInv
<1>14. LatestLoadable' /\ NewestInv'
  <2>1. \A s \in mounts : infos'[to][s] = to /\ to \in versions'[s] /\ s \in Trees
    BY <1>1, <1>2, <1>3, <1>4, <1>6
  <2>2. DOMAIN infos'[to] = mounts
    BY <1>4, <1>6
  <2>3. LatestLoadable'
    BY <1>1, <1>6, <1>8, <2>1, <2>2 DEF LatestLoadable, Loadable, CanLoad
  <2>4. NewestInv'
    BY <1>1, <1>2, <2>1, <2>2 DEF NewestInv
  <2> QED
    BY <2>3, <2>4
<1>15. TreeInv' /\ CommitInv'
  BY <1>1 DEF TreeInv, CommitInv, Node, Committing
<1>16. AInv'
  BY <1>1, <1>11, <1>12, <1>14, <1>15
     DEF AInv, KInv, TypeOK, Rolling, RollTypes, PanicsOnlyForFlag, pruneVars
<1>17. BInv'
  BY <1>1, <1>10, <1>14
     DEF BInv, LInv, PrunesBelow, Settled, PruneInv, Rolling, RollTypes, pruneVars
<1> QED
  BY <1>13, <1>16, <1>17 DEF Sound

(* Stuck stores load for neither the node nor the pruner.                  *)
LEMMA StuckStep ==
  ASSUME Stuck, [RollbackNext]_allVars
  PROVE  Stuck'
<1>1. proc = "down"
  BY DEF Stuck
<1>2. ASSUME UNCHANGED <<versions, infos, latest, mounts, proc, rollVars>>
      PROVE  Stuck'
  <2>1. UNCHANGED <<StoreNames, NoInfo>>
    BY <1>2 DEF StoreNames, NoInfo
  <2>2. \A s, v : CanLoad(s, v)' = CanLoad(s, v)
    BY <1>2 DEF CanLoad
  <2>3. \A v : Loadable(v)' = Loadable(v)
    BY <1>2, <2>1, <2>2 DEF Loadable
  <2> QED
    BY <1>2, <2>1, <2>2, <2>3 DEF Stuck, rollVars
<1>3. ~NodeLoad
  <2> SUFFICES ASSUME NodeLoad PROVE FALSE
    OBVIOUS
  <2>1. PICK s \in StoreNames : ~CanLoad(s, latest)
    BY DEF Stuck
  <2>2. s \in DOMAIN infos[latest]
    BY DEF StoreNames
  <2>3. s \in mounts /\ (mounts' = mounts \/ mounts' = Trees)
    BY <2>1 DEF Stuck, NodeLoad
  <2>4. s \notin mounts'
    BY <2>1 DEF NodeLoad
  <2> QED
    BY <2>3, <2>4 DEF Stuck
<1>4. ~BeginPrune
  BY DEF Stuck, BeginPrune
<1>5. [NodeNext]_storeVars => UNCHANGED storeVars
  BY <1>1, <1>3 DEF NodeNext, NodeStops, BeginCommit, StoresCommitted, HistoryPruned, FlushMetadata,
                    CommitStore, PruneStore, DeleteOldest, StoreDone, DeleteFails
<1>6. [Next]_vars => UNCHANGED storeVars
  BY <1>1, <1>4, <1>5 DEF Next, vars, LoadFails, NothingToPrune, Panics, PruneEnds, PrunerKilled
<1>7. UNCHANGED storeVars /\ UNCHANGED rollVars
  BY <1>1, <1>6 DEF RollbackNext, BeginRollback, RollbackFails, FlushRollback, RollbackKilled,
                    OverwriteStore, allVars, vars
<1> QED
  BY <1>2, <1>7 DEF storeVars

----------------------------------------------------------------------------
(* Within a rollback, no other step is possible. *)
LEMMA RollingNext ==
  ASSUME Rolling, [Next]_vars
  PROVE  UNCHANGED vars
BY DEF Rolling, Next, NodeNext, NodeLoad, NodeStops, BeginCommit, StoresCommitted, HistoryPruned,
       FlushMetadata, CommitStore, PruneStore, DeleteOldest, StoreDone, DeleteFails, StartPrune,
       LoadFails, NothingToPrune, Panics, BeginPrune, PruneEnds, PrunerKilled, vars

LEMMA RollingStill ==
  ASSUME Rolling, UNCHANGED allVars
  PROVE  Rolling'
<1>1. UNCHANGED <<versions, infos, latest, mounts, proc, tree, todo, to, skipped, ids, stops,
                  keepVersions, mounted, result, prunes, overtaken, rollbacks, cut, uneven>>
  BY DEF allVars, vars, storeVars, pruneVars, rollVars
<1>2. RollTypes' /\ DiskInv' /\ InfosInv'
  BY <1>1 DEF Rolling, RollTypes, PanicsOnlyForFlag, DiskInv, InfosInv, Version, NoInfo
<1>3. Cutting'
  BY <1>1 DEF Rolling, Cutting, Target, LatestLoadable, Loadable, CanLoad, NoInfo
<1> QED
  BY <1>1, <1>2, <1>3 DEF Rolling

LEMMA NextRoll ==
  ASSUME "node" \notin Kills, RInv, [RollbackNext]_allVars
  PROVE  RInv'
<1>1. CASE Sound
  <2>1. proc # "rollback"
    BY <1>1 DEF Sound, AInv, KInv, StoreTypeOK
  <2>2. \/ [Next]_vars
        \/ BeginRollback
    BY <2>1 DEF RollbackNext, RollbackFails, FlushRollback, RollbackKilled, OverwriteStore, allVars
  <2> QED
    BY <1>1, <2>2, SoundStep, BeginRollbackStep DEF RInv
<1>2. CASE Rolling
  <2>1. ~BeginRollback
    BY <1>2 DEF Rolling, BeginRollback
  <2>2. \/ UNCHANGED allVars
        \/ RollbackFails \/ FlushRollback \/ RollbackKilled
        \/ \E s \in Trees : OverwriteStore(s)
    BY <1>2, <2>1, RollingNext DEF RollbackNext, allVars
  <2> QED
    BY <1>2, <2>2, RollingStill, OverwriteStep, AbandonStep, FlushRollbackStep DEF RInv
<1>3. CASE Stuck
  BY <1>3, StuckStep DEF RInv
<1> QED
  BY <1>1, <1>2, <1>3 DEF RInv

LEMMA InitRoll == RollbackInit => RInv
<1> SUFFICES ASSUME RollbackInit PROVE Sound
  BY DEF RInv
<1>1. AInv /\ BInv
  BY InitApp DEF RollbackInit
<1>2. (\A v \in Versions : infos[v] = NoInfo) /\ \A s \in Trees : versions[s] = {}
  BY DEF RollbackInit, Init, StoreInit
<1>3. InfosInv
  BY <1>2, NoInfoType DEF InfosInv
<1> QED
  BY <1>1, <1>3 DEF Sound

LEMMA RollInv ==
  ASSUME "node" \notin Kills
  PROVE  RollbackSpec => []RInv
<1>1. RInv /\ [RollbackNext]_allVars => RInv'
  BY NextRoll
<1> QED
  BY <1>1, InitRoll, PTL DEF RollbackSpec

(* Outside of a rollback that has cut a store and not come to its end, the *)
(* version in s/latest loads, whatever rollbacks, replays over the commit  *)
(* infos that they left and killed prunes came before.                     *)
THEOREM RollbackLatestLoadable ==
  ASSUME "node" \notin Kills
  PROVE  RollbackSpec => []LoadableUnlessCut
<1>1. RInv => LoadableUnlessCut
  BY DEF RInv, Sound, BInv, LInv, Rolling, Cutting, Stuck, LoadableUnlessCut
<1> QED
  BY <1>1, RollInv, PTL

(* And wherever a rollback is killed, a version is left that loads in all  *)
(* of the stores, unless one of them lacked the target.                    *)
THEOREM RollbackSomeVersionLoads ==
  ASSUME "node" \notin Kills
  PROVE  RollbackSpec => []SomeVersionLoads
<1>1. ASSUME RInv, latest # 0, ~uneven
      PROVE  \E v \in 1..latest : Loadable(v)
  <2>1. ASSUME LatestLoadable, latest \in Nat
        PROVE  \E v \in 1..latest : Loadable(v)
    BY <1>1, <2>1 DEF LatestLoadable
  <2>2. CASE Sound
    BY <2>1, <2>2, VersionFacts DEF Sound, AInv, BInv, KInv, LInv
  <2>3. CASE Rolling
    <3>1. latest \in Nat
      BY <2>3, MultiStoreAssumption DEF Rolling, RollTypes, Versions, MultiStoreAssumption
    <3>2. CASE todo = mounts
      BY <2>1, <2>3, <3>1, <3>2 DEF Rolling, Cutting
    <3>3. CASE todo # mounts
      BY <1>1, <2>3, <3>3, TargetLoads DEF Rolling, Cutting
    <3> QED
      BY <3>2, <3>3
  <2>4. CASE Stuck
    BY <1>1, <2>4 DEF Stuck
  <2> QED
    BY <1>1, <2>2, <2>3, <2>4 DEF RInv
<1>2. RInv => SomeVersionLoads
  BY <1>1 DEF SomeVersionLoads
<1> QED
  BY <1>2, RollInv, PTL

(* After a rollback too, the node flushes no commit info that disagrees    *)
(* with its stores, although it writes over infos of the versions that     *)
(* were rolled back.                                                       *)
THEOREM RollbackCommitIds ==
  ASSUME "node" \notin Kills
  PROVE  RollbackSpec => []CommitIdsMatch
<1>1. RInv => CommitIdsMatch
  <2>1. CASE Sound
    BY <2>1, KeptCommitIds DEF Sound, AInv
  <2>2. CASE Rolling \/ Stuck
    BY <2>2 DEF Rolling, Stuck, CommitIdsMatch
  <2> QED
    BY <2>1, <2>2 DEF RInv
<1> QED
  BY <1>1, RollInv, PTL
=============================================================================

---------------------------- MODULE GcDb_proofs ----------------------------
(***************************************************************************)
(* Proofs about gcDB for any number of keys, any batch size and any number *)
(* of runs, where the errors that the code does not look at do not happen: *)
(* no key is lost, a pass that returned nil left a complete copy, and the  *)
(* pass implements a database that only the prune changes.                 *)
(***************************************************************************)
EXTENDS GcDb, FiniteSetTheorems, TLAPS

----------------------------------------------------------------------------
(* Contents. *)

LEMMA ContentsFunction ==
  ASSUME NEW c
  PROVE  c \in Contents <=>
           c = [k \in DOMAIN c |-> c[k]] /\ DOMAIN c \subseteq Keys /\ \A k \in DOMAIN c : c[k] \in Values
<1>1. ASSUME c \in Contents
      PROVE  c = [k \in DOMAIN c |-> c[k]] /\ DOMAIN c \subseteq Keys /\ \A k \in DOMAIN c : c[k] \in Values
  <2>1. PICK K \in SUBSET Keys : c \in [K -> Values]
    BY <1>1 DEF Contents
  <2> QED
    BY <2>1
<1>2. ASSUME c = [k \in DOMAIN c |-> c[k]], DOMAIN c \subseteq Keys, \A k \in DOMAIN c : c[k] \in Values
      PROVE  c \in Contents
  <2>1. c \in [DOMAIN c -> Values]
    BY <1>2
  <2> QED
    BY <1>2, <2>1 DEF Contents
<1> QED
  BY <1>1, <1>2

(* Databases that hold the same keys with the same values are equal. *)
LEMMA SameContents ==
  ASSUME NEW c \in Contents, NEW d \in Contents,
         DOMAIN c = DOMAIN d, \A k \in DOMAIN c : c[k] = d[k]
  PROVE  c = d
BY ContentsFunction

LEMMA EmptyContents == Empty \in Contents /\ DOMAIN Empty = {}
<1>1. DOMAIN Empty = {} /\ Empty = [k \in DOMAIN Empty |-> Empty[k]]
  BY DEF Empty
<1> QED
  BY <1>1, ContentsFunction

(* What a batch write leaves. *)
LEMMA OverContents ==
  ASSUME NEW c \in Contents, NEW d \in Contents
  PROVE  /\ Over(c, d) \in Contents
         /\ DOMAIN Over(c, d) = (DOMAIN c) \cup (DOMAIN d)
         /\ \A k \in DOMAIN c : Over(c, d)[k] = c[k]
         /\ \A k \in (DOMAIN d) \ (DOMAIN c) : Over(c, d)[k] = d[k]
<1> DEFINE o == Over(c, d)
<1>1. DOMAIN c \subseteq Keys /\ DOMAIN d \subseteq Keys
        /\ (\A k \in DOMAIN c : c[k] \in Values) /\ (\A k \in DOMAIN d : d[k] \in Values)
  BY ContentsFunction
<1>2. o = [k \in (DOMAIN c) \cup (DOMAIN d) |-> IF k \in DOMAIN c THEN c[k] ELSE d[k]]
  BY DEF Over
<1>3. DOMAIN o = (DOMAIN c) \cup (DOMAIN d)
  BY <1>2
<1>4. /\ \A k \in DOMAIN c : o[k] = c[k]
      /\ \A k \in (DOMAIN d) \ (DOMAIN c) : o[k] = d[k]
  BY <1>2
<1>5. o \in [(DOMAIN c) \cup (DOMAIN d) -> Values]
  BY <1>1, <1>2
<1>6. o \in Contents
  BY <1>1, <1>5 DEF Contents
<1> QED
  BY <1>3, <1>4, <1>6

LEMMA KeepContents ==
  ASSUME NEW c \in Contents, NEW K
  PROVE  /\ Keep(c, K) \in Contents
         /\ DOMAIN Keep(c, K) = (DOMAIN c) \cap K
         /\ \A k \in DOMAIN Keep(c, K) : Keep(c, K)[k] = c[k]
<1>1. DOMAIN c \subseteq Keys /\ \A k \in DOMAIN c : c[k] \in Values
  BY ContentsFunction
<1>2. Keep(c, K) = [k \in (DOMAIN c) \cap K |-> c[k]]
  BY DEF Keep
<1>3. Keep(c, K) \in [(DOMAIN c) \cap K -> Values]
  BY <1>1, <1>2
<1>4. Keep(c, K) \in Contents
  BY <1>1, <1>3 DEF Contents
<1> QED
  BY <1>2, <1>4

(* A prune keeps every key that is not old. *)
LEMMA PrunedContents ==
  ASSUME NEW c \in Contents, NEW deleted \in SUBSET OldKeys, NEW w \in BOOLEAN
  PROVE  /\ Pruned(c, deleted, w) \in Contents
         /\ (DOMAIN c) \ OldKeys \subseteq DOMAIN Pruned(c, deleted, w)
<1> DEFINE kept == Keep(c, Keys \ deleted)
           rec  == [k \in {Record} |-> IF k \in DOMAIN kept THEN kept[k] ELSE "zero"]
<1>1. kept \in Contents /\ DOMAIN kept = (DOMAIN c) \cap (Keys \ deleted)
  BY KeepContents
<1>2. (DOMAIN c) \ OldKeys \subseteq DOMAIN kept
  BY <1>1, ContentsFunction
<1>3. rec \in [{Record} -> Values]
  <2>1. \A k \in DOMAIN kept : kept[k] \in Values
    BY <1>1, ContentsFunction
  <2> QED
    BY <2>1 DEF Values
<1>4. rec \in Contents
  BY <1>3, KeysAssumption DEF KeysAssumption, Contents
<1>5. Over(rec, kept) \in Contents /\ DOMAIN kept \subseteq DOMAIN Over(rec, kept)
  BY <1>1, <1>4, OverContents
<1>6. Pruned(c, deleted, w) = IF w THEN Over(rec, kept) ELSE kept
  BY DEF Pruned, Recorded
<1> QED
  BY <1>1, <1>2, <1>5, <1>6

----------------------------------------------------------------------------
(* The invariant.  The copy, the batch and what the iterator has not       *)
(* reached make up the database; once the old directory is touched, the    *)
(* copy alone does.                                                        *)

Copied == \A k \in DOMAIN live : k \in DOMAIN gc /\ gc[k] = live[k]

Copying ==
  pc \in {"copy", "full", "copied"} =>
    /\ dbHere = "yes" /\ gcHere /\ db = live
    /\ \A k \in DOMAIN live : k \notin left /\ k \notin batch => k \in DOMAIN gc /\ gc[k] = live[k]
    /\ pc = "copied" => left = {}

Deciding ==
  /\ pc \in {"decide", "remove"} => dbHere = "yes" /\ gcHere /\ db = live
  /\ pc = "decide" /\ count > 0 => Copied
  /\ pc \in {"remove", "removing", "rename"} => gcHere /\ Copied

Gap ==
  /\ pc \in {"prune", "create"} => dbHere = "yes"
  /\ dbHere # "yes" => Copied /\ gcHere /\ db = Empty

Fresh ==
  /\ ~gcHere => gc = Empty
  /\ pc \in {"copy", "full", "copied", "decide", "remove", "removing", "rename"} /\ ~stale =>
       DOMAIN gc \subseteq DOMAIN live

Held ==
  ~remade => /\ dbHere = "yes" => NewKeys \subseteq DOMAIN db
             /\ dbHere # "yes" => NewKeys \subseteq DOMAIN live

Running == pc # "idle" => result = "none"

Removing == pc \in {"removing", "rename"} => dbHere # "yes"
CountBelow == pc = "copy" => count < BatchSize

GInv == TypeOK /\ CountBelow /\ Running /\ Copying /\ Deciding /\ Removing /\ Gap /\ Fresh /\ Held /\ CopyComplete

(* The errors that gcDB does not look at do not happen. *)
NoIgnoredErrors == "iterate" \notin Faults /\ "write" \notin Faults

LEMMA InitGc == Init => GInv
<1> SUFFICES ASSUME Init PROVE GInv
  OBVIOUS
<1> DEFINE K == IF kind = "blockstore" THEN Keys ELSE Keys \ {Record}
<1>1. db = [k \in K |-> "set"]
  BY DEF Init
<1>2. DOMAIN db = K /\ K \subseteq Keys /\ db \in [K -> Values]
  BY <1>1 DEF Values
<1>3. db \in Contents
  BY <1>2 DEF Contents
<1>4. gc = Empty /\ live = Empty
  BY DEF Init
<1>5. TypeOK
  <2>1. count \in 0..BatchSize /\ runs \in 0..MaxRuns
    BY GcAssumption DEF GcAssumption, Init
  <2>2. gcHere \in BOOLEAN /\ stale \in BOOLEAN /\ remade \in BOOLEAN
    BY DEF Init
  <2>3. left = {} /\ batch = {} /\ pc = "idle" /\ result = "none" /\ dbHere = "yes" /\ kind \in Kinds
    BY DEF Init
  <2> QED
    BY <1>3, <1>4, <2>1, <2>2, <2>3, EmptyContents DEF TypeOK
<1>6. Held
  BY <1>2 DEF Init, Held, NewKeys
<1> QED
  BY <1>5, <1>6
     DEF Init, GInv, CountBelow, Removing, Running, Copying, Deciding, Gap, Fresh, CopyComplete

LEMMA OpenGc == GInv /\ Open => GInv'
<1> SUFFICES ASSUME GInv, Open PROVE GInv'
  OBVIOUS
<1>1. db' \in Contents /\ runs' \in 0..MaxRuns
  BY EmptyContents, GcAssumption DEF GcAssumption, Open, GInv, TypeOK
<1>2. TypeOK'
  BY <1>1 DEF GInv, TypeOK, Open
<1>3. Held'
  BY DEF Open, GInv, Held
<1> QED
  BY <1>2, <1>3 DEF Open, GInv, CountBelow, Removing, Copied, Running, Copying, Deciding, Gap, Fresh, CopyComplete

LEMMA PruneGc == GInv /\ Prune => GInv'
<1> SUFFICES ASSUME GInv, Prune PROVE GInv'
  OBVIOUS
<1>1. PICK deleted \in SUBSET OldKeys : db' = Pruned(db, deleted, kind = "blockstore")
  BY DEF Prune
<1>2. db \in Contents
  BY DEF GInv, TypeOK
<1>3. db' \in Contents /\ (DOMAIN db) \ OldKeys \subseteq DOMAIN db'
  BY <1>1, <1>2, PrunedContents
<1>4. TypeOK'
  BY <1>3 DEF GInv, TypeOK, Prune
<1>5. dbHere = "yes" /\ dbHere' = "yes"
  BY DEF GInv, Gap, Prune
<1>6. Held'
  BY <1>3, <1>5 DEF Prune, GInv, Held, NewKeys
<1> QED
  BY <1>4, <1>5, <1>6 DEF Prune, GInv, CountBelow, Removing, Running, Copying, Deciding, Gap, Fresh, CopyComplete

LEMMA CreateGcGc == GInv /\ CreateGc => GInv'
<1> SUFFICES ASSUME GInv, CreateGc PROVE GInv'
  OBVIOUS
<1>1. gc' \in Contents /\ live' \in Contents /\ left' \subseteq DOMAIN live'
  <2>1. left \subseteq DOMAIN live /\ gc \in Contents /\ db \in Contents /\ live \in Contents
    BY DEF GInv, TypeOK
  <2> QED
    BY <2>1, EmptyContents DEF CreateGc
<1>2. TypeOK'
  <2>1. count' \in 0..BatchSize
    BY GcAssumption DEF GcAssumption, CreateGc
  <2> QED
    BY <1>1, <2>1 DEF GInv, TypeOK, CreateGc
<1>3. dbHere = "yes" /\ dbHere' = "yes"
  BY DEF GInv, Gap, CreateGc
<1>4. Fresh'
  BY EmptyContents DEF CreateGc, GInv, Fresh
<1>5. Copying'
  BY <1>3 DEF CreateGc, Copying
<1>6. Held'
  BY <1>3 DEF CreateGc, GInv, Held
<1>7. Running' /\ CopyComplete' /\ Deciding' /\ Removing' /\ Gap' /\ CountBelow'
  BY <1>3, GcAssumption DEF GcAssumption, CountBelow, Removing, CreateGc, GInv, Running, CopyComplete, Deciding, Gap
<1> QED
  BY <1>2, <1>4, <1>5, <1>6, <1>7 DEF GInv

(* Between the creation of the copy and the removal of the old directory   *)
(* nothing but the copy, the batch and the iterator changes.               *)
LEMMA LoopGc ==
  ASSUME NoIgnoredErrors, GInv, CopyKey \/ BatchFull \/ EndOfLoop \/ WriteRest
  PROVE  GInv'
<1>1. UNCHANGED <<kind, db, dbHere, gcHere, live, stale, remade, result, runs>>
  BY DEF CopyKey, BatchFull, EndOfLoop, WriteRest, dirVars
<1>2. dbHere = "yes" /\ gcHere /\ db = live
  BY DEF GInv, Copying, CopyKey, BatchFull, EndOfLoop, WriteRest
<1>3. /\ gc \in Contents /\ live \in Contents
      /\ left \subseteq DOMAIN live /\ batch \subseteq DOMAIN live /\ count \in 0..BatchSize
      /\ BatchSize \in Nat /\ BatchSize > 0
  BY GcAssumption DEF GcAssumption, GInv, TypeOK
<1>4. CASE CopyKey
  <2>1. PICK k \in left : left' = left \ {k} /\ batch' = batch \cup {k} /\ count' = count + 1
    BY <1>4 DEF CopyKey
  <2>2. pc = "copy" /\ gc' = gc /\ pc' = (IF count' >= BatchSize THEN "full" ELSE "copy")
    BY <1>4 DEF CopyKey, dirVars
  <2>3. ASSUME ~(count < BatchSize) PROVE FALSE
    BY <1>3, <2>2, <2>3 DEF GInv, CountBelow
  <2>4. TypeOK' /\ CountBelow'
    BY <1>1, <1>3, <2>1, <2>2, <2>3 DEF GInv, TypeOK, CountBelow
  <2>5. Copying'
    BY <1>1, <1>2, <2>1, <2>2 DEF GInv, Copying
  <2>6. Fresh'
    BY <1>1, <1>2, <2>2 DEF GInv, Fresh
  <2> QED
    BY <1>1, <1>2, <2>2, <2>4, <2>5, <2>6
       DEF GInv, Running, Deciding, Removing, Gap, Held, CopyComplete
<1>5. CASE EndOfLoop
  <2>1. pc = "copy" /\ left = {} /\ pc' = "copied" /\ UNCHANGED <<gc, left, batch, count>>
    BY <1>5 DEF EndOfLoop, dirVars, NoIgnoredErrors
  <2>2. TypeOK' /\ CountBelow'
    BY <1>1, <2>1 DEF GInv, TypeOK, CountBelow
  <2>3. Copying'
    BY <1>1, <2>1 DEF GInv, Copying
  <2>4. Fresh'
    BY <1>1, <1>2, <2>1 DEF GInv, Fresh
  <2> QED
    BY <1>1, <1>2, <2>1, <2>2, <2>3, <2>4
       DEF GInv, Running, Deciding, Removing, Gap, Held, CopyComplete
<1>6. CASE BatchFull
  <2>1. gc' = Over(Keep(live, batch), gc) /\ pc = "full"
    BY <1>6 DEF BatchFull, WriteBatch, NoIgnoredErrors
  <2>2. batch' = {} /\ count' = 0 /\ pc' = "copy" /\ left' = left
    BY <1>6 DEF BatchFull
  <2>3. Keep(live, batch) \in Contents /\ DOMAIN Keep(live, batch) = batch
          /\ \A k \in batch : Keep(live, batch)[k] = live[k]
    BY <1>3, KeepContents
  <2>4. gc' \in Contents /\ DOMAIN gc' = batch \cup DOMAIN gc
          /\ (\A k \in batch : gc'[k] = live[k])
          /\ \A k \in (DOMAIN gc) \ batch : gc'[k] = gc[k]
    <3>1. \A c, d \in Contents :
            /\ Over(c, d) \in Contents
            /\ DOMAIN Over(c, d) = (DOMAIN c) \cup (DOMAIN d)
            /\ \A k \in DOMAIN c : Over(c, d)[k] = c[k]
            /\ \A k \in (DOMAIN d) \ (DOMAIN c) : Over(c, d)[k] = d[k]
      BY OverContents
    <3>2. PICK kept : kept = Keep(live, batch)
      OBVIOUS
    <3>3. /\ gc' \in Contents
          /\ DOMAIN gc' = (DOMAIN kept) \cup (DOMAIN gc)
          /\ \A k \in DOMAIN kept : gc'[k] = kept[k]
          /\ \A k \in (DOMAIN gc) \ (DOMAIN kept) : gc'[k] = gc[k]
      BY <1>3, <2>1, <2>3, <3>1, <3>2
    <3>4. DOMAIN kept = batch /\ \A k \in batch : kept[k] = live[k]
      BY <2>3, <3>2
    <3> QED
      BY <3>3, <3>4
  <2>5. TypeOK' /\ CountBelow'
    BY <1>1, <1>3, <2>2, <2>4 DEF GInv, TypeOK, CountBelow
  <2>6. Copying'
    BY <1>1, <1>2, <2>1, <2>2, <2>4 DEF GInv, Copying
  <2>7. Fresh'
    BY <1>1, <1>2, <1>3, <2>1, <2>2, <2>4 DEF GInv, Fresh
  <2> QED
    BY <1>1, <1>2, <2>1, <2>2, <2>5, <2>6, <2>7
       DEF GInv, Running, Deciding, Removing, Gap, Held, CopyComplete
<1>7. CASE WriteRest
  <2>1. pc = "copied" /\ pc' = "decide" /\ UNCHANGED <<left, batch, count>>
    BY <1>7 DEF WriteRest
  <2>2. gc' = IF count > 0 THEN Over(Keep(live, batch), gc) ELSE gc
    BY <1>7 DEF WriteRest, WriteBatch, NoIgnoredErrors
  <2>3. Keep(live, batch) \in Contents /\ DOMAIN Keep(live, batch) = batch
          /\ \A k \in batch : Keep(live, batch)[k] = live[k]
    BY <1>3, KeepContents
  <2>4. PICK b \in Contents : b = Keep(live, batch)
    BY <2>3
  <2>5. PICK o : o = Over(b, gc)
    OBVIOUS
  <2>6. o \in Contents /\ DOMAIN o = batch \cup DOMAIN gc
          /\ (\A k \in batch : o[k] = live[k])
          /\ (\A k \in (DOMAIN gc) \ batch : o[k] = gc[k])
          /\ gc' = IF count > 0 THEN o ELSE gc
    <3>1. gc' = IF count > 0 THEN o ELSE gc
      BY <2>2, <2>4, <2>5
    <3>2. DOMAIN b = batch /\ \A k \in batch : b[k] = live[k]
      BY <2>3, <2>4
    <3> QED
      BY <1>3, <2>5, <3>1, <3>2, OverContents
  <2>7. TypeOK' /\ CountBelow'
    <3>1. gc' \in Contents
      BY <1>3, <2>6
    <3> QED
      BY <1>1, <2>1, <3>1 DEF GInv, TypeOK, CountBelow
  <2>8. Fresh'
    BY <1>1, <1>2, <1>3, <2>1, <2>6 DEF GInv, Fresh
  <2>9. count > 0 => Copied'
    BY <1>1, <2>1, <2>6 DEF GInv, Copying, Copied
  <2>10. Deciding'
    BY <1>1, <1>2, <2>1, <2>9 DEF Deciding
  <2> QED
    BY <1>1, <1>2, <2>1, <2>7, <2>8, <2>10
       DEF GInv, Running, Copying, Removing, Gap, Held, CopyComplete
<1> QED
  BY <1>4, <1>5, <1>6, <1>7

LEMMA SwapGc ==
  ASSUME GInv,
         NothingCopied \/ SomethingCopied \/ BeginRemove \/ EndRemove \/ Rename \/ Die
  PROVE  GInv'
<1>1. UNCHANGED <<kind, left, batch, count, live, stale, remade, runs>>
  BY DEF NothingCopied, SomethingCopied, BeginRemove, EndRemove, Rename, Die
<1>2. db \in Contents /\ gc \in Contents /\ live \in Contents
  BY DEF GInv, TypeOK
<1>3. CASE NothingCopied
  <2>1. TypeOK' /\ CountBelow'
    BY <1>1, <1>2, <1>3, EmptyContents DEF NothingCopied, GInv, TypeOK, CountBelow
  <2>2. dbHere = "yes" /\ db = live /\ dbHere' = "yes" /\ db' = db /\ pc' = "idle"
          /\ gcHere' = FALSE /\ gc' = Empty
    BY <1>3 DEF NothingCopied, GInv, Deciding
  <2>3. CopyComplete'
    BY <1>1, <2>2 DEF CopyComplete
  <2> QED
    BY <1>1, <2>1, <2>2, <2>3 DEF GInv, Running, Copying, Deciding, Removing, Gap, Fresh, Held
<1>4. CASE SomethingCopied
  <2>1. pc = "decide" /\ count > 0 /\ pc' = "remove" /\ UNCHANGED <<dirVars, result>>
    BY <1>4 DEF SomethingCopied
  <2>2. TypeOK' /\ CountBelow'
    BY <1>1, <2>1 DEF GInv, TypeOK, CountBelow, dirVars
  <2> QED
    BY <1>1, <2>1, <2>2
       DEF GInv, Running, Copying, Deciding, Removing, Gap, Fresh, Held, Copied, CopyComplete, dirVars
<1>5. CASE BeginRemove
  <2>1. /\ pc = "remove" /\ pc' = "removing" /\ UNCHANGED <<gc, gcHere, result>>
        /\ dbHere' = "torn" /\ db' = Empty
    BY <1>5 DEF BeginRemove
  <2>2. TypeOK' /\ CountBelow'
    BY <1>1, <2>1, EmptyContents DEF GInv, TypeOK, CountBelow
  <2>3. Copied /\ gcHere /\ dbHere = "yes" /\ db = live
    BY <2>1 DEF GInv, Deciding
  <2>4. Copied'
    BY <1>1, <2>1, <2>3 DEF Copied
  <2> QED
    BY <1>1, <2>1, <2>2, <2>3, <2>4
       DEF GInv, Running, Copying, Deciding, Removing, Gap, Fresh, Held, CopyComplete
<1>6. CASE EndRemove
  <2>1. /\ pc = "removing" /\ pc' = "rename" /\ UNCHANGED <<db, gc, gcHere, result>>
        /\ dbHere' = "no"
    BY <1>6 DEF EndRemove
  <2>2. TypeOK' /\ CountBelow'
    BY <1>1, <2>1 DEF GInv, TypeOK, CountBelow
  <2>3. dbHere # "yes" /\ db = Empty
    BY <2>1 DEF GInv, Deciding, Removing, Gap
  <2> QED
    BY <1>1, <2>1, <2>2, <2>3
       DEF GInv, Running, Copying, Deciding, Removing, Gap, Fresh, Held, Copied, CopyComplete
<1>7. CASE Rename
  <2>1. pc = "rename" /\ pc' = "idle"
    BY <1>7 DEF Rename
  <2>2. Copied /\ gcHere /\ dbHere # "yes"
    BY <2>1 DEF GInv, Deciding, Removing
  <2>3. CASE result' = "error" /\ UNCHANGED dirVars
    <3>1. TypeOK' /\ CountBelow'
      BY <1>1, <2>1, <2>3 DEF GInv, TypeOK, CountBelow, dirVars
    <3> QED
      BY <1>1, <2>1, <2>3, <3>1
         DEF GInv, Running, Copying, Deciding, Removing, Gap, Fresh, Held, Copied, CopyComplete,
             dirVars
  <2>4. CASE dbHere' = "yes" /\ db' = gc /\ gcHere' = FALSE /\ gc' = Empty /\ result' = "ok"
    <3>1. TypeOK' /\ CountBelow'
      BY <1>1, <1>2, <2>1, <2>4, EmptyContents DEF GInv, TypeOK, CountBelow
    <3>2. CopyComplete'
      BY <1>1, <2>1, <2>2, <2>4 DEF GInv, Fresh, Copied, CopyComplete
    <3>3. Held'
      BY <1>1, <2>2, <2>4 DEF GInv, Held, Copied
    <3> QED
      BY <1>1, <2>1, <2>4, <3>1, <3>2, <3>3
         DEF GInv, Running, Copying, Deciding, Removing, Gap, Fresh
  <2> QED
    BY <1>7, <2>3, <2>4 DEF Rename
<1>8. CASE Die
  <2>1. pc' = "idle" /\ result' = "died" /\ UNCHANGED dirVars
    BY <1>8 DEF Die
  <2>2. TypeOK' /\ CountBelow'
    BY <1>1, <2>1 DEF GInv, TypeOK, CountBelow, dirVars
  <2> QED
    BY <1>1, <2>1, <2>2
       DEF GInv, Running, Copying, Deciding, Removing, Gap, Fresh, Held, Copied, CopyComplete,
           dirVars
<1> QED
  BY <1>3, <1>4, <1>5, <1>6, <1>7, <1>8

LEMMA NextGc == NoIgnoredErrors /\ GInv /\ [Next]_vars => GInv'
<1>1. GInv /\ UNCHANGED vars => GInv'
  BY DEF vars, GInv, TypeOK, CountBelow, Running, Copying, Deciding, Removing, Gap, Fresh, Held,
         Copied, CopyComplete
<1> QED
  BY <1>1, OpenGc, PruneGc, CreateGcGc, LoopGc, SwapGc DEF Next, PassStep

----------------------------------------------------------------------------
(* No key that is not old is in neither directory, whatever the size of    *)
(* the database and of the batches and wherever runs died, until a run     *)
(* starts over the gap between RemoveAll and Rename.                       *)
THEOREM GcNoKeyLost ==
  ASSUME NoIgnoredErrors
  PROVE  Spec => []NoKeyLost
<1>1. Init => GInv
  BY InitGc
<1>2. GInv /\ [Next]_vars => GInv'
  BY NextGc
<1>3. GInv => NoKeyLost
  BY DEF GInv, Gap, Held, Copied, NoKeyLost
<1> QED
  BY <1>1, <1>2, <1>3, PTL DEF Spec

(* A pass that returned nil left a complete copy, also after interrupted   *)
(* ones, and an exact one if nothing was in its way.                       *)
THEOREM GcCopyComplete ==
  ASSUME NoIgnoredErrors
  PROVE  Spec => []CopyComplete
<1>1. Init => GInv
  BY InitGc
<1>2. GInv /\ [Next]_vars => GInv'
  BY NextGc
<1>3. GInv => CopyComplete
  BY DEF GInv
<1> QED
  BY <1>1, <1>2, <1>3, PTL DEF Spec

(* Type correctness, from the same invariant: no key that is not in the    *)
(* database gets in a batch, and the count stays within the batch size.    *)
THEOREM GcTypes ==
  ASSUME NoIgnoredErrors
  PROVE  Spec => []TypeOK
<1>1. Init => GInv
  BY InitGc
<1>2. GInv /\ [Next]_vars => GInv'
  BY NextGc
<1>3. GInv => TypeOK
  BY DEF GInv
<1> QED
  BY <1>1, <1>2, <1>3, PTL DEF Spec

----------------------------------------------------------------------------
(* The block store after a run over the gap.  The database that the run    *)
(* made holds the record alone: the loop counts one key, which fills no    *)
(* batch, so that the directory that is removed is the empty one.          *)

RecordAlone == DOMAIN db \subseteq {Record}

OneCounted ==
  /\ pc # "full"
  /\ pc = "copy" => \/ count = 0 /\ left = {Record}
                    \/ count = 1 /\ left = {}
  /\ pc \in {"copied", "decide"} => count = 1

BInv ==
  kind = "blockstore" =>
    /\ NewKeys \subseteq (DOMAIN db) \cup (DOMAIN gc)
    /\ dbHere = "yes" => NewKeys \subseteq DOMAIN db \/ RecordAlone
    /\ pc \in {"create", "copy", "full", "copied", "decide"} => Record \in DOMAIN db
    /\ pc \in {"copy", "full", "copied", "decide"} /\ RecordAlone => OneCounted

(* A batch adds to the copy. *)
LEMMA CopyGrows ==
  ASSUME NoIgnoredErrors, GInv, BatchFull \/ WriteRest
  PROVE  DOMAIN gc \subseteq DOMAIN gc'
<1>1. gc \in Contents /\ Keep(live, batch) \in Contents
  BY KeepContents DEF GInv, TypeOK
<1>2. PICK o : o = Over(Keep(live, batch), gc)
  OBVIOUS
<1>3. DOMAIN o = (DOMAIN Keep(live, batch)) \cup DOMAIN gc
  BY <1>1, <1>2, OverContents
<1>4. gc' = gc \/ gc' = o
  BY <1>2 DEF BatchFull, WriteRest, WriteBatch, NoIgnoredErrors
<1> QED
  BY <1>3, <1>4

(* A prune of the block store deletes old keys and writes the record.      *)
LEMMA PrunedBlockStore ==
  ASSUME NEW c \in Contents, NEW deleted \in SUBSET OldKeys
  PROVE  DOMAIN Pruned(c, deleted, TRUE) = ((DOMAIN c) \ deleted) \cup {Record}
<1> DEFINE kept == Keep(c, Keys \ deleted)
           rec  == [k \in {Record} |-> IF k \in DOMAIN kept THEN kept[k] ELSE "zero"]
<1>1. DOMAIN kept = (DOMAIN c) \cap (Keys \ deleted) /\ DOMAIN c \subseteq Keys
  BY KeepContents, ContentsFunction
<1>2. DOMAIN rec = {Record}
  OBVIOUS
<1>3. Pruned(c, deleted, TRUE) = Over(rec, kept)
  BY DEF Pruned, Recorded
<1>4. DOMAIN Over(rec, kept) = (DOMAIN rec) \cup (DOMAIN kept)
  BY DEF Over
<1> QED
  BY <1>1, <1>2, <1>3, <1>4

LEMMA InitBlocks == Init => BInv
<1> SUFFICES ASSUME Init, kind = "blockstore" PROVE BInv
  BY DEF BInv
<1>1. DOMAIN db = Keys /\ pc = "idle"
  BY DEF Init
<1> QED
  BY <1>1 DEF BInv, NewKeys

LEMMA NextBlocks ==
  ASSUME NoIgnoredErrors, BatchSize # 1, GInv, BInv, [Next]_vars
  PROVE  BInv'
<1> SUFFICES ASSUME kind' = "blockstore" PROVE BInv'
  BY DEF BInv
<1>1. kind = "blockstore"
  BY DEF Next, PassStep, Open, Prune, CreateGc, CopyKey, BatchFull, EndOfLoop, WriteRest,
         NothingCopied, SomethingCopied, BeginRemove, EndRemove, Rename, Die, vars
<1>2. /\ db \in Contents /\ gc \in Contents
      /\ BatchSize \in Nat /\ BatchSize > 1
  BY GcAssumption DEF GcAssumption, GInv, TypeOK
<1>3. /\ NewKeys \subseteq (DOMAIN db) \cup (DOMAIN gc)
      /\ dbHere = "yes" => NewKeys \subseteq DOMAIN db \/ RecordAlone
      /\ pc \in {"create", "copy", "full", "copied", "decide"} => Record \in DOMAIN db
      /\ pc \in {"copy", "full", "copied", "decide"} /\ RecordAlone => OneCounted
  BY <1>1 DEF BInv
<1>4. CASE Open
  <2>1. pc' = "prune" /\ dbHere' = "yes" /\ gc' = gc
          /\ db' = IF dbHere = "yes" THEN db ELSE Empty
    BY <1>4 DEF Open
  <2>2. dbHere # "yes" => db = Empty
    BY DEF GInv, Gap
  <2>3. db' = db
    BY <2>1, <2>2
  <2>4. dbHere # "yes" => DOMAIN db = {}
    BY <2>2, EmptyContents
  <2> QED
    BY <1>3, <2>1, <2>3, <2>4 DEF BInv, RecordAlone
<1>5. CASE Prune
  <2>1. PICK deleted \in SUBSET OldKeys : db' = Pruned(db, deleted, kind = "blockstore")
    BY <1>5 DEF Prune
  <2>2. (kind = "blockstore") = TRUE
    BY <1>1
  <2>3. db' = Pruned(db, deleted, TRUE)
    BY <2>1, <2>2
  <2>4. DOMAIN db' = ((DOMAIN db) \ deleted) \cup {Record}
    BY <1>2, <2>3, PrunedBlockStore
  <2>5. gc' = gc /\ dbHere' = dbHere /\ pc' \in {"create", "idle"}
    BY <1>5 DEF Prune
  <2>6. NewKeys \cap deleted = {}
    BY DEF NewKeys
  <2>7. dbHere = "yes"
    BY <1>5 DEF Prune, GInv, Gap
  <2> QED
    BY <1>3, <2>4, <2>5, <2>6, <2>7 DEF BInv, RecordAlone
<1>6. CASE CreateGc
  <2>1. db' = db /\ dbHere' = dbHere /\ pc = "create"
    BY <1>6 DEF CreateGc
  <2>2. DOMAIN gc' = DOMAIN gc
    <3>1. ~gcHere => gc = Empty
      BY DEF GInv, Fresh
    <3> QED
      BY <1>6, <3>1 DEF CreateGc
  <2>3. count' = 0 /\ pc' \in {"copy", "idle"} /\ (pc' = "copy" => left' = DOMAIN db)
    BY <1>6 DEF CreateGc
  <2>4. RecordAlone => DOMAIN db = {Record}
    BY <1>3, <2>1 DEF RecordAlone
  <2> QED
    BY <1>3, <2>1, <2>2, <2>3, <2>4 DEF BInv, RecordAlone, OneCounted
<1>7. CASE CopyKey
  <2>1. PICK k \in left : left' = left \ {k} /\ count' = count + 1
    BY <1>7 DEF CopyKey
  <2>2. pc = "copy" /\ UNCHANGED <<db, gc, dbHere>>
          /\ pc' = IF count' >= BatchSize THEN "full" ELSE "copy"
    BY <1>7 DEF CopyKey, dirVars
  <2>3. RecordAlone => count = 0 /\ left = {Record}
    BY <1>3, <2>1, <2>2 DEF OneCounted
  <2>4. RecordAlone => count' = 1 /\ left' = {} /\ pc' = "copy"
    BY <1>2, <2>1, <2>2, <2>3
  <2>5. pc' \in {"copy", "full"}
    BY <2>2
  <2>6. NewKeys' = NewKeys /\ RecordAlone' = RecordAlone
    BY <2>2 DEF NewKeys, RecordAlone
  <2>7. RecordAlone => OneCounted'
    BY <2>4 DEF OneCounted
  <2> QED
    BY <1>3, <2>2, <2>5, <2>6, <2>7 DEF BInv
<1>8. CASE EndOfLoop
  <2>1. pc = "copy" /\ left = {} /\ pc' = "copied" /\ UNCHANGED <<db, gc, dbHere, left, count>>
    BY <1>8 DEF EndOfLoop, dirVars, NoIgnoredErrors
  <2>2. RecordAlone => OneCounted'
    BY <1>3, <2>1 DEF OneCounted
  <2> QED
    BY <1>3, <2>1, <2>2 DEF BInv, RecordAlone
<1>9. CASE BatchFull
  <2>1. pc = "full" /\ UNCHANGED <<db, dbHere>> /\ pc' = "copy"
    BY <1>9 DEF BatchFull
  <2>2. ~RecordAlone
    BY <1>3, <2>1 DEF OneCounted
  <2> QED
    BY <1>3, <1>9, <2>1, <2>2, CopyGrows DEF BInv, RecordAlone
<1>10. CASE WriteRest
  <2>1. pc = "copied" /\ UNCHANGED <<db, dbHere, count>> /\ pc' = "decide"
    BY <1>10 DEF WriteRest
  <2>2. RecordAlone => OneCounted'
    BY <1>3, <2>1 DEF OneCounted
  <2> QED
    BY <1>3, <1>10, <2>1, <2>2, CopyGrows DEF BInv, RecordAlone
<1>11. CASE NothingCopied
  <2>1. pc = "decide" /\ count = 0 /\ UNCHANGED <<db, dbHere>> /\ pc' = "idle"
    BY <1>11 DEF NothingCopied
  <2>2. ~RecordAlone
    BY <1>3, <2>1 DEF OneCounted
  <2>3. dbHere = "yes"
    BY <2>1 DEF GInv, Deciding
  <2> QED
    BY <1>3, <2>1, <2>2, <2>3 DEF BInv, RecordAlone
<1>12. CASE BeginRemove
  <2>1. pc = "remove" /\ pc' = "removing" /\ gc' = gc /\ dbHere' = "torn"
    BY <1>12 DEF BeginRemove
  <2>2. db = live /\ DOMAIN live \subseteq DOMAIN gc
    BY <2>1 DEF GInv, Deciding, Copied
  <2> QED
    BY <1>3, <2>1, <2>2 DEF BInv, NewKeys
<1>13. CASE Rename
  <2>1. pc = "rename" /\ pc' = "idle"
    BY <1>13 DEF Rename
  <2>2. DOMAIN db = {}
    BY <2>1, EmptyContents DEF GInv, Removing, Gap
  <2>3. UNCHANGED <<db, gc, dbHere>> \/ db' = gc
    BY <1>13 DEF Rename, dirVars
  <2> QED
    BY <1>3, <2>1, <2>2, <2>3 DEF BInv, RecordAlone
<1>14. CASE SomethingCopied \/ EndRemove \/ Die \/ UNCHANGED vars
  <2>1. UNCHANGED <<db, gc>> /\ (dbHere' = dbHere \/ dbHere' = "no")
    BY <1>14 DEF SomethingCopied, EndRemove, Die, vars, dirVars
  <2>2. pc' \in {"remove", "rename", "idle"} \/ UNCHANGED <<pc, left, count>>
    BY <1>14 DEF SomethingCopied, EndRemove, Die, vars
  <2> QED
    BY <1>3, <2>1, <2>2 DEF BInv, RecordAlone, OneCounted
<1> QED
  BY <1>4, <1>5, <1>6, <1>7, <1>8, <1>9, <1>10, <1>11, <1>12, <1>13, <1>14 DEF Next, PassStep

(* With batches of one key the count is always 0 at the end: the pass      *)
(* copies everything, throws the copy away and never removes a directory.  *)
OneInv ==
  /\ dbHere = "yes" /\ ~remade
  /\ pc \notin {"remove", "removing", "rename"}
  /\ pc \in {"copied", "decide"} => count = 0

LEMMA NextOne ==
  ASSUME BatchSize = 1, GInv, OneInv, [Next]_vars
  PROVE  OneInv'
<1>1. count \in Nat /\ (pc = "copy" => count < 1)
  BY GcAssumption DEF GcAssumption, GInv, TypeOK, CountBelow
<1>2. CASE Open
  <2>1. remade' = (remade \/ dbHere # "yes") /\ dbHere' = "yes" /\ pc' = "prune"
    BY <1>2 DEF Open
  <2>2. ~remade /\ ~(dbHere # "yes")
    BY DEF OneInv
  <2>3. ~remade'
    BY <2>1, <2>2, Zenon
  <2> QED
    BY <2>1, <2>3 DEF OneInv
<1>3. CASE Prune \/ CreateGc \/ BatchFull \/ NothingCopied \/ Die
  BY <1>3 DEF Prune, CreateGc, BatchFull, NothingCopied, Die, dirVars, OneInv
<1>4. CASE CopyKey
  <2>1. UNCHANGED <<dbHere, remade>> /\ pc' \in {"full", "copy"}
    BY <1>4 DEF CopyKey, dirVars
  <2> QED
    BY <2>1 DEF OneInv
<1>5. CASE EndOfLoop
  <2>1. pc = "copy" /\ pc' = "copied" /\ UNCHANGED <<dbHere, remade, count>>
    BY <1>5 DEF EndOfLoop, dirVars
  <2> QED
    BY <1>1, <2>1 DEF OneInv
<1>6. CASE WriteRest
  <2>1. pc = "copied" /\ pc' = "decide" /\ UNCHANGED <<dbHere, remade, count>>
    BY <1>6 DEF WriteRest
  <2> QED
    BY <2>1 DEF OneInv
<1>7. CASE SomethingCopied \/ BeginRemove \/ EndRemove \/ Rename
  BY <1>1, <1>7 DEF SomethingCopied, BeginRemove, EndRemove, Rename, OneInv
<1>8. CASE UNCHANGED vars
  BY <1>8 DEF vars, OneInv
<1> QED
  BY <1>2, <1>3, <1>4, <1>5, <1>6, <1>7, <1>8 DEF Next, PassStep

SurvivalInv == IF BatchSize = 1 THEN OneInv ELSE BInv

(* The blocks that are to be kept survive even a run over the gap, for     *)
(* every batch size.                                                       *)
THEOREM GcBlocksSurvive ==
  ASSUME NoIgnoredErrors
  PROVE  Spec => []BlocksSurvive
<1>1. Init => GInv /\ SurvivalInv
  <2>1. Init => OneInv
    BY DEF Init, OneInv
  <2> QED
    BY <2>1, InitGc, InitBlocks DEF SurvivalInv
<1>2. GInv /\ SurvivalInv /\ [Next]_vars => GInv' /\ SurvivalInv'
  BY NextGc, NextBlocks, NextOne DEF SurvivalInv
<1>3. GInv /\ SurvivalInv => BlocksSurvive
  BY DEF SurvivalInv, OneInv, BInv, BlocksSurvive, GInv, Held
<1> QED
  BY <1>1, <1>2, <1>3, PTL DEF Spec

----------------------------------------------------------------------------
(* Refinement. *)

data   == IF dbHere = "yes" THEN db ELSE gc
broken == stale \/ remade

LEMMA InitStore == Init => Abstract!Init
<1> SUFFICES ASSUME Init PROVE Abstract!Init
  OBVIOUS
<1>1. GInv
  BY InitGc
<1>2. db \in Contents /\ dbHere = "yes" /\ stale = FALSE /\ remade = FALSE
  BY <1>1 DEF Init, GInv, TypeOK
<1> QED
  BY <1>2 DEF Abstract!Init, Abstract!Contents, Abstract!Values, Contents, Values

(* When the old directory goes, its contents are those of the copy. *)
LEMMA CopyIsTheDatabase ==
  ASSUME GInv, ~stale, pc \in {"remove", "removing", "rename"}
  PROVE  gc = live
<1>1. Copied /\ DOMAIN gc \subseteq DOMAIN live
  BY DEF GInv, Deciding, Fresh
<1>2. DOMAIN gc = DOMAIN live /\ \A k \in DOMAIN gc : gc[k] = live[k]
  BY <1>1 DEF Copied
<1> QED
  BY <1>2, SameContents DEF GInv, TypeOK

LEMMA StepStore ==
  ASSUME NoIgnoredErrors, GInv, [Next]_vars
  PROVE  [Abstract!Next]_<<data, broken>>
<1>1. GInv'
  BY NextGc
<1>2. data' \in Contents /\ data \in Contents /\ Contents = Abstract!Contents
  BY <1>1 DEF GInv, TypeOK, data, Contents, Values, Abstract!Contents, Abstract!Values
<1>3. broken \in BOOLEAN /\ broken' \in BOOLEAN /\ (broken => broken')
  <2>1. stale \in BOOLEAN /\ remade \in BOOLEAN /\ stale' \in BOOLEAN /\ remade' \in BOOLEAN
    BY <1>1 DEF GInv, TypeOK
  <2>2. (stale => stale') /\ (remade => remade')
    <3>1. CASE Open
      <4>1. stale' = stale /\ remade' = (remade \/ dbHere # "yes")
        BY <3>1 DEF Open
      <4> QED
        BY <4>1, Zenon
    <3>2. CASE CreateGc
      <4>1. remade' = remade /\ (stale' = (stale \/ gcHere) \/ stale' = stale)
        BY <3>2 DEF CreateGc
      <4>2. CASE stale' = (stale \/ gcHere)
        BY <4>1, <4>2, Zenon
      <4>3. CASE stale' = stale
        BY <4>1, <4>3
      <4> QED
        BY <4>1, <4>2, <4>3, Zenon
    <3>3. CASE UNCHANGED <<stale, remade>>
      BY <3>3
    <3> QED
      BY <3>1, <3>2, <3>3
         DEF Next, PassStep, Prune, CopyKey, BatchFull, EndOfLoop, WriteRest,
             NothingCopied, SomethingCopied, BeginRemove, EndRemove, Rename, Die, vars
  <2> QED
    BY <2>1, <2>2 DEF broken
<1>4. CASE broken
  <2>1. Abstract!AfterThat
    BY <1>2, <1>3, <1>4 DEF Abstract!AfterThat, data, broken
  <2> QED
    BY <2>1 DEF Abstract!Next
<1>5. CASE ~broken /\ broken'
  <2>1. Abstract!StartOverRemains
    BY <1>2, <1>3, <1>5 DEF Abstract!StartOverRemains, data, broken
  <2> QED
    BY <2>1 DEF Abstract!Next
<1>6. CASE ~broken /\ ~broken'
  <2>1. broken' = broken /\ ~stale /\ ~stale' /\ ~remade /\ ~remade'
    BY <1>3, <1>6 DEF broken
  <2>2. CASE Prune
    <3>1. dbHere = "yes" /\ dbHere' = "yes"
      BY <2>2 DEF Prune, GInv, Gap
    <3>2. PICK deleted \in SUBSET OldKeys : db' = Pruned(db, deleted, kind = "blockstore")
      BY <2>2 DEF Prune
    <3>3. \E w \in BOOLEAN : db' = Pruned(db, deleted, w)
      BY <3>2
    <3>4. data = db /\ data' = db'
      BY <3>1 DEF data
    <3>5. \E w \in BOOLEAN : data' = Abstract!Pruned(data, deleted, w)
      BY <3>3, <3>4
         DEF Pruned, Recorded, Keep, Over,
             Abstract!Pruned, Abstract!Recorded, Abstract!Keep, Abstract!Over
    <3>6. Abstract!Prune
      BY <1>6, <2>1, <3>5 DEF Abstract!Prune, data, broken
    <3> QED
      BY <3>6 DEF Abstract!Next
  <2>3. CASE BeginRemove
    <3>1. pc = "remove" /\ dbHere = "yes" /\ db = live /\ dbHere' = "torn" /\ gc' = gc
      BY <2>3 DEF BeginRemove, GInv, Deciding
    <3>2. data' = data
      BY <2>1, <3>1, CopyIsTheDatabase DEF data
    <3> QED
      BY <2>1, <3>2
  <2>4. CASE Rename
    <3>1. dbHere # "yes"
      BY <2>4 DEF Rename, GInv, Removing
    <3>2. data' = data
      BY <2>4, <3>1 DEF Rename, data, dirVars
    <3> QED
      BY <2>1, <3>2
  <2>5. CASE Open
    <3>1. dbHere = "yes" /\ dbHere' = "yes" /\ db' = db
      BY <2>1, <2>5 DEF Open, GInv, TypeOK
    <3>2. data' = data
      BY <3>1 DEF data
    <3> QED
      BY <2>1, <3>2
  <2>6. CASE CreateGc \/ CopyKey \/ BatchFull \/ EndOfLoop \/ WriteRest \/ NothingCopied
             \/ SomethingCopied
    <3>1. dbHere = "yes" /\ dbHere' = dbHere /\ db' = db
      BY <2>6 DEF CreateGc, CopyKey, BatchFull, EndOfLoop, WriteRest, NothingCopied,
                  SomethingCopied, dirVars, GInv, Gap, Copying, Deciding
    <3>2. data' = data
      BY <3>1 DEF data
    <3> QED
      BY <2>1, <3>2
  <2>7. CASE EndRemove
    <3>1. dbHere # "yes" /\ dbHere' = "no" /\ gc' = gc
      BY <2>7 DEF EndRemove, GInv, Removing
    <3>2. data' = data
      BY <3>1 DEF data
    <3> QED
      BY <2>1, <3>2
  <2>8. CASE Die \/ UNCHANGED vars
    <3>1. UNCHANGED dirVars
      BY <2>8 DEF Die, vars, dirVars
    <3>2. data' = data
      BY <3>1 DEF data, dirVars
    <3> QED
      BY <2>1, <3>2
  <2> QED
    BY <2>2, <2>3, <2>4, <2>5, <2>6, <2>7, <2>8 DEF Next, PassStep
<1> QED
  BY <1>3, <1>4, <1>5, <1>6

(* The pass, with its batches, its removal and its renaming, and a death   *)
(* anywhere in it, implements a database that only the prune changes.      *)
THEOREM GcImplementsStore ==
  ASSUME NoIgnoredErrors
  PROVE  Spec => ImplementsStore
<1>1. Init => GInv /\ Abstract!Init
  BY InitGc, InitStore
<1>2. GInv /\ [Next]_vars => GInv'
  BY NextGc
<1>3. GInv /\ [Next]_vars =>
        [Abstract!Next]_<<IF dbHere = "yes" THEN db ELSE gc, stale \/ remade>>
  BY StepStore DEF data, broken
<1> QED
  BY <1>1, <1>2, <1>3, PTL DEF Spec, ImplementsStore, Abstract!Spec

----------------------------------------------------------------------------
(* Every run is finite, whatever fails, the ignored errors included: a     *)
(* bound on the steps that are left of it goes down with every step.       *)

StepsLeft ==
  CASE pc = "prune"    -> 9 + 2 * Cardinality(Keys)
    [] pc = "create"   -> 8 + 2 * Cardinality(Keys)
    [] pc = "full"     -> 7 + 2 * Cardinality(left)
    [] pc = "copy"     -> 6 + 2 * Cardinality(left)
    [] pc = "copied"   -> 5
    [] pc = "decide"   -> 4
    [] pc = "remove"   -> 3
    [] pc = "removing" -> 2
    [] pc = "rename"   -> 1
    [] pc = "idle"     -> 0

Positions == {"idle", "prune", "create", "copy", "full", "copied", "decide", "remove", "removing", "rename"}

DataInv ==
  /\ db \in Contents /\ gc \in Contents /\ live \in Contents
  /\ left \subseteq Keys /\ pc \in Positions

LEMMA NextData ==
  ASSUME DataInv, [Next]_vars
  PROVE  DataInv'
<1>1. Empty \in Contents /\ \A c \in Contents : DOMAIN c \subseteq Keys
  BY EmptyContents, ContentsFunction
<1>2. \A b : Over(Keep(live, b), gc) \in Contents
  BY KeepContents, OverContents DEF DataInv
<1>3. CASE Open
  BY <1>1, <1>3 DEF Open, DataInv, Positions
<1>4. CASE Prune
  <2>1. PICK deleted \in SUBSET OldKeys : db' = Pruned(db, deleted, kind = "blockstore")
    BY <1>4 DEF Prune
  <2>2. (kind = "blockstore") \in BOOLEAN
    OBVIOUS
  <2>3. db' \in Contents
    BY <2>1, <2>2, PrunedContents DEF DataInv
  <2> QED
    BY <1>4, <2>3 DEF Prune, DataInv, Positions
<1>5. CASE CreateGc
  BY <1>1, <1>5 DEF CreateGc, DataInv, Positions
<1>6. CASE CopyKey
  BY <1>6 DEF CopyKey, dirVars, DataInv, Positions
<1>7. CASE BatchFull
  BY <1>2, <1>7 DEF BatchFull, WriteBatch, DataInv, Positions
<1>8. CASE WriteRest
  BY <1>2, <1>8 DEF WriteRest, WriteBatch, DataInv, Positions
<1>9. CASE EndOfLoop \/ NothingCopied \/ SomethingCopied \/ BeginRemove \/ EndRemove \/ Rename \/ Die
  BY <1>1, <1>9 DEF EndOfLoop, NothingCopied, SomethingCopied, BeginRemove, EndRemove, Rename, Die,
                    dirVars, DataInv, Positions
<1>10. CASE UNCHANGED vars
  BY <1>10 DEF vars, DataInv
<1> QED
  BY <1>3, <1>4, <1>5, <1>6, <1>7, <1>8, <1>9, <1>10 DEF Next, PassStep

(* A run of the command that has begun, and each step of which is a step   *)
(* of the pass or its death, can take no more steps than StepsLeft says:   *)
(* together with the fairness of the pass this is why it ends.             *)
THEOREM GcPassShortens ==
  ASSUME IsFiniteSet(Keys)
  PROVE  Spec => /\ [](StepsLeft \in Nat)
                 /\ [][PassStep \/ Die => StepsLeft' < StepsLeft]_vars
<1>1. Init => DataInv
  <2> SUFFICES ASSUME Init PROVE DataInv
    OBVIOUS
  <2>1. db \in Contents
    <3>1. PICK K \in SUBSET Keys : db = [k \in K |-> "set"]
      BY DEF Init
    <3>2. db \in [K -> Values]
      BY <3>1 DEF Values
    <3> QED
      BY <3>2 DEF Contents
  <2> QED
    BY <2>1, EmptyContents DEF Init, DataInv, Positions
<1>2. DataInv /\ [Next]_vars => DataInv'
  BY NextData
<1>3. \A S \in SUBSET Keys : IsFiniteSet(S) /\ Cardinality(S) \in Nat /\ Cardinality(S) <= Cardinality(Keys)
  BY FS_Subset, FS_CardinalityType
<1>4. Cardinality(Keys) \in Nat
  BY FS_CardinalityType
<1>5. DataInv => StepsLeft \in Nat
  <2> SUFFICES ASSUME DataInv PROVE StepsLeft \in Nat
    OBVIOUS
  <2>1. Cardinality(left) \in Nat
    BY <1>3 DEF DataInv
  <2> QED
    BY <1>4, <2>1 DEF StepsLeft, DataInv, Positions
<1>6. ASSUME DataInv, DataInv', PassStep \/ Die
      PROVE  StepsLeft' < StepsLeft
  <2>1. /\ Cardinality(left) \in Nat /\ Cardinality(left') \in Nat
        /\ Cardinality(left') <= Cardinality(Keys)
    BY <1>3, <1>6 DEF DataInv
  <2>2. CASE CopyKey
    <3>1. PICK k \in left : left' = left \ {k}
      BY <2>2 DEF CopyKey
    <3>2. Cardinality(left') = Cardinality(left) - 1
      BY <1>3, <1>6, <3>1, FS_RemoveElement DEF DataInv
    <3>3. pc = "copy" /\ pc' \in {"copy", "full"}
      BY <2>2 DEF CopyKey
    <3> QED
      BY <2>1, <3>2, <3>3 DEF StepsLeft
  <2>3. CASE BatchFull \/ EndOfLoop \/ WriteRest
    <3>1. \/ pc = "full" /\ pc' = "copy" /\ left' = left
          \/ pc = "copy" /\ pc' = "copied"
          \/ pc = "copied" /\ pc' = "decide"
      BY <2>3 DEF BatchFull, EndOfLoop, WriteRest
    <3> QED
      BY <2>1, <3>1 DEF StepsLeft
  <2>4. CASE Prune \/ CreateGc
    <3>1. \/ pc = "prune" /\ pc' \in {"create", "idle"}
          \/ pc = "create" /\ pc' \in {"copy", "idle"}
      BY <2>4 DEF Prune, CreateGc
    <3> QED
      BY <1>4, <2>1, <3>1 DEF StepsLeft
  <2>5. CASE NothingCopied \/ SomethingCopied \/ BeginRemove \/ EndRemove \/ Rename
    <3>1. \/ pc = "decide" /\ pc' \in {"idle", "remove"}
          \/ pc = "remove" /\ pc' = "removing"
          \/ pc = "removing" /\ pc' = "rename"
          \/ pc = "rename" /\ pc' = "idle"
      BY <2>5 DEF NothingCopied, SomethingCopied, BeginRemove, EndRemove, Rename
    <3> QED
      BY <3>1 DEF StepsLeft
  <2>6. CASE Die
    <3>1. pc \in Positions \ {"idle"} /\ pc' = "idle"
      BY <1>6, <2>6 DEF Die, DataInv
    <3> QED
      BY <1>4, <2>1, <3>1 DEF StepsLeft, Positions
  <2> QED
    BY <1>6, <2>2, <2>3, <2>4, <2>5, <2>6 DEF PassStep
<1> QED
  BY <1>1, <1>2, <1>5, <1>6, PTL DEF Spec
=============================================================================

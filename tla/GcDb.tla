-------------------------------- MODULE GcDb --------------------------------
(***************************************************************************)
(* gcDB: the garbage collection pass over one database directory.  What    *)
(* the prune left is copied, batch by batch, to <name>_gc.db, the old      *)
(* directory is removed and the new one renamed.  The process may die      *)
(* anywhere, and the whole command may be run again.                       *)
(***************************************************************************)
EXTENDS DbContents

CONSTANTS
  BatchSize,   \* 10_000 in the code
  Faults,      \* which calls may return an error
  MaxRuns      \* bound: how many times the command is run

AllFaults == {"open", "iterate", "write", "rename"}

ASSUME GcAssumption ==
  /\ BatchSize \in Nat \ {0}
  /\ Faults \subseteq AllFaults
  /\ MaxRuns \in Nat

Kinds == {"blockstore", "state", "application"}

VARIABLES
  kind,     \* the database: they differ in what a run does before the pass
  db,       \* what <name>.db holds
  dbHere,   \* "yes", "torn" while RemoveAll is at work, "no"
  gc,       \* what <name>_gc.db holds
  gcHere,   \* whether that directory exists
  pc,       \* where the run is
  left,     \* the keys still ahead of the iterator
  batch,    \* the keys set in the batch
  count,    \* the variable of the same name
  live,     \* history: what the database held when the pass began
  stale,    \* history: a pass began with a <name>_gc.db already there
  remade,   \* history: NewDB made an empty database of a missing one
  result,   \* how the pass of the latest run ended
  runs

dirVars == <<db, dbHere, gc, gcHere>>
vars == <<kind, db, dbHere, gc, gcHere, pc, left, batch, count, live, stale,
          remade, result, runs>>

TypeOK ==
  /\ kind \in Kinds
  /\ db \in Contents /\ gc \in Contents /\ live \in Contents
  /\ dbHere \in {"yes", "torn", "no"}
  /\ gcHere \in BOOLEAN /\ stale \in BOOLEAN /\ remade \in BOOLEAN
  /\ pc \in {"idle", "prune", "create", "copy", "full", "copied", "decide", "remove", "removing", "rename"}
  /\ left \subseteq DOMAIN live
  /\ batch \subseteq DOMAIN live
  /\ count \in 0..BatchSize
  /\ result \in {"none", "ok", "error", "died"}
  /\ runs \in 0..MaxRuns

Init ==
  /\ kind \in Kinds
  /\ db = [k \in IF kind = "blockstore" THEN Keys ELSE Keys \ {Record} |-> "set"]
  /\ dbHere = "yes"
  /\ gc = Empty /\ gcHere = FALSE
  /\ pc = "idle" /\ left = {} /\ batch = {} /\ count = 0 /\ live = Empty
  /\ stale = FALSE /\ remade = FALSE /\ result = "none" /\ runs = 0

----------------------------------------------------------------------------
(* A run of the command, up to the pass. *)

(* NewDB opens the directory, and makes an empty database where there is   *)
(* none.  A run without a state.db stops at Stat.  What is left of a       *)
(* directory that was being removed opens with an error or as empty.       *)
Open ==
  /\ pc = "idle" /\ runs < MaxRuns
  /\ dbHere = "yes" \/ kind # "state"
  /\ runs' = runs + 1 /\ pc' = "prune" /\ result' = "none"
  /\ dbHere' = "yes"
  /\ db' = IF dbHere = "yes" THEN db ELSE Empty
  /\ remade' = (remade \/ dbHere # "yes")
  /\ UNCHANGED <<kind, gc, gcHere, left, batch, count, live, stale>>

(* The deletions (all of them, or those before an error), and for the      *)
(* block store the record.  The pass is next, unless --run-gc is off or    *)
(* the prune failed.                                                       *)
Prune ==
  /\ pc = "prune"
  /\ \E deleted \in SUBSET OldKeys : db' = Pruned(db, deleted, kind = "blockstore")
  /\ \/ pc' = "create" /\ UNCHANGED result
     \/ pc' = "idle" /\ result' = "error"
  /\ UNCHANGED <<kind, dbHere, gc, gcHere, left, batch, count, live, stale, remade, runs>>

(* newDB: a directory that is there already is opened as it is. *)
CreateGc ==
  /\ pc = "create"
  /\ \/ /\ pc' = "copy" /\ UNCHANGED result
        /\ gcHere' = TRUE
        /\ gc' = IF gcHere THEN gc ELSE Empty
        /\ live' = db /\ left' = DOMAIN db
        /\ stale' = (stale \/ gcHere)
     \/ /\ "open" \in Faults
        /\ pc' = "idle" /\ result' = "error"
        /\ UNCHANGED <<gc, gcHere, live, left, stale>>
  /\ batch' = {} /\ count' = 0
  /\ UNCHANGED <<kind, db, dbHere, remade, runs>>

----------------------------------------------------------------------------
(* The loop. *)

(* batch.Write, whose error is not looked at. *)
WriteBatch(b) ==
  \/ gc' = Over(Keep(live, b), gc)
  \/ "write" \in Faults /\ gc' = gc

(* Mutants of CopyKey: the key is not set when the batch is full; the      *)
(* iterator does not move on.                                              *)
CopyKeyFull ==
  /\ pc = "copy"
  /\ \E k \in left :
       /\ \A j \in left : k <= j
       /\ left' = left \ {k}
       /\ batch' = IF count + 1 >= BatchSize THEN batch ELSE batch \cup {k}
       /\ count' = count + 1
  /\ pc' = IF count' >= BatchSize THEN "full" ELSE "copy"
  /\ UNCHANGED <<kind, dirVars, live, stale, remade, result, runs>>
CopyKeyNoNext ==
  /\ pc = "copy"
  /\ \E k \in left :
       /\ \A j \in left : k <= j
       /\ batch' = batch \cup {k}
       /\ count' = count + 1
  /\ pc' = IF count' >= BatchSize THEN "full" ELSE "copy"
  /\ UNCHANGED <<kind, dirVars, left, live, stale, remade, result, runs>>

(* batch.Set of the next key. *)
CopyKey ==
  /\ pc = "copy"
  /\ \E k \in left :
       /\ \A j \in left : k <= j
       /\ left' = left \ {k}
       /\ batch' = batch \cup {k}
       /\ count' = count + 1
  /\ pc' = IF count' >= BatchSize THEN "full" ELSE "copy"
  /\ UNCHANGED <<kind, dirVars, live, stale, remade, result, runs>>

(* Mutant of BatchFull: count is not reset. *)
BatchFullNoReset ==
  /\ pc = "full"
  /\ WriteBatch(batch)
  /\ batch' = {} /\ UNCHANGED count /\ pc' = "copy"
  /\ UNCHANGED <<kind, db, dbHere, gcHere, left, live, stale, remade, result, runs>>

(* count >= batchSize: write, and begin a new batch. *)
BatchFull ==
  /\ pc = "full"
  /\ WriteBatch(batch)
  /\ batch' = {} /\ count' = 0 /\ pc' = "copy"
  /\ UNCHANGED <<kind, db, dbHere, gcHere, left, live, stale, remade, result, runs>>

(* iter.Valid() is false: at the end, or because the iterator met an error *)
(* (iter.Error is not called).                                             *)
EndOfLoop ==
  /\ pc = "copy"
  /\ left = {} \/ "iterate" \in Faults
  /\ pc' = "copied"
  /\ UNCHANGED <<kind, dirVars, left, batch, count, live, stale, remade, result, runs>>

(* Mutant of WriteRest: the last batch is only closed. *)
WriteRestNever ==
  /\ pc = "copied"
  /\ pc' = "decide"
  /\ UNCHANGED <<kind, dirVars, left, batch, count, live, stale, remade, result, runs>>

(* The rest of the batch is written if count > 0; both are closed. *)
WriteRest ==
  /\ pc = "copied"
  /\ IF count > 0 THEN WriteBatch(batch) ELSE UNCHANGED gc
  /\ pc' = "decide"
  /\ UNCHANGED <<kind, db, dbHere, gcHere, left, batch, count, live, stale, remade, result, runs>>

----------------------------------------------------------------------------
(* The swap. *)

(* Mutant of NothingCopied: the old directory is removed. *)
NothingCopiedRemovesOld ==
  /\ pc = "decide" /\ count = 0
  /\ dbHere' = "no" /\ db' = Empty /\ pc' = "idle" /\ result' = "ok"
  /\ UNCHANGED <<kind, gc, gcHere, left, batch, count, live, stale, remade, runs>>

(* "gc complete, but empty": the copy is thrown away and the old directory *)
(* stays.  count is 0 after a full batch too.                              *)
NothingCopied ==
  /\ pc = "decide" /\ count = 0
  /\ gcHere' = FALSE /\ gc' = Empty
  /\ pc' = "idle" /\ result' = "ok"
  /\ UNCHANGED <<kind, db, dbHere, left, batch, count, live, stale, remade, runs>>

SomethingCopied ==
  /\ pc = "decide" /\ count > 0
  /\ pc' = "remove"
  /\ UNCHANGED <<kind, dirVars, left, batch, count, live, stale, remade, result, runs>>

(* RemoveAll deletes file by file; its error is not looked at. *)
BeginRemove ==
  /\ pc = "remove"
  /\ dbHere' = "torn" /\ db' = Empty /\ pc' = "removing"
  /\ UNCHANGED <<kind, gc, gcHere, left, batch, count, live, stale, remade, result, runs>>
EndRemove ==
  /\ pc = "removing"
  /\ dbHere' = "no" /\ pc' = "rename"
  /\ UNCHANGED <<kind, db, gc, gcHere, left, batch, count, live, stale, remade, result, runs>>

Rename ==
  /\ pc = "rename"
  /\ pc' = "idle"
  /\ \/ /\ dbHere' = "yes" /\ db' = gc
        /\ gcHere' = FALSE /\ gc' = Empty
        /\ result' = "ok"
     \/ "rename" \in Faults /\ result' = "error" /\ UNCHANGED dirVars
  /\ UNCHANGED <<kind, left, batch, count, live, stale, remade, runs>>

(* Writes already made stay; the pass has no other memory. *)
Die ==
  /\ pc # "idle"
  /\ pc' = "idle" /\ result' = "died"
  /\ UNCHANGED <<kind, dirVars, left, batch, count, live, stale, remade, runs>>

PassStep ==
  \/ Prune \/ CreateGc \/ CopyKey \/ BatchFull \/ EndOfLoop \/ WriteRest
  \/ NothingCopied \/ SomethingCopied \/ BeginRemove \/ EndRemove \/ Rename

Next == Open \/ PassStep \/ Die

Spec == Init /\ [][Next]_vars

(* The pass is sequential code: it goes on until it returns. *)
FairSpec == Spec /\ WF_vars(PassStep)

----------------------------------------------------------------------------
NewKeys == Keys \ (OldKeys \cup {Record})

(* At no point of a run, of a death in it or of the runs after it is a key *)
(* that is not to be pruned in neither directory: the old one goes only    *)
(* when the copy is complete (pruner.go:148-161).  It takes a run over the *)
(* gap between RemoveAll and Rename to break this, see below.              *)
NoKeyLost ==
  ~remade => NewKeys \subseteq (DOMAIN db) \cup (DOMAIN gc)

(* After a pass that returned nil, the database holds all that it held     *)
(* before, with the same values, whatever an interrupted pass had left in  *)
(* the way; and nothing else, if none had.  The case where nothing is      *)
(* counted because the last batch was full is no exception: the old        *)
(* directory stays (pruner.go:152-156).                                    *)
CopyComplete ==
  result = "ok" =>
    /\ dbHere = "yes" /\ ~gcHere
    /\ \A k \in DOMAIN live : k \in DOMAIN db /\ db[k] = live[k]
    /\ ~stale => DOMAIN db = DOMAIN live

(* The block store's copy survives even a run over the gap: the record     *)
(* that the prune writes makes the pass count one key, and the renamed     *)
(* directory is the complete one of before.                                *)
BlocksSurvive ==
  kind = "blockstore" => NewKeys \subseteq (DOMAIN db) \cup (DOMAIN gc)

(* A run that has begun ends. *)
PassEnds == pc # "idle" ~> pc = "idle"

(* The contents of the database across the pass: those of the directory,   *)
(* or of the copy while the directory is gone.                             *)
Abstract == INSTANCE GcStore WITH
  data   <- IF dbHere = "yes" THEN db ELSE gc,
  broken <- stale \/ remade

(* The pass implements a database that only the prune changes. *)
ImplementsStore == Abstract!Spec

(* The promise of README.md:1 (only 'old' data is pruned): a key that is   *)
(* not old is never gone from both directories.                            *)
OnlyOldDataGoes == NewKeys \subseteq (DOMAIN db) \cup (DOMAIN gc)
=============================================================================

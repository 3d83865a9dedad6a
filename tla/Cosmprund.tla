----------------------------- MODULE Cosmprund -----------------------------
(***************************************************************************)
(* The command "cosmprund prune": who owns the files, which handles are    *)
(* open, which directory is in its place, in which order things are done   *)
(* and how the process ends.  What the prunes and the passes do to the     *)
(* contents is in AppState, CometPrune and GcDb; here each is a goroutine  *)
(* that succeeds or fails.  The command is run again and again, with other *)
(* flags, by a user other than the node's; it may be killed anywhere.      *)
(***************************************************************************)
EXTENDS Integers

CONSTANTS
  GiB,        \* 2^30 in the code
  AppSizes,   \* the sizes application.db may have, in bytes
  MaxRuns     \* bound: how often the command is run

THRESHOLD_APP_SIZE == 10 * GiB

ASSUME CosmprundAssumption ==
  /\ GiB \in Nat \ {0, 1}
  /\ AppSizes \subseteq Nat
  /\ MaxRuns \in Nat

(* The order in which the databases are opened and given back. *)
Order == <<"state", "blockstore", "application">>
DBs == {"state", "blockstore", "application"}

VARIABLES
  \* the data directory
  dir,        \* <name>.db: "here", "torn" (RemoveAll is or was at work), "gone"
  copies,     \* the databases for which there is a <name>_gc.db
  owner,      \* whose the directory itself is: the node's user or the pruner's
  files,      \* whose the files in it are
  tables,     \* state.db has a table file, from which the format is read
  \* the process
  flags,      \* --cosmos-sdk, --cometbft, --run-gc
  pc,         \* where the main goroutine is
  pos,        \* the position in Order of its loop
  task,       \* the goroutine of each database
  open,       \* the databases it has open
  sei,        \* the chain is Sei: it is pruned by the main goroutine
  uid,        \* what Stat returned
  verdict,    \* how RunE will return
  outcome,    \* how the latest run ended
  runs,
  \* history
  before,     \* dir at the start of the run
  misused,    \* databases closed when not open, or opened when open
  pruned,     \* the prunes of the run that returned nil
  collected,  \* the passes of the run that completed
  dropped,    \* a pass returned an error, which was not looked at
  large,      \* application.db was over the threshold of the flag's text, and not forced
  unclosed,   \* the databases that were open when the latest run ended
  orphaned    \* the process was killed when state.db was not the node's

dirVars == <<dir, copies, owner, files, tables>>
marks == <<before, pruned, dropped, large, orphaned>>
history == <<marks, misused, collected, unclosed>>
vars == <<dirVars, flags, sei, pc, pos, task, open, uid, verdict, outcome, runs, history>>

Users == {"node", "pruner"}
AllFlags == {"cosmos-sdk", "cometbft", "run-gc"}

TypeOK ==
  /\ dir \in [DBs -> {"here", "torn", "gone"}] /\ before \in [DBs -> {"here", "torn", "gone"}]
  /\ owner \in [DBs -> Users] /\ files \in [DBs -> SUBSET Users]
  /\ copies \subseteq DBs /\ open \subseteq DBs /\ misused \subseteq DBs
  /\ pruned \subseteq DBs /\ collected \subseteq DBs /\ unclosed \subseteq DBs
  /\ tables \in BOOLEAN /\ sei \in BOOLEAN
  /\ dropped \in BOOLEAN /\ large \in BOOLEAN /\ orphaned \in BOOLEAN
  /\ flags \subseteq AllFlags
  /\ pc \in {"idle", "openApp", "pruneApp", "dbState", "open", "pruneSei", "prune", "collect", "chown", "chownFiles"}
  /\ pos \in 1..4
  /\ task \in [DBs -> {"none", "pruning", "sizing", "collecting", "copied", "removing", "removed", "ok", "failed"}]
  /\ uid \in Users
  /\ verdict \in {"success", "failure", "panicked"}
  /\ outcome \in {"none", "refused", "success", "failure", "panicked", "crashed", "killed"}
  /\ runs \in 0..MaxRuns

Init ==
  /\ dir = [d \in DBs |-> "here"] /\ copies = {}
  /\ owner = [d \in DBs |-> "node"] /\ files = [d \in DBs |-> {"node"}]
  /\ tables = TRUE /\ sei \in BOOLEAN
  /\ flags = {} /\ pc = "idle" /\ pos = 1 /\ task = [d \in DBs |-> "none"] /\ open = {}
  /\ uid = "node" /\ verdict = "success" /\ outcome = "none" /\ runs = 0
  /\ before = dir /\ misused = {} /\ pruned = {} /\ collected = {} /\ unclosed = {}
  /\ dropped = FALSE /\ large = FALSE /\ orphaned = FALSE

----------------------------------------------------------------------------
(* Files. *)

(* GetFormat looks for a table file in state.db; what is left in a         *)
(* directory that was being removed may or may not have one.               *)
FormatFound == IF dir["state"] = "here" THEN {tables} ELSE IF dir["state"] = "torn" THEN BOOLEAN ELSE {FALSE}

(* NewDB makes files of the process's user, and the directory if it is     *)
(* missing.                                                                *)
Touch(d) ==
  /\ dir' = [dir EXCEPT ![d] = "here"]
  /\ owner' = IF dir[d] = "gone" THEN [owner EXCEPT ![d] = "pruner"] ELSE owner
  /\ files' = [files EXCEPT ![d] = IF dir[d] = "gone" THEN {"pruner"} ELSE @ \cup {"pruner"}]

(* A database that is open already is locked. *)
Relock(d) == misused' = misused \cup ({d} \cap open)
Close(S) == open' = open \ S /\ misused' = misused \cup (S \ open)

(* RunE is about to return: the deferred call is next. *)
Return(v) == pc' = "chown" /\ pos' = 1 /\ verdict' = v

(* The process is over, and with it its goroutines, locks and variables. *)
ProcessEnds(how) ==
  /\ pc' = "idle" /\ outcome' = how
  /\ pos' = 1 /\ task' = [d \in DBs |-> "none"] /\ open' = {} /\ verdict' = "success"
  /\ unclosed' = open

----------------------------------------------------------------------------
(* The main goroutine up to the prunes. *)

(* A database to open next, and what follows a first success. *)
AfterApp == IF "cometbft" \in flags THEN pc' = "dbState" /\ UNCHANGED <<pos, verdict>> ELSE Return("success")

(* Stat(state.db) fails: nothing is done, and nothing is given back. *)
StatFails ==
  /\ pc = "idle" /\ runs < MaxRuns
  /\ dir["state"] = "gone"
  /\ runs' = runs + 1 /\ outcome' = "refused"
  /\ flags' \in SUBSET AllFlags
  /\ UNCHANGED <<dirVars, sei, pc, pos, task, open, uid, verdict, history>>

(* The user that all will be given back to is the one that state.db has    *)
(* now.                                                                    *)
Start ==
  /\ pc = "idle" /\ runs < MaxRuns
  /\ dir["state"] # "gone"
  /\ runs' = runs + 1 /\ outcome' = "none"
  /\ uid' = owner["state"]
  /\ \E f \in SUBSET AllFlags :
       /\ flags' = f
       /\ pc' = CASE "cosmos-sdk" \in f -> "openApp"
                  [] f \cap {"cosmos-sdk", "cometbft"} = {"cometbft"} -> "dbState"
                  [] OTHER -> "chown"
  /\ before' = dir /\ pruned' = {} /\ collected' = {} /\ dropped' = FALSE
  /\ large' = FALSE /\ unclosed' = {}
  /\ UNCHANGED <<dirVars, sei, pos, task, open, verdict, misused, orphaned>>

(* PruneAppState: the format, the database. *)
OpenApp ==
  /\ pc = "openApp"
  /\ TRUE \in FormatFound
  /\ Touch("application") /\ Relock("application")
  /\ open' = open \cup {"application"} /\ pc' = "pruneApp"
  /\ UNCHANGED <<copies, tables, flags, pos, task, sei, uid, verdict, outcome, runs,
                 marks, collected, unclosed>>

(* Mutant of PruneApp: without the deferred Close. *)
PruneAppLeftOpen ==
  /\ pc = "pruneApp"
  /\ AfterApp \/ Return("failure") \/ Return("panicked")
  /\ UNCHANGED <<dirVars, flags, task, open, sei, uid, outcome, runs, history>>

(* It returns, or the index of the first version to keep is out of range;  *)
(* the database is closed in every case.                                   *)
PruneApp ==
  /\ pc = "pruneApp"
  /\ Close({"application"})
  /\ AfterApp \/ Return("failure") \/ Return("panicked")
  /\ UNCHANGED <<dirVars, flags, task, sei, uid, outcome, runs, marks, collected, unclosed>>

(* DbState: the format, then state.db is opened, read and closed. *)
ReadState ==
  /\ pc = "dbState"
  /\ TRUE \in FormatFound
  /\ Touch("state") /\ Relock("state")
  /\ pc' = "open" /\ pos' = 1 /\ UNCHANGED verdict
  /\ UNCHANGED <<copies, tables, flags, task, open, sei, uid, outcome, runs, marks, collected, unclosed>>

(* The three databases of PruneCmtData. *)
OpenNext ==
  /\ pc = "open"
  /\ Touch(Order[pos]) /\ Relock(Order[pos])
  /\ open' = open \cup {Order[pos]}
  /\ IF pos < 3 THEN pos' = pos + 1 /\ UNCHANGED <<pc, task>>
                ELSE /\ pc' = IF sei THEN "pruneSei" ELSE "prune"
                     /\ task' = IF sei THEN task ELSE [d \in DBs |-> "pruning"]
                     /\ UNCHANGED pos
  /\ UNCHANGED <<copies, tables, flags, sei, uid, verdict, outcome, runs, marks, collected, unclosed>>

(* No format, or NewDB returns an error (which may come before or after it *)
(* made files), or there is no record of the state.  What was opened       *)
(* before stays open.                                                      *)
OpenFails ==
  /\ pc \in {"openApp", "dbState", "open"}
  /\ LET d == CASE pc = "openApp" -> "application" [] pc = "dbState" -> "state" [] pc = "open" -> Order[pos]
     IN  Touch(d) \/ UNCHANGED <<dir, owner, files>>
  /\ Return("failure")
  /\ UNCHANGED <<copies, tables, flags, task, open, sei, uid, outcome, runs, history>>

----------------------------------------------------------------------------
(* pruneSeiBlockAndStateStore runs in the main goroutine, where a panic    *)
(* (at key material that is left over) runs the deferred call.             *)
PruneSei ==
  /\ pc = "pruneSei"
  /\ \/ /\ pc' = "prune" /\ pruned' = DBs /\ task' = [d \in DBs |-> "ok"]
        /\ UNCHANGED <<pos, verdict>>
     \/ /\ pc' = "prune" /\ task' = [d \in DBs |-> "failed"]
        /\ UNCHANGED <<pos, verdict, pruned>>
     \/ Return("panicked") /\ UNCHANGED <<task, pruned>>
  /\ UNCHANGED <<dirVars, flags, open, sei, uid, outcome, runs, before, misused, collected, dropped, large, unclosed, orphaned>>

(* The first errgroup: one goroutine per database prunes it. *)

PruneEnds(d) ==
  /\ task[d] = "pruning"
  /\ \/ task' = [task EXCEPT ![d] = "ok"] /\ pruned' = pruned \cup {d}
     \/ task' = [task EXCEPT ![d] = "failed"] /\ UNCHANGED pruned
  /\ UNCHANGED <<dirVars, flags, sei, pc, pos, open, uid, verdict, outcome, runs,
                 before, misused, collected, dropped, large, unclosed, orphaned>>

(* pruneBlockStore panics (a record that does not parse or cannot be       *)
(* written, an iterator that was not opened): the process ends, without    *)
(* the deferred calls of other goroutines.                                 *)
PrunePanics ==
  /\ task["blockstore"] = "pruning"
  /\ ProcessEnds("crashed")
  /\ UNCHANGED <<dirVars, flags, sei, uid, runs, marks, misused, collected>>

Ended(d) == task[d] \in {"ok", "failed"}
FirstOfPass == [d \in DBs |-> IF d = "application" THEN "sizing" ELSE "collecting"]

(* Mutants of WaitPrunes: it waits until all have ended without an error;  *)
(* the error is only logged; the pass over a database begins when its own  *)
(* prune has ended.                                                        *)
WaitPrunesAllOk ==
  /\ pc = "prune"
  /\ \A d \in DBs : task[d] = "ok"
  /\ pc' = "collect" /\ task' = FirstOfPass
  /\ UNCHANGED <<dirVars, flags, pos, open, sei, uid, verdict, outcome, runs, history>>
WaitPrunesGoesOn ==
  /\ pc = "prune"
  /\ \A d \in DBs : Ended(d)
  /\ IF \E d \in DBs : task[d] = "failed" THEN verdict' = "failure" ELSE UNCHANGED verdict
  /\ pc' = "collect" /\ task' = FirstOfPass
  /\ UNCHANGED <<dirVars, flags, pos, open, sei, uid, outcome, runs, history>>

WaitPrunesOfOne ==
  /\ pc = "prune"
  /\ \E d \in DBs : Ended(d) /\ task' = [task EXCEPT ![d] = FirstOfPass[d]]
  /\ pc' = IF \A d \in DBs : task'[d] # "pruning" THEN "collect" ELSE "prune"
  /\ UNCHANGED <<dirVars, flags, pos, open, sei, uid, verdict, outcome, runs, history>>

(* g.Wait.  On an error the databases are closed.  Without --run-gc they   *)
(* are not: the end of the process does that.                              *)
WaitPrunes ==
  /\ pc = "prune"
  /\ \A d \in DBs : Ended(d)
  /\ IF \E d \in DBs : task[d] = "failed"
     THEN Return("failure") /\ Close(DBs) /\ UNCHANGED task
     ELSE /\ UNCHANGED <<open, misused>>
          /\ IF "run-gc" \in flags
             THEN /\ pc' = "collect" /\ task' = FirstOfPass
                  /\ UNCHANGED <<pos, verdict>>
             ELSE Return("success") /\ UNCHANGED task
  /\ UNCHANGED <<dirVars, flags, sei, uid, outcome, runs, marks, collected, unclosed>>

----------------------------------------------------------------------------
(* The second errgroup: one goroutine per database collects garbage. *)

Collector(d, from, to) == task[d] = from /\ task' = [task EXCEPT ![d] = to]
mainVars == <<flags, pc, pos, sei, uid, verdict, outcome, runs, before, pruned, dropped, unclosed, orphaned>>
sameMain == <<mainVars, large>>

(* The threshold, a number of bytes, is multiplied by GiB. *)
TooLarge(size) == size >= THRESHOLD_APP_SIZE * GiB

(* dirSize returns no error; only application.db is not collected if it is *)
(* large, and --force-compress-app is not set (a flag that is read nowhere *)
(* else).                                                                  *)
CheckSize ==
  /\ \E size \in AppSizes, force \in BOOLEAN :
       /\ Collector("application", "sizing", IF ~TooLarge(size) \/ force THEN "collecting" ELSE "ok")
       /\ large' = (size > THRESHOLD_APP_SIZE /\ ~force)
  /\ UNCHANGED <<dirVars, open, misused, collected, mainVars>>

(* The copy or the iterator cannot be opened: both databases stay open. *)
CollectFails(d) ==
  /\ Collector(d, "collecting", "failed")
  /\ copies' \in {copies, copies \cup {d}}
  /\ UNCHANGED <<dir, owner, files, tables, open, misused, collected, sameMain>>

(* All is copied, and both are closed. *)
Copy(d) ==
  /\ Collector(d, "collecting", "copied")
  /\ copies' = copies \cup {d}
  /\ Close({d})
  /\ UNCHANGED <<dir, owner, files, tables, collected, sameMain>>

(* Nothing was counted: the copy goes. *)
DiscardCopy(d) ==
  /\ Collector(d, "copied", "ok")
  /\ copies' = copies \ {d} /\ collected' = collected \cup {d}
  /\ UNCHANGED <<dir, owner, files, tables, open, misused, sameMain>>

BeginRemove(d) ==
  /\ Collector(d, "copied", "removing")
  /\ dir' = [dir EXCEPT ![d] = "torn"]
  /\ UNCHANGED <<copies, owner, files, tables, open, misused, collected, sameMain>>
EndRemove(d) ==
  /\ Collector(d, "removing", "removed")
  /\ dir' = [dir EXCEPT ![d] = "gone"]
  /\ UNCHANGED <<copies, owner, files, tables, open, misused, collected, sameMain>>

(* The new directory is the pruner's.  A small state.db may have its data  *)
(* in the log alone, without a table file.                                 *)
Swap(d) ==
  /\ Collector(d, "removed", "ok")
  /\ dir' = [dir EXCEPT ![d] = "here"] /\ copies' = copies \ {d}
  /\ owner' = [owner EXCEPT ![d] = "pruner"] /\ files' = [files EXCEPT ![d] = {"pruner"}]
  /\ IF d = "state" THEN tables' \in BOOLEAN ELSE UNCHANGED tables
  /\ collected' = collected \cup {d}
  /\ UNCHANGED <<open, misused, sameMain>>

(* Mutant of SwapFails: the copy is cleaned up. *)
SwapFailsCleansUp(d) ==
  /\ Collector(d, "removed", "failed")
  /\ copies' = copies \ {d}
  /\ UNCHANGED <<dir, owner, files, tables, open, misused, collected, sameMain>>
SwapFails(d) ==
  /\ Collector(d, "removed", "failed")
  /\ UNCHANGED <<dirVars, open, misused, collected, sameMain>>

(* Mutant of WaitCollects: PruneCmtData does not wait for the passes. *)
WaitCollectsNever ==
  /\ pc = "collect"
  /\ dropped' = (\E d \in DBs : task[d] = "failed")
  /\ Return("success")
  /\ UNCHANGED <<dirVars, flags, task, open, sei, uid, outcome, runs, before, misused, pruned, collected, large, unclosed, orphaned>>

(* g.Wait, whose error is not looked at: PruneCmtData returns nil. *)
WaitCollects ==
  /\ pc = "collect"
  /\ \A d \in DBs : Ended(d)
  /\ dropped' = (\E d \in DBs : task[d] = "failed")
  /\ Return("success")
  /\ UNCHANGED <<dirVars, flags, task, open, sei, uid, outcome, runs, before, misused, pruned, collected, large, unclosed, orphaned>>

----------------------------------------------------------------------------
(* The deferred call, and the end. *)

(* Mutant of ChownFiles: the next database is passed over. *)
ChownFilesSkips ==
  /\ pc = "chownFiles"
  /\ files' = [files EXCEPT ![Order[pos]] = {uid}]
  /\ pc' = "chown" /\ pos' = pos + 2
  /\ UNCHANGED <<dir, copies, owner, tables, flags, task, open, sei, uid, verdict, outcome, runs, history>>

(* ChownR walks from the directory down; a missing one is only logged. *)
ChownDir ==
  /\ pc = "chown" /\ pos <= 3
  /\ IF dir[Order[pos]] = "gone"
     THEN pos' = pos + 1 /\ UNCHANGED <<owner, pc>>
     ELSE pc' = "chownFiles" /\ owner' = [owner EXCEPT ![Order[pos]] = uid] /\ UNCHANGED pos
  /\ UNCHANGED <<dir, copies, files, tables, flags, task, open, sei, uid, verdict, outcome, runs, history>>

(* The walk ends at the first file that is gone when it comes to it, which *)
(* happens where the database is open and compacts: of the other files     *)
(* some may not be given back.                                             *)
ChownFiles ==
  /\ pc = "chownFiles"
  /\ LET d == Order[pos]
     IN  \/ files' = [files EXCEPT ![d] = {uid}]
         \/ d \in open /\ files' \in {files, [files EXCEPT ![d] = @ \cup {uid}]}
  /\ pc' = "chown" /\ pos' = pos + 1
  /\ UNCHANGED <<dir, copies, owner, tables, flags, task, open, sei, uid, verdict, outcome, runs, history>>

(* RunE returns, and Execute with an exit code; the locks go with the      *)
(* process.                                                                *)
Exit ==
  /\ pc = "chown" /\ pos = 4
  /\ ProcessEnds(verdict)
  /\ UNCHANGED <<dirVars, flags, sei, uid, runs, marks, misused, collected>>

Kill ==
  /\ pc # "idle"
  /\ ProcessEnds("killed")
  /\ orphaned' = (orphaned \/ owner["state"] # "node")
  /\ UNCHANGED <<dirVars, flags, sei, uid, runs, before, misused, pruned, collected, dropped, large>>

(* External: an open database compacts in the background.  It makes files  *)
(* of the process's user, and removes others (that none of the node's may  *)
(* be left is not told apart: one file of the pruner's is enough to keep   *)
(* the node out).                                                          *)
Compacts(d) ==
  /\ d \in open
  /\ files' = [files EXCEPT ![d] = @ \cup {"pruner"}]
  /\ IF d = "state" THEN tables' \in {tables, TRUE} ELSE UNCHANGED tables
  /\ UNCHANGED <<dir, copies, owner, flags, pc, pos, task, open, sei, uid, verdict, outcome, runs, history>>

(* External: a node that can read its files starts, which writes the log   *)
(* of its databases to table files.                                        *)
NodeStarts ==
  /\ pc = "idle"
  /\ \A d \in DBs : dir[d] = "here" /\ owner[d] = "node" /\ files[d] = {"node"}
  /\ tables' = TRUE
  /\ UNCHANGED <<dir, copies, owner, files, flags, pc, pos, task, open, sei, uid, verdict, outcome, runs, history>>

----------------------------------------------------------------------------
Main ==
  \/ OpenApp \/ PruneApp \/ ReadState \/ OpenNext \/ OpenFails
  \/ PruneSei \/ WaitPrunes \/ WaitCollects \/ ChownDir \/ ChownFiles \/ Exit

Goroutine(d) ==
  \/ PruneEnds(d)
  \/ CollectFails(d) \/ Copy(d) \/ DiscardCopy(d)
  \/ BeginRemove(d) \/ EndRemove(d) \/ Swap(d) \/ SwapFails(d)
  \/ d = "blockstore" /\ PrunePanics
  \/ d = "application" /\ CheckSize

Next ==
  \/ StatFails \/ Start \/ Main \/ Kill \/ NodeStarts
  \/ \E d \in DBs : Goroutine(d) \/ Compacts(d)

Spec == Init /\ [][Next]_vars

(* The Go scheduler runs every goroutine that can run; no operation of the *)
(* databases or of the file system blocks for ever.                        *)
FairSpec == Spec /\ WF_vars(Main) /\ \A d \in DBs : WF_vars(Goroutine(d))

----------------------------------------------------------------------------
(* Properties. *)

(* However a run ended, save by a kill or a panic in a goroutine, all of   *)
(* the three directories that are there belong to the node's user again:   *)
(* what the passes swapped in, what NewDB made, and what an earlier run    *)
(* left behind that was killed.  So do the files in them, save those of a  *)
(* database that was open to the end (without --run-gc, after an early     *)
(* error, after a pass that failed or was skipped), whose compactions the  *)
(* walk races with.  The exception is a kill at a time when state.db is    *)
(* the pruner's, between its swap and the chown, while the passes over the *)
(* other databases go on: the next run takes that owner for the node's     *)
(* (root.go:44).                                                           *)
OwnersRestored ==
  pc = "idle" /\ outcome \in {"success", "failure", "panicked"} /\ ~orphaned =>
    \A d \in DBs : dir[d] # "gone" =>
      owner[d] = "node" /\ (d \notin unclosed => files[d] = {"node"})

(* A panic in a goroutine skips the deferred chown, but never at a time    *)
(* when state.db is the pruner's: the next run can still restore owners    *)
(* (the goroutines that panic end before the first swap).                  *)
CrashKeepsOwner ==
  outcome = "crashed" /\ ~orphaned => owner["state"] = "node"

(* Where a directory is missing or half removed, whatever happened and     *)
(* however often, its copy is there (pruner.go:151-161).                   *)
CopyBehindMissing ==
  \A d \in DBs : dir[d] # "here" => d \in copies

(* No directory is replaced, or begun to be removed, before the prunes of  *)
(* all three have returned nil: one failing goroutine stops the passes     *)
(* over the databases of the others (pruner.go:214-219).                   *)
AllOrNothing ==
  collected # {} \/ (\E d \in DBs : before[d] = "here" /\ dir[d] # "here") => pruned = DBs

(* No database is closed twice, which pebble does not survive (the comment *)
(* at pruner.go:215), none is opened while it is still open, and no        *)
(* directory is removed under an open database.                            *)
HandlesSound ==
  misused = {} /\ \A d \in DBs : dir[d] # "here" => d \notin open

(* After a run that exits with 0 every database was collected and closed,  *)
(* whichever of the passes ended first; unless an error of a pass was      *)
(* dropped.  Only an application.db over the threshold that the text of    *)
(* --force-compress-app names may be left out.                             *)
AllCollected ==
  outcome = "success" /\ {"cometbft", "run-gc"} \subseteq flags /\ ~dropped =>
    \A d \in DBs : \/ d \in collected /\ d \notin unclosed
                   \/ d = "application" /\ large

(* What the text of --force-compress-app (root.go:80) and README.md:31     *)
(* say: without it, an application.db over 10 GB is not collected.         *)
LargeAppSkipped == large => "application" \notin collected

(* Every run ends: each wait is for goroutines that end by themselves.     *)
RunEnds == pc # "idle" ~> pc = "idle"
=============================================================================

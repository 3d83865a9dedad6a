# A TLA+ model of cosmprund

cosmprund is an offline tool: it opens the data directory of a stopped
CometBFT/Cosmos-SDK node, deletes what belongs to old blocks and old application
versions, copies what is left into new databases, and swaps the directories. A
mistake in it costs a node its data, and its hard parts are those that a test of one
successful run does not reach: being killed, being run again, a node that had been
killed itself, boundaries of decimal keys, and errors that are dropped.

## 1. Inventory

| component | source | state | operations | hard behaviour | what makes it correct |
|---|---|---|---|---|---|
| Height ranges | `cmd/generic_chain.go` 168-257 | the keys of a prefix, the loop over digit lengths | `deleteHeightRange`, the two parsers | byte order of decimal keys against numeric order; ends that wrapped around; the early `break` | nothing above the end goes; what a complete call leaves is known |
| CometBFT and commit info pruning | `cmd/pruner.go` 180-220, `cmd/generic_chain.go` 25-166 | three databases, the record `blockStore`, goroutines | `PruneCmtData`, `pruneBlockStore`, `pruneStateStore`, `pruneAppStore`, `pruneKeys`, `deleteAllByPrefix` | three goroutines, deaths and errors half way, repeated runs with other flags, a node that died between two of its saves | heights that were never asked for stay; the latest commit info stays; the record tells the truth |
| Garbage collection pass | `cmd/pruner.go` 101-167, 222-262 | `<name>.db`, `<name>_gc.db`, a batch, `count` | `gcDB` | deaths between two file operations, leftovers of an earlier pass, ignored errors | no key is lost; contents do not change across the swap |
| Application state pruning | `cmd/pruner.go` 32-97 | `application.db` | `PruneAppState` | stores with different versions; partial prunes | the latest version loads |
| Root multi store | `internal/rootmulti/store.go` (a copy of the SDK's) | a versioned tree per store, `s/<version>`, `s/latest` | load, commit, prune, flush, rollback (and upgrades, queries, snapshots) | a death between two trees of a commit or of a rollback; pruning before the metadata is flushed; replays | a version is there in all of its stores or in none |
| Sei pruning | `cmd/sei.go` | the same databases, other keys | `pruneSeiBlockAndStateStore`, `deleteSeiRange` | wrapped ends as negative numbers; six batches over two databases; an ignored batch error | what is kept is untouched, a block whose header is left is complete |
| Command | `cmd/root.go` 36-111, `cmd/pruner.go` 32-42, 169-298 | directories and their copies, owners, handles, exit code | Stat, prunes, passes, chown, size threshold | two groups of goroutines; what is skipped on errors, panics and kills | owners restored, nothing swapped before all prunes succeeded, no handle closed twice, it ends |
| Format detection, db-info | `cmd/db.go`, `cmd/info.go` | none | read-only | goleveldb without table files | an early return leaves nothing behind |
| Queries, caches, proofs, snapshots | `store.go`, `proof.go`, `dbadapter.go` | | not called by the pruner | | |

The components interact through the databases alone. `root.go` runs `PruneAppState`
and then `PruneCmtData` in one process, each opening and closing `application.db`.
The second starts three goroutines that delete, waits, and starts three that
collect garbage. The node and the pruner never run together (the databases are
locked), but they alternate, and either may die at any point.

The hazards, each at its line, are in `PROJECT.json`.

## 2. Modules

| module | models | its state and actions in the code |
|---|---|---|
| `HeightRange` | arithmetic of decimal keys (`generic_chain.go` 168-254) | `Leading` and `KeyLess` compare keys as bytes do; `Power` is `math.Pow10`; `RangeEnds` is `uint64(math.Pow10(d) - 1)` with its rounding; `PassDeletes` is the set one pass of the loop deletes; `GoesOn` is `continue`/`break` |
| `DeleteRange` | one call of `deleteHeightRange` | `Pass` is one iteration with its batch write, `PassFails` its error returns, `Retry` the same prune after a death |
| `CometPrune` | `PruneCmtData` up to the first `g.Wait` | `Start`, then per goroutine `Scan`/`ScanFails` (a pass), for blocks `ReadRecord`, `DeleteHashes`, `WriteRecord`; `Wait`; `Crash`. `Node...` actions are external: what a node writes between two prunes |
| `DbContents`, `GcStore` | what a database holds; what it promises across a prune | the abstract specification that `GcDb` implements |
| `GcDb` | `gcDB` and the prune before it | one action per step: `Open`, `Prune`, `CreateGc`, `CopyKey`, `BatchFull`, `EndOfLoop`, `WriteRest`, `NothingCopied`/`SomethingCopied`, `BeginRemove`, `EndRemove`, `Rename`; `Die` at any of them |
| `AppHistory` | what the multi store promises: a version is committed as a whole, pruning leaves the latest, until a prune overtakes it (`Overtake`) | the abstract specification that `MultiStore` and `AppState` implement |
| `MultiStore` | load, commit and prune of `rootmulti.Store`, as the node runs it | `NodeLoad` (`loadVersion`), `BeginCommit`, `CommitStore` (one store of `commitStores`), `StoresCommitted` (`handlePruning`), `DeleteOldest`/`StoreDone`/`DeleteFails` (`PruneStores`), `FlushMetadata`, `NodeStops`. Run as a part of `AppState` |
| `AppState` | `PruneAppState`; extends `MultiStore`, sharing `PruneStores` | `LoadFails`, `NothingToPrune`, `Panics`, `BeginPrune`, `PruneEnds`, `PrunerKilled`; `Idx` with the conversion of the flag to an `int64` of `Word` values |
| `Rollback` | `RollbackToVersion`; extends `AppState`, on whose stores it runs | `BeginRollback`, `OverwriteStore` (one store), `RollbackFails`, `FlushRollback` (`buildCommitInfo`, `flushMetadata`), `RollbackKilled` |
| `SeiPrune` | `pruneSeiBlockAndStateStore` with the node around it | `Start` (the wrapped height), `Pass` (one `deleteSeiRange`), `PassFails`, `Finish`, `Kill` |
| `Cosmprund` | the command as a whole: `RunE`, `PruneAppState` and `PruneCmtData` without the contents of the databases | the main goroutine is `Main` (`OpenApp`, `PruneApp`, `ReadState`, `OpenNext`, `OpenFails`, `PruneSei`, `WaitPrunes`, `WaitCollects`, `ChownDir`, `ChownFiles`, `Exit`), each other one `Goroutine(d)` (`PruneEnds`, `PrunePanics`, then `CheckSize`, `Copy`, `DiscardCopy`, `BeginRemove`, `EndRemove`, `Swap`, their failures); `Kill`, the node's start and the compactions of open databases (`Compacts`) come in between |
| `MC...` | the values of constants for TLC | |
| `..._proofs` | the theorems | |

Abstractions. Payloads are left out: a key is its prefix and its height. Heights are
written in `Base` digits and held in `Word` values, so that digit boundaries and
wrap-around happen at small numbers; base 10 is checked on its own. Where the
conversion of a rounded float to `uint64` differs between processors
(`InexactDigits` and up, out-of-range ends), `RangeEnds` has every outcome.
A batch is applied as a whole or not at all, as the databases promise. A power loss
that takes unsynced writes along is a death at an earlier point of that database. The
removal of `<name>_gc.db` is one step; that of `<name>.db` is two, since its contents
matter. IAVL (external) saves a version, lists its versions, deletes the oldest ones
and refuses to delete all; saving a version that is there already succeeds, since the
replayed block is the same. The version that a tree is loaded at is all the node needs
of it. `commitStores` walks the stores by name; names are arbitrary, so the model
takes any order.

`Cosmprund` is composed with the other modules by what they can end with: a prune of
`AppState`, `CometPrune` or `SeiPrune` returns nil, an error, or panics; a pass goes through
the same steps as in `GcDb`, of which `Cosmprund` keeps the two directories, the open
handles and the owner. What is in the databases is left to those modules, and the owners,
handles and exit code to this one. An owner is kept for the directory itself and for the
files in it, because `Stat` looks at the first alone. A database that is open compacts in
the background (`Compacts`, external), during the deferred chown and after it as well: it
makes files of the pruner's user, and removes files that the walk of `ChownR` is about to
come to, which ends the walk over that directory with an error that is only logged
(`ChownFiles`).

## 3. Runs

| run | asks | bounds |
|---|---|---|
| `delete_range` | what may a call delete, and what may it leave | base 10, stores of 1..125 and subranges, ends at every digit boundary up to three digits, one death |
| `comet_prune` | two prunes, each failing or killed anywhere, the node going on around them | base 3; a node state-synced at 2 and killed one block ahead of its state; `--keep-blocks` 0 and 2; heights to 5 |
| `comet_prune_young` (violated) | a chain younger than `--keep-blocks` | heights 3 to 5, keep 6 |
| `gc_db` | the pass, killed anywhere, three runs, for each kind of database | four keys, batches of two: an exact multiple of the batch, a partial batch and an empty database all occur |
| `gc_db_gap` (violated) | is only old data ever gone | same |
| `app_state` | two prunes around a node that commits with its own pruning and an upgrade that adds a store; the node is killed anywhere, inside `Commit` too, and so is the pruner | two stores and a new one, a leaked in-memory store, three versions (pruning with `KeepRecent` 1 begins at the third), three deaths of the node, `--keep-versions` 0, 2 and, with `Word` 16, 15: the -1 of the code; every error of `DeleteVersionsTo` |
| `app_state_interrupted` (violated) | is the latest version loadable after a death inside `Commit` and a prune | initial version 2, six versions, `KeepRecent` 2 |
| `app_state_keep` (violated) | do `--keep-versions` versions remain | the same without deaths or errors, `--keep-versions` 2, one prune |
| `rollback` | what loads during and after rollbacks, killed anywhere, around a killed prune, with blocks replayed over the commit infos they leave | two stores and a new one, five versions, two rollbacks, one prune, the node stopped twice |
| `sei_prune` | three prunes, each failing, losing batches or killed, with the node saving blocks (and dying half way) between them | three to six blocks, `--keep-blocks` 0, 2, more than there are (6) and, with `Word` 16, 15: one less than 2^64 in the code |
| `cosmprund` | the whole command, with every combination of flags, failing, panicking or killed anywhere, then run again; either chain | two runs, since each leaves its state to the next; sizes of `application.db` below and above the threshold that the flag's text names |
| `cosmprund_threshold` (violated) | is an `application.db` over that threshold left alone without `--force-compress-app` | one run |

Two digit lengths, two batches, two stores and two runs are what every hazard in the
list needs; a third run, store or key is added where a retry of a retry or a mixture
matters. Each property of a passing run is matched with a mutant of a definition, next
to that definition, that TLC finds to break it.

### What the runs showed

* `deleteHeightRange` excludes the largest number of each length. A complete call
  leaves height 0, sometimes the end itself, the all-nines number one digit shorter,
  and for block parts every all-nines number (`CompleteCallLeavesOnlyLeftovers` lists
  them). The example in its comment (`generic_chain.go` 179-183, end 1000) deletes nothing:
  the pass for four digits is empty and the loop breaks. The comment says more than the code
  does here; the property says what the code does.
* It stops at the first digit length where there is nothing to delete. So a call that
  died after the longest length cannot be completed by repeating it (`Retry` in
  `DeleteRange`; the property is therefore stated for calls that did not die).
* With fewer blocks than `--keep-blocks`, `pruneHeight` wraps: newest blocks can go, and
  the record gets a base that makes no sense.
* The base of the record is only honest when a run does not ask for less than an
  earlier one and does not reach below the first block; that is in `BaseHonest`.
* `DeleteHashes`: the hashes of kept blocks are deleted with all others.
* A death between `RemoveAll` and `Rename`, followed by another run, removes the only
  copy of the application database. For the block store it does not, because the zero
  record written in between is counted (`BlocksSurvive`), but the record loses its
  height. A leftover `<name>_gc.db` brings pruned keys back: it is opened as it is,
  and `CopyComplete` promises an exact copy only without one.
* `gcDB` looks at no error of its iterator and batches. With `Faults` holding
  `"iterate"` or `"write"`, `NoKeyLost` and `CopyComplete` fail; the run and the
  theorems assume that these two do not happen.
* `PruneAppState` asks for all versions but one to be deleted, whatever `--keep-versions`
  says: `Idx` is the last index where README.md:10 and the text of the flag (root.go:96) need
  an earlier one (`app_state_keep`, `KeepsVersions`). For 0, and for a value above 2^63, which is negative as
  an `int64`, it is past the last index and the process panics (`PanicsOnlyForFlag`).
* It takes the newest version of any one store as the one to leave. If the node died inside
  `Commit`, some stores are one version ahead, and the version in `s/latest` is deleted from
  the others: nothing can load the multi store after that (`app_state_interrupted`). The variable
  `overtaken` marks exactly this, a prune whose height comes from a store that is ahead. Without
  it the latest version loads, the interrupted commit is completed, and what a prune leaves
  loads in all stores (`LatestLoadsUnlessOvertaken`, `InterruptedCommitCompletes`,
  `LeftVersionsLoad`, `PrunerLoads`). Even with it, every store keeps a version that is new
  enough (`NewestVersionKept`), which is what a manual repair would have to work with.
* A rollback that is killed leaves a version that loads in every store, its target, although
  `s/latest` names another. But after a prune that was killed between two stores, a rollback
  to a version that only some stores still have cuts those back before it meets one without
  it and returns: then no version is left that loads. `uneven` marks that case, and
  `SomeVersionLoads` excludes it.
* The owner to give the files back to is read from `state.db`. A kill between its swap and the
  chown makes it the pruner's, and all later runs give everything to that user
  (`orphaned`; `OwnersRestored` excludes it). A panic in a goroutine does not: the prunes,
  which can panic, end before the first swap (`CrashKeepsOwner`).
* The size of `application.db` is compared with a number of bytes times GiB: no database
  is ever too large, so every one is collected and `--force-compress-app` changes nothing,
  against its text and README.md:31 (`cosmprund_threshold`, `LargeAppSkipped`). `AllCollected`
  leaves the choice to the code and says that nothing else is left out, or left open, by a run
  that exits with 0.
* An error of a pass leaves the exit code at 0, possibly with a directory missing; its copy is
  then always beside it (`CopyBehindMissing`). If it is `state.db` that is missing, every
  later run is refused at `Stat`, and the copy stays where it is. After a swap, a
  `state.db` may have no table file: then prunes fail early until the node has run.
* Without `--run-gc` the databases are never closed; the end of the process does that. The
  same is true after an early error, and of a database whose pass failed or was skipped.
  They compact while the owners are restored, so some of their files may stay the
  pruner's although the run exits with 0. `unclosed` marks those databases, and
  `OwnersRestored` speaks of the files of the others; the directories are given back in all cases.
* On a Sei chain a height below `--keep-blocks` wraps too, but the conversion to `int64`
  makes the end negative, so that nothing is deleted (`KeptUntouched`). This is so for
  `--keep-blocks` up to 2^63. For a value close to 2^64 the difference, wrapped and converted, is a
  positive height above the newest block, and all blocks are deleted: `huge` marks runs above
  2^63, which `KeptUntouched` and `BlocksUsable` exclude and `NothingOldLeft` does not. Headers go first and
  the state store last, so a killed or failed run leaves no block half (`BlocksUsable`), save
  where the ignored error of a batch write does (`lost`); a later run deletes the rest
  (`NothingOldLeft`).

### Fairness

`GcDb`: weak fairness of the steps of the pass
(sequential code that goes on until it returns; deaths are bounded and not forced).
`Cosmprund`: weak fairness of the main goroutine and of each other goroutine on its own: the
Go scheduler runs whatever can run, and no call of theirs blocks for ever. Starting a run,
killing it and the node are not fair. `RunEnds` says that the two waits are for goroutines
that come to an end by themselves.
`AppState` (`FairSpec`): weak fairness of each step of the node, and of its start: an operator or
a supervisor starts it again; and weak fairness of the end of a prune, whose steps on the stores
are the node's `PruneStores`. Stops are bounded by `MaxStops` and prunes by `MaxPrunes`, since a node that is
killed for ever commits nothing.

## 4. Proofs

TLAPS checks the following for all values of the constants that the modules' `ASSUME`s
allow.

* `HeightRange_proofs`: the arithmetic both modules over `HeightRange` need. The provers know
  nothing of `^`, so `PowerAssumption` states its defining equations for the exponents that
  occur (TLC evaluates it on every run, and it is true of base 10, 20 digits and 2^64). An
  induction over numbers is a lemma on sets (`SetInduction`, from the least element of a set),
  since the library's induction theorems take an operator. From there: a number of `d` digits
  lies between two powers (`DigitsAre`), digits and leading digits grow with it, what is
  longer than a bound can come before it in byte order, and what one pass deletes.
  `PassDeletesUpToEnd`: no height above the end. `FirstPass`, `RoundedFirstPass`, `LaterPass`:
  exactly what a pass leaves of the heights of its length, the first with an end that was
  rounded too. `PassKeepsPowers`: a longer pass never deletes a shorter power.
* `DeleteRange_proofs`: `RangeTypes` and `RangeAboveEnd`, from the first two facts; no step
  changes what the call began with. `RangeCompleteCall` is the property with the list of
  leftovers. What makes it true is that the early `break` never comes too early: the number
  1, 10, 100 ... of each shorter length is untouched until the pass of its own length
  (`ShortPowers`), and since a store holds consecutive heights, an empty pass
  (`EmptyPass`) means that none of them was there, hence nothing shorter. `LoopInv`
  says this before each pass; TLC checked it on `MCDeleteRange` before it was proved. Hypotheses:
  `ConsecutiveStores` (a node saves one height after the other; with gaps the loop does stop
  early), `ExactEnds` (end heights below 10^16, where `Pow10(d) - 1` is a float64), and a
  base other than 2, in which 1 is the nines of its length.
* `CometPrune_proofs`. `CometTypes`: types. `CometWindow`: `WindowIntact`; the
  inductive invariant `WInv` adds that a running goroutine never works with an end
  above `high`, and that the parsed height is compared with it
  (`PassDeletes` is bounded by `end`). `CometLatestVersion`, under `KeepsBelow` (no
  `--keep-blocks` exceeds the height, so nothing wraps): the end of the application
  goroutine stays below `s/latest`; `LInv` carries the inequality from `Start` to the
  passes. `CometHeightRecord`: `RInv` says that the copy in memory has the height of
  the newest block for as long as it will be written. `CometBaseHonest`, also under
  `KeepsBelow`: follows from the window and the value written by `WriteRecord`.
  `CometBaseLast`, an action property, without any hypothesis on `--keep-blocks`: `Progress`
  says that the block goroutine has walked through the prefixes before the present one, where
  a first pass leaves the target and the nines at most of the heights of the target's length
  (`Cleared`, from `RoundedFirstPass`, for the wrapped targets of young chains as well), and
  that the hashes are gone when the base is about to be written. No height of the node's is
  above its newest block (`HeightsOfNode`), so a restart finds nothing new below the target.
  The invariant (`CInv`) was checked with TLC on `comet_prune` first.
* `GcDb_proofs`, under `NoIgnoredErrors` (`"iterate"` and `"write"` are not in
  `Faults`). The invariant `GInv` says where every live key is during the pass: still
  ahead of the iterator, in the batch, or in the copy, and that at the swap the copy has
  all of them. `GcTypes`, `GcNoKeyLost`, `GcCopyComplete` and `GcImplementsStore` (`GcDb`
  implements `GcStore`: each step is a step or a stutter) follow. `GcBlocksSurvive` needs
  more: `BInv` says that a database made over the gap holds the record alone, so that one
  key is counted and no batch filled; batches of one key are a case of their own
  (`OneInv`: such a pass never removes a directory). `GcPassShortens`, with any `Faults` and any
  finite database: the number of steps a pass has left (`StepsLeft`: its position and twice the
  keys ahead of the iterator) goes down with each of its steps. This is the safety half of
  `PassEnds`; the other half is fairness.
* `AppState_proofs` begins with the node alone (`NodeSpec` of `MultiStore`), for any stores,
  upgrade, initial version and pruning interval. None of the properties is inductive:
  `LatestLoadable` says nothing of a commit in flight. `KInv` adds what the disk holds of it
  (`DiskInv`: a tree that no commit info names has at most the next version, which is why an
  interrupted upgrade loads again), what the node has loaded (`TreeInv`: a tree is new, at
  the latest version or exactly one ahead, which is why skipping those that are ahead is
  right), how far the commit is (`CommitInv`), and that a deletion never takes the last new
  version (`NewestInv`). `LInv` adds to `LatestLoadable` that the height of a prune is below
  the latest version, and `FreshInv` that there is no commit info above `s/latest`; the latter
  stands alone because a rollback breaks it. `StoreTypes`, `StoreCommitIds`,
  `StoreLatestLoadable` and `StoreImplementsHistory` (refinement of `AppHistory`) follow,
  although the node may die anywhere.
  With the prunes, and every choice of `Kills`, `KInv` survives, hence
  `AppTypes`, `AppNewestVersionKept`, `AppCommitIds`; `AppPanicsOnlyForFlag` rests on
  `IdxBounds` (for a `--keep-versions` from 1 to 2^63 the index is that of the newest version)
  and on `DiskInv`, which bounds the versions. The others need to know what a prune leaves.
  `OInv` says, until a prune is `overtaken`, that the latest version loads (`LInv`), that the
  height of a prune is one below it, and that no older version is left in the stores that the
  loop has passed without an error (`PruneInv`); the node may die inside `Commit` at any time. From it `AppLatestLoadable`, `AppPrunerLoads`, `AppLeftVersionsLoad` and
  `AppImplementsHistory`, in which `overtaken` is the `damaged` of `AppHistory`. It cannot be
  dropped: `app_state_interrupted` is the counterexample.
* `Rollback_proofs`, with `"node" \notin Kills` (the node is stopped between blocks only) and any number of rollbacks. `RInv` has three
  cases, and each step leads from one to another: the stores are `Sound` (the invariants of
  `AppState_proofs`, with commit infos above `s/latest` that name the right versions, since
  the node writes over them one by one); a rollback is at work (`Rolling`: the stores it
  has passed are cut back to a target they have, the others are as they were); or one was
  killed in between (`Stuck`: neither the node, nor the pruner, nor another rollback loads the
  stores any more, and nothing but a manual repair leads out of it). `RollbackLatestLoadable`, `RollbackSomeVersionLoads` and `RollbackCommitIds`
  follow.
* `SeiPrune_proofs`, for every set of `--keep-blocks` of 64 bits (`Word` is any even number, and
  heights are below half of it, as an `int64` is). `SeiTypes`: the end of a range is an `int64`
  (`SignedRange`). `SeiKept`: for values up to 2^63 the wrapped subtraction and its conversion are
  the plain difference (`EndIsDifference`), and nothing from the largest end on goes.
  `SeiNothingOldLeft`, without a bound: the prefixes that the running prune has
  passed hold nothing below its end (`GoneInv`). `SeiBlocksUsable`: what is deleted of a
  later prefix has been deleted of those before it (`UsableInv`).
* `Cosmprund_proofs`, for any sizes, any number of runs and both chains. `CommandTypes`;
  `CommandHandles` relates the open databases to where the main goroutine and each collector
  are (`HandleInv`); `CommandCopies` ties a missing directory to its copy through the steps
  of the swap; `CommandAllOrNothing` (`BarrierInv`) and `CommandAllCollected` (`ResultInv`) say of
  each position what has been pruned, collected and closed by then; `CommandOwners` and
  `CommandCrash` follow the owner of `state.db` (`OwnerInv`), which is the node's whenever a
  run is where a panic can end it, and the files of the databases behind the walk that are
  closed, since open ones compact. `CommandShortens`: each step of the process, of whichever
  goroutine, lowers a number of at most 32, and while the main goroutine waits, each goroutine
  it waits for is at work or has ended, so that no wait is for nobody.

Only model-checked: the liveness properties `PassEnds`, `InterruptedCommitCompletes` and `RunEnds`,
since fairness and enabledness are out of the prover's reach. For the first and the last, the
theorems on `StepsLeft` prove what is not fairness: there is no endless run. The commit has no
such bound, since the node may stop and load again. The five properties
that runs find violated are not theorems, of course. All other properties of the runs are
proved.

## 5. Not modelled

* Renamed and deleted stores of an upgrade (`loadVersion` with `StoreUpgrades`): the pruner
  passes no upgrades and takes the stores from the latest commit info.
* Queries, caches, tracing, listeners, proofs, snapshots and `Restore` of the multi store:
  nothing the pruner does calls them, and they share no state with it but the trees.
* The parameters and validator sets in the state store that refer to older heights
  (`LastHeightChanged`) belong to CometBFT; the model has the keys, not the references.
* How `GetFormat` reads a magic number, and what `db-info` prints.
* Errors of chown other than a missing directory, and the owner's group.
* Malformed Sei keys: that they panic is in `Cosmprund`, not in `SeiPrune`.
* Ignored errors of the iterator and the batches of `gcDB` are in `Faults`, but no run that
  passes has them: with them keys are lost.
* Three differences that no property can tell: the ignored error of the first `RemoveAll`
  (`pruner.go` 160; `Rename` then fails onto what is left, as in `SwapFails`); `GcDb` writes the record of
  the block store also where the deletions before it failed; an error of the iterator after
  `<name>_gc.db` was created leaves no empty copy in `GcDb` (it does in `Cosmprund`).

## 6. Plan

What is left, in this order: a bound on the steps of a commit between two stops of the node, the
safety part of `InterruptedCommitCompletes`; the same for the loop of `deleteHeightRange` and for
the goroutines of `CometPrune`; what `Rollback` keeps when the node may die inside `Commit`; that
`Rollback` implements a history with a step back; stores renamed by an upgrade, with the
pruner between the interrupted and the repeated upgrade; snapshots.

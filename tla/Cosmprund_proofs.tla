-------------------------- MODULE Cosmprund_proofs --------------------------
(***************************************************************************)
(* Theorems of Cosmprund, for any number of runs, any sizes and every      *)
(* interleaving of the goroutines with kills.                              *)
(***************************************************************************)
EXTENDS Cosmprund, TLAPS

USE DEF DBs

(* The three positions of Order are the three databases. *)
LEMMA OrderFacts ==
  /\ Order[1] = "state" /\ Order[2] = "blockstore" /\ Order[3] = "application"
  /\ \A i \in 1..3 : Order[i] \in DBs
  /\ \A d \in DBs : \E i \in 1..3 : Order[i] = d
BY DEF Order

(* What is too large for the code is too large for the flag's text. *)
LEMMA TooLargeIsLarge == \A size \in AppSizes : TooLarge(size) => size > THRESHOLD_APP_SIZE
<1> DEFINE t == THRESHOLD_APP_SIZE
<1>1. t \in Nat /\ t > 0 /\ GiB \in Nat /\ GiB >= 2 BY CosmprundAssumption DEF THRESHOLD_APP_SIZE
<1> HIDE DEF t
<1>2. t * GiB >= t + t BY <1>1
<1> QED BY <1>1, <1>2, CosmprundAssumption DEF TooLarge, t

----------------------------------------------------------------------------
(* Types. *)

Tasks == {"none", "pruning", "sizing", "collecting", "copied", "removing", "removed", "ok", "failed"}
Places == {"idle", "openApp", "pruneApp", "dbState", "open", "pruneSei", "prune", "collect", "chown", "chownFiles"}

(* TypeOK in parts, with the range of the loops' position. *)
DirTypes ==
  /\ dir \in [DBs -> {"here", "torn", "gone"}] /\ before \in [DBs -> {"here", "torn", "gone"}]
  /\ owner \in [DBs -> Users] /\ files \in [DBs -> SUBSET Users]
SetTypes ==
  /\ copies \subseteq DBs /\ open \subseteq DBs /\ misused \subseteq DBs
  /\ pruned \subseteq DBs /\ collected \subseteq DBs /\ unclosed \subseteq DBs
  /\ flags \subseteq AllFlags
BooleanTypes ==
  /\ tables \in BOOLEAN /\ sei \in BOOLEAN
  /\ dropped \in BOOLEAN /\ large \in BOOLEAN /\ orphaned \in BOOLEAN
MainTypes ==
  /\ pc \in Places /\ pos \in 1..4 /\ uid \in Users
  /\ verdict \in {"success", "failure", "panicked"}
  /\ outcome \in {"none", "refused", "success", "failure", "panicked", "crashed", "killed"}
  /\ runs \in 0..MaxRuns
  /\ pc = "idle" => pos = 1
  /\ pc \in {"open", "chownFiles"} => pos \in 1..3
TaskTypes == task \in [DBs -> Tasks]

Types == DirTypes /\ SetTypes /\ BooleanTypes /\ MainTypes /\ TaskTypes

LEMMA TypeParts == Types => TypeOK
BY DEF Types, TypeOK, DirTypes, SetTypes, BooleanTypes, MainTypes, TaskTypes, Tasks, Places

LEMMA TypesInit == Init => Types
<1> SUFFICES ASSUME Init PROVE Types OBVIOUS
<1>1. DirTypes BY DEF Init, DirTypes, Users
<1>2. SetTypes BY DEF Init, SetTypes
<1>3. BooleanTypes BY Zenon DEF Init, BooleanTypes
<1>4. MainTypes BY CosmprundAssumption DEF Init, MainTypes, Places, Users
<1>5. TaskTypes BY DEF Init, TaskTypes, Tasks
<1> QED BY <1>1, <1>2, <1>3, <1>4, <1>5 DEF Types

LEMMA DirTypesNext == MainTypes /\ DirTypes /\ [Next]_vars => DirTypes'
<1> SUFFICES ASSUME MainTypes, DirTypes, [Next]_vars PROVE DirTypes' OBVIOUS
<1> USE OrderFacts DEF MainTypes
<1>1. CASE StatFails BY <1>1 DEF DirTypes, Users, StatFails, dirVars, history, marks
<1>2. CASE Start BY <1>2 DEF DirTypes, Users, Start, dirVars
<1>3. CASE OpenApp BY <1>3 DEF DirTypes, Users, OpenApp, Touch, Relock, marks
<1>4. CASE PruneApp BY <1>4 DEF DirTypes, Users, PruneApp, Close, AfterApp, Return, dirVars, marks
<1>5. CASE ReadState BY <1>5 DEF DirTypes, Users, ReadState, Touch, Relock, marks
<1>6. CASE OpenNext BY <1>6 DEF DirTypes, Users, OpenNext, Touch, Relock, marks
<1>7. CASE OpenFails BY <1>7 DEF DirTypes, Users, OpenFails, Touch, Return, history, marks
<1>8. CASE PruneSei BY <1>8 DEF DirTypes, Users, PruneSei, Return, dirVars
<1>9. CASE WaitPrunes BY <1>9 DEF DirTypes, Users, WaitPrunes, Return, Close, FirstOfPass, dirVars, marks
<1>10. CASE WaitCollects BY <1>10 DEF DirTypes, Users, WaitCollects, Return, dirVars
<1>11. CASE ChownDir BY <1>11 DEF DirTypes, Users, ChownDir, history, marks
<1>12. CASE ChownFiles BY <1>12 DEF DirTypes, Users, ChownFiles, history, marks
<1>13. CASE Exit BY <1>13 DEF DirTypes, Users, Exit, ProcessEnds, dirVars, history, marks
<1>14. CASE Kill BY <1>14 DEF DirTypes, Users, Kill, ProcessEnds, dirVars
<1>15. CASE NodeStarts BY <1>15 DEF DirTypes, Users, NodeStarts, history, marks
<1>16. ASSUME NEW d \in DBs, Goroutine(d) PROVE DirTypes'
  <2>1. CASE PruneEnds(d) BY <2>1 DEF DirTypes, Users, PruneEnds, dirVars
  <2>2. CASE CollectFails(d) BY <2>2 DEF DirTypes, Users, CollectFails, Collector, sameMain, mainVars
  <2>3. CASE Copy(d) BY <2>3 DEF DirTypes, Users, Copy, Collector, Close, sameMain, mainVars
  <2>4. CASE DiscardCopy(d) BY <2>4 DEF DirTypes, Users, DiscardCopy, Collector, sameMain, mainVars
  <2>5. CASE BeginRemove(d) BY <2>5 DEF DirTypes, Users, BeginRemove, Collector, sameMain, mainVars
  <2>6. CASE EndRemove(d) BY <2>6 DEF DirTypes, Users, EndRemove, Collector, sameMain, mainVars
  <2>7. CASE Swap(d) BY <2>7 DEF DirTypes, Users, Swap, Collector, sameMain, mainVars
  <2>8. CASE SwapFails(d) BY <2>8 DEF DirTypes, Users, SwapFails, Collector, sameMain, mainVars, dirVars
  <2>9. CASE PrunePanics BY <2>9 DEF DirTypes, Users, PrunePanics, ProcessEnds, dirVars, history, marks
  <2>10. CASE CheckSize BY <2>10 DEF DirTypes, Users, CheckSize, Collector, sameMain, mainVars, dirVars
  <2> QED BY <1>16, <2>1, <2>2, <2>3, <2>4, <2>5, <2>6, <2>7, <2>8, <2>9, <2>10 DEF Goroutine
<1>17. CASE UNCHANGED vars BY <1>17 DEF DirTypes, Users, vars, dirVars, history, marks
<1>18. ASSUME NEW d \in DBs, Compacts(d) PROVE DirTypes'
  BY <1>18 DEF DirTypes, Users, Compacts, history, marks
<1> QED
  BY <1>1, <1>2, <1>3, <1>4, <1>5, <1>6, <1>7, <1>8, <1>9, <1>10, <1>11, <1>12, <1>13, <1>14,
     <1>15, <1>16, <1>17, <1>18
     DEF Next, Main

LEMMA SetTypesNext == MainTypes /\ SetTypes /\ [Next]_vars => SetTypes'
<1> SUFFICES ASSUME MainTypes, SetTypes, [Next]_vars PROVE SetTypes' OBVIOUS
<1> USE OrderFacts DEF MainTypes
<1>1. CASE StatFails BY <1>1 DEF SetTypes, StatFails, dirVars, history, marks
<1>2. CASE Start BY <1>2 DEF SetTypes, Start, dirVars
<1>3. CASE OpenApp BY <1>3 DEF SetTypes, OpenApp, Touch, Relock, marks
<1>4. CASE PruneApp BY <1>4 DEF SetTypes, PruneApp, Close, AfterApp, Return, dirVars, marks
<1>5. CASE ReadState BY <1>5 DEF SetTypes, ReadState, Touch, Relock, marks
<1>6. CASE OpenNext BY <1>6 DEF SetTypes, OpenNext, Touch, Relock, marks
<1>7. CASE OpenFails BY <1>7 DEF SetTypes, OpenFails, Touch, Return, history, marks
<1>8. CASE PruneSei BY <1>8 DEF SetTypes, PruneSei, Return, dirVars
<1>9. CASE WaitPrunes BY <1>9 DEF SetTypes, WaitPrunes, Return, Close, FirstOfPass, dirVars, marks
<1>10. CASE WaitCollects BY <1>10 DEF SetTypes, WaitCollects, Return, dirVars
<1>11. CASE ChownDir BY <1>11 DEF SetTypes, ChownDir, history, marks
<1>12. CASE ChownFiles BY <1>12 DEF SetTypes, ChownFiles, history, marks
<1>13. CASE Exit BY <1>13 DEF SetTypes, Exit, ProcessEnds, dirVars, history, marks
<1>14. CASE Kill BY <1>14 DEF SetTypes, Kill, ProcessEnds, dirVars
<1>15. CASE NodeStarts BY <1>15 DEF SetTypes, NodeStarts, history, marks
<1>16. ASSUME NEW d \in DBs, Goroutine(d) PROVE SetTypes'
  <2>1. CASE PruneEnds(d) BY <2>1 DEF SetTypes, PruneEnds, dirVars
  <2>2. CASE CollectFails(d) BY <2>2 DEF SetTypes, CollectFails, Collector, sameMain, mainVars
  <2>3. CASE Copy(d) BY <2>3 DEF SetTypes, Copy, Collector, Close, sameMain, mainVars
  <2>4. CASE DiscardCopy(d) BY <2>4 DEF SetTypes, DiscardCopy, Collector, sameMain, mainVars
  <2>5. CASE BeginRemove(d) BY <2>5 DEF SetTypes, BeginRemove, Collector, sameMain, mainVars
  <2>6. CASE EndRemove(d) BY <2>6 DEF SetTypes, EndRemove, Collector, sameMain, mainVars
  <2>7. CASE Swap(d) BY <2>7 DEF SetTypes, Swap, Collector, sameMain, mainVars
  <2>8. CASE SwapFails(d) BY <2>8 DEF SetTypes, SwapFails, Collector, sameMain, mainVars, dirVars
  <2>9. CASE PrunePanics BY <2>9 DEF SetTypes, PrunePanics, ProcessEnds, dirVars, history, marks
  <2>10. CASE CheckSize BY <2>10 DEF SetTypes, CheckSize, Collector, sameMain, mainVars, dirVars
  <2> QED BY <1>16, <2>1, <2>2, <2>3, <2>4, <2>5, <2>6, <2>7, <2>8, <2>9, <2>10 DEF Goroutine
<1>17. CASE UNCHANGED vars BY <1>17 DEF SetTypes, vars, dirVars, history, marks
<1>18. ASSUME NEW d \in DBs, Compacts(d) PROVE SetTypes'
  BY <1>18 DEF SetTypes, Compacts, history, marks
<1> QED
  BY <1>1, <1>2, <1>3, <1>4, <1>5, <1>6, <1>7, <1>8, <1>9, <1>10, <1>11, <1>12, <1>13, <1>14,
     <1>15, <1>16, <1>17, <1>18
     DEF Next, Main

LEMMA BooleanTypesNext == BooleanTypes /\ [Next]_vars => BooleanTypes'
<1> SUFFICES ASSUME BooleanTypes, [Next]_vars PROVE BooleanTypes' OBVIOUS
<1>1. CASE StatFails BY <1>1, Zenon DEF BooleanTypes, StatFails, dirVars, history, marks
<1>2. CASE Start BY <1>2, Zenon DEF BooleanTypes, Start, dirVars
<1>3. CASE OpenApp BY <1>3, Zenon DEF BooleanTypes, OpenApp, Touch, Relock, marks
<1>4. CASE PruneApp BY <1>4, Zenon DEF BooleanTypes, PruneApp, Close, AfterApp, Return, dirVars, marks
<1>5. CASE ReadState BY <1>5, Zenon DEF BooleanTypes, ReadState, Touch, Relock, marks
<1>6. CASE OpenNext BY <1>6, Zenon DEF BooleanTypes, OpenNext, Touch, Relock, marks
<1>7. CASE OpenFails BY <1>7, Zenon DEF BooleanTypes, OpenFails, Touch, Return, history, marks
<1>8. CASE PruneSei BY <1>8, Zenon DEF BooleanTypes, PruneSei, Return, dirVars
<1>9. CASE WaitPrunes BY <1>9, Zenon DEF BooleanTypes, WaitPrunes, Return, Close, FirstOfPass, dirVars, marks
<1>10. CASE WaitCollects BY <1>10, Zenon DEF BooleanTypes, WaitCollects, Return, dirVars
<1>11. CASE ChownDir BY <1>11, Zenon DEF BooleanTypes, ChownDir, history, marks
<1>12. CASE ChownFiles BY <1>12, Zenon DEF BooleanTypes, ChownFiles, history, marks
<1>13. CASE Exit BY <1>13, Zenon DEF BooleanTypes, Exit, ProcessEnds, dirVars, history, marks
<1>14. CASE Kill BY <1>14, Zenon DEF BooleanTypes, Kill, ProcessEnds, dirVars
<1>15. CASE NodeStarts BY <1>15, Zenon DEF BooleanTypes, NodeStarts, history, marks
<1>16. ASSUME NEW d \in DBs, Goroutine(d) PROVE BooleanTypes'
  <2>1. CASE PruneEnds(d) BY <2>1, Zenon DEF BooleanTypes, PruneEnds, dirVars
  <2>2. CASE CollectFails(d) BY <2>2, Zenon DEF BooleanTypes, CollectFails, Collector, sameMain, mainVars
  <2>3. CASE Copy(d) BY <2>3, Zenon DEF BooleanTypes, Copy, Collector, Close, sameMain, mainVars
  <2>4. CASE DiscardCopy(d) BY <2>4, Zenon DEF BooleanTypes, DiscardCopy, Collector, sameMain, mainVars
  <2>5. CASE BeginRemove(d) BY <2>5, Zenon DEF BooleanTypes, BeginRemove, Collector, sameMain, mainVars
  <2>6. CASE EndRemove(d) BY <2>6, Zenon DEF BooleanTypes, EndRemove, Collector, sameMain, mainVars
  <2>7. CASE Swap(d) BY <2>7, Zenon DEF BooleanTypes, Swap, Collector, sameMain, mainVars
  <2>8. CASE SwapFails(d) BY <2>8, Zenon DEF BooleanTypes, SwapFails, Collector, sameMain, mainVars, dirVars
  <2>9. CASE PrunePanics BY <2>9, Zenon DEF BooleanTypes, PrunePanics, ProcessEnds, dirVars, history, marks
  <2>10. CASE CheckSize BY <2>10, Zenon DEF BooleanTypes, CheckSize, Collector, sameMain, mainVars, dirVars
  <2> QED BY <1>16, <2>1, <2>2, <2>3, <2>4, <2>5, <2>6, <2>7, <2>8, <2>9, <2>10 DEF Goroutine
<1>17. CASE UNCHANGED vars BY <1>17, Zenon DEF BooleanTypes, vars, dirVars, history, marks
<1>18. ASSUME NEW d \in DBs, Compacts(d) PROVE BooleanTypes'
  BY <1>18, Zenon DEF BooleanTypes, Compacts, history, marks
<1> QED
  BY <1>1, <1>2, <1>3, <1>4, <1>5, <1>6, <1>7, <1>8, <1>9, <1>10, <1>11, <1>12, <1>13, <1>14,
     <1>15, <1>16, <1>17, <1>18
     DEF Next, Main

LEMMA MainTypesNext == DirTypes /\ MainTypes /\ [Next]_vars => MainTypes'
<1> SUFFICES ASSUME DirTypes, MainTypes, [Next]_vars PROVE MainTypes' OBVIOUS
<1> USE CosmprundAssumption
<1>1. CASE StatFails BY <1>1 DEF MainTypes, Places, Users, DirTypes, StatFails, dirVars, history, marks
<1>2. CASE Start BY <1>2 DEF MainTypes, Places, Users, DirTypes, Start, dirVars
<1>3. CASE OpenApp BY <1>3 DEF MainTypes, Places, Users, DirTypes, OpenApp, Touch, Relock, marks
<1>4. CASE PruneApp BY <1>4 DEF MainTypes, Places, Users, DirTypes, PruneApp, Close, AfterApp, Return, dirVars, marks
<1>5. CASE ReadState BY <1>5 DEF MainTypes, Places, Users, DirTypes, ReadState, Touch, Relock, marks
<1>6. CASE OpenNext BY <1>6 DEF MainTypes, Places, Users, DirTypes, OpenNext, Touch, Relock, marks
<1>7. CASE OpenFails BY <1>7 DEF MainTypes, Places, Users, DirTypes, OpenFails, Touch, Return, history, marks
<1>8. CASE PruneSei BY <1>8 DEF MainTypes, Places, Users, DirTypes, PruneSei, Return, dirVars
<1>9. CASE WaitPrunes BY <1>9 DEF MainTypes, Places, Users, DirTypes, WaitPrunes, Return, Close, FirstOfPass, dirVars, marks
<1>10. CASE WaitCollects BY <1>10 DEF MainTypes, Places, Users, DirTypes, WaitCollects, Return, dirVars
<1>11. CASE ChownDir BY <1>11 DEF MainTypes, Places, Users, DirTypes, ChownDir, history, marks
<1>12. CASE ChownFiles BY <1>12 DEF MainTypes, Places, Users, DirTypes, ChownFiles, history, marks
<1>13. CASE Exit BY <1>13 DEF MainTypes, Places, Users, DirTypes, Exit, ProcessEnds, dirVars, history, marks
<1>14. CASE Kill BY <1>14 DEF MainTypes, Places, Users, DirTypes, Kill, ProcessEnds, dirVars
<1>15. CASE NodeStarts BY <1>15 DEF MainTypes, Places, Users, DirTypes, NodeStarts, history, marks
<1>16. ASSUME NEW d \in DBs, Goroutine(d) PROVE MainTypes'
  <2>1. CASE PruneEnds(d) BY <2>1 DEF MainTypes, Places, Users, DirTypes, PruneEnds, dirVars
  <2>2. CASE CollectFails(d) BY <2>2 DEF MainTypes, Places, Users, DirTypes, CollectFails, Collector, sameMain, mainVars
  <2>3. CASE Copy(d) BY <2>3 DEF MainTypes, Places, Users, DirTypes, Copy, Collector, Close, sameMain, mainVars
  <2>4. CASE DiscardCopy(d) BY <2>4 DEF MainTypes, Places, Users, DirTypes, DiscardCopy, Collector, sameMain, mainVars
  <2>5. CASE BeginRemove(d) BY <2>5 DEF MainTypes, Places, Users, DirTypes, BeginRemove, Collector, sameMain, mainVars
  <2>6. CASE EndRemove(d) BY <2>6 DEF MainTypes, Places, Users, DirTypes, EndRemove, Collector, sameMain, mainVars
  <2>7. CASE Swap(d) BY <2>7 DEF MainTypes, Places, Users, DirTypes, Swap, Collector, sameMain, mainVars
  <2>8. CASE SwapFails(d) BY <2>8 DEF MainTypes, Places, Users, DirTypes, SwapFails, Collector, sameMain, mainVars, dirVars
  <2>9. CASE PrunePanics BY <2>9 DEF MainTypes, Places, Users, DirTypes, PrunePanics, ProcessEnds, dirVars, history, marks
  <2>10. CASE CheckSize BY <2>10 DEF MainTypes, Places, Users, DirTypes, CheckSize, Collector, sameMain, mainVars, dirVars
  <2> QED BY <1>16, <2>1, <2>2, <2>3, <2>4, <2>5, <2>6, <2>7, <2>8, <2>9, <2>10 DEF Goroutine
<1>17. CASE UNCHANGED vars BY <1>17 DEF MainTypes, Places, Users, DirTypes, vars, dirVars, history, marks
<1>18. ASSUME NEW d \in DBs, Compacts(d) PROVE MainTypes'
  BY <1>18 DEF MainTypes, Places, Users, DirTypes, Compacts, history, marks
<1> QED
  BY <1>1, <1>2, <1>3, <1>4, <1>5, <1>6, <1>7, <1>8, <1>9, <1>10, <1>11, <1>12, <1>13, <1>14,
     <1>15, <1>16, <1>17, <1>18
     DEF Next, Main

LEMMA TaskTypesNext == TaskTypes /\ [Next]_vars => TaskTypes'
<1> SUFFICES ASSUME TaskTypes, [Next]_vars PROVE TaskTypes' OBVIOUS
<1>1. CASE StatFails BY <1>1 DEF TaskTypes, Tasks, StatFails, dirVars, history, marks
<1>2. CASE Start BY <1>2 DEF TaskTypes, Tasks, Start, dirVars
<1>3. CASE OpenApp BY <1>3 DEF TaskTypes, Tasks, OpenApp, Touch, Relock, marks
<1>4. CASE PruneApp BY <1>4 DEF TaskTypes, Tasks, PruneApp, Close, AfterApp, Return, dirVars, marks
<1>5. CASE ReadState BY <1>5 DEF TaskTypes, Tasks, ReadState, Touch, Relock, marks
<1>6. CASE OpenNext BY <1>6 DEF TaskTypes, Tasks, OpenNext, Touch, Relock, marks
<1>7. CASE OpenFails BY <1>7 DEF TaskTypes, Tasks, OpenFails, Touch, Return, history, marks
<1>8. CASE PruneSei BY <1>8 DEF TaskTypes, Tasks, PruneSei, Return, dirVars
<1>9. CASE WaitPrunes BY <1>9 DEF TaskTypes, Tasks, WaitPrunes, Return, Close, FirstOfPass, dirVars, marks
<1>10. CASE WaitCollects BY <1>10 DEF TaskTypes, Tasks, WaitCollects, Return, dirVars
<1>11. CASE ChownDir BY <1>11 DEF TaskTypes, Tasks, ChownDir, history, marks
<1>12. CASE ChownFiles BY <1>12 DEF TaskTypes, Tasks, ChownFiles, history, marks
<1>13. CASE Exit BY <1>13 DEF TaskTypes, Tasks, Exit, ProcessEnds, dirVars, history, marks
<1>14. CASE Kill BY <1>14 DEF TaskTypes, Tasks, Kill, ProcessEnds, dirVars
<1>15. CASE NodeStarts BY <1>15 DEF TaskTypes, Tasks, NodeStarts, history, marks
<1>16. ASSUME NEW d \in DBs, Goroutine(d) PROVE TaskTypes'
  <2>1. CASE PruneEnds(d) BY <2>1 DEF TaskTypes, Tasks, PruneEnds, dirVars
  <2>2. CASE CollectFails(d) BY <2>2 DEF TaskTypes, Tasks, CollectFails, Collector, sameMain, mainVars
  <2>3. CASE Copy(d) BY <2>3 DEF TaskTypes, Tasks, Copy, Collector, Close, sameMain, mainVars
  <2>4. CASE DiscardCopy(d) BY <2>4 DEF TaskTypes, Tasks, DiscardCopy, Collector, sameMain, mainVars
  <2>5. CASE BeginRemove(d) BY <2>5 DEF TaskTypes, Tasks, BeginRemove, Collector, sameMain, mainVars
  <2>6. CASE EndRemove(d) BY <2>6 DEF TaskTypes, Tasks, EndRemove, Collector, sameMain, mainVars
  <2>7. CASE Swap(d) BY <2>7 DEF TaskTypes, Tasks, Swap, Collector, sameMain, mainVars
  <2>8. CASE SwapFails(d) BY <2>8 DEF TaskTypes, Tasks, SwapFails, Collector, sameMain, mainVars, dirVars
  <2>9. CASE PrunePanics BY <2>9 DEF TaskTypes, Tasks, PrunePanics, ProcessEnds, dirVars, history, marks
  <2>10. CASE CheckSize BY <2>10 DEF TaskTypes, Tasks, CheckSize, Collector, sameMain, mainVars, dirVars
  <2> QED BY <1>16, <2>1, <2>2, <2>3, <2>4, <2>5, <2>6, <2>7, <2>8, <2>9, <2>10 DEF Goroutine
<1>17. CASE UNCHANGED vars BY <1>17 DEF TaskTypes, Tasks, vars, dirVars, history, marks
<1>18. ASSUME NEW d \in DBs, Compacts(d) PROVE TaskTypes'
  BY <1>18 DEF TaskTypes, Tasks, Compacts, history, marks
<1> QED
  BY <1>1, <1>2, <1>3, <1>4, <1>5, <1>6, <1>7, <1>8, <1>9, <1>10, <1>11, <1>12, <1>13, <1>14,
     <1>15, <1>16, <1>17, <1>18
     DEF Next, Main

LEMMA TypesNext == Types /\ [Next]_vars => Types'
BY DirTypesNext, SetTypesNext, BooleanTypesNext, MainTypesNext, TaskTypesNext DEF Types

(* Type correctness of the command in every run. *)
THEOREM CommandTypes == Spec => []TypeOK
<1>1. Types => TypeOK BY TypeParts
<1> QED BY <1>1, TypesInit, TypesNext, PTL DEF Spec
----------------------------------------------------------------------------
(* Handles and directories. *)

(* What is open at each point of the main goroutine; nothing was misused. *)
OpenInv ==
  /\ misused = {}
  /\ pc \in {"idle", "openApp", "dbState"} => open = {}
  /\ pc = "pruneApp" => open = {"application"}
  /\ pc = "open" => /\ "state" \in open <=> pos > 1
                    /\ "blockstore" \in open <=> pos > 2
                    /\ "application" \notin open
  /\ pc \in {"pruneSei", "prune"} => open = DBs

(* Goroutines are at work only while the main goroutine waits for them;    *)
(* a pass has its database open until the copy is complete.                *)
TaskInv ==
  \A d \in DBs :
    /\ task[d] = "pruning" => pc = "prune"
    /\ task[d] \in {"sizing", "collecting", "copied", "removing", "removed"} => pc = "collect"
    /\ task[d] \in {"sizing", "collecting"} => d \in open
    /\ task[d] \in {"copied", "removing", "removed"} => d \in copies /\ d \notin open
    /\ task[d] = "none" => pc \notin {"prune", "collect"}

(* A directory is away from its place only with a copy, and closed.  Once  *)
(* a run has opened it, only its own pass takes it away.                   *)
DirInv ==
  /\ \A d \in DBs :
       /\ dir[d] # "here" => d \in copies /\ d \notin open
       /\ pc \in {"pruneSei", "prune"} => dir[d] = "here"
       /\ pc = "collect" /\ task[d] \in {"sizing", "collecting", "copied", "ok"} => dir[d] = "here"
  /\ pc = "open" => (pos > 1 => dir["state"] = "here") /\ (pos > 2 => dir["blockstore"] = "here")
  /\ pc \in {"openApp", "pruneApp", "dbState", "open"} => dir["state"] # "gone"

HandleInv == OpenInv /\ TaskInv /\ DirInv

LEMMA HandlesInit == Init => HandleInv
BY DEF Init, HandleInv, OpenInv, TaskInv, DirInv

LEMMA OpenNextStep == Types /\ OpenInv /\ TaskInv /\ [Next]_vars => OpenInv'
<1> SUFFICES ASSUME Types, OpenInv, TaskInv, [Next]_vars PROVE OpenInv' OBVIOUS
<1> USE OrderFacts DEF Types, MainTypes, SetTypes, TaskTypes, Tasks, Places
<1>1. CASE StatFails BY <1>1 DEF OpenInv, TaskInv, StatFails, dirVars, history, marks
<1>2. CASE Start BY <1>2 DEF OpenInv, TaskInv, Start, dirVars
<1>3. CASE OpenApp BY <1>3 DEF OpenInv, TaskInv, OpenApp, Touch, Relock, marks
<1>4. CASE PruneApp BY <1>4 DEF OpenInv, TaskInv, PruneApp, Close, AfterApp, Return, dirVars, marks
<1>5. CASE ReadState BY <1>5 DEF OpenInv, TaskInv, ReadState, Touch, Relock, marks
<1>6. CASE OpenNext
  <2>1. pos \in 1..3 /\ Order[pos] \notin open BY <1>6 DEF OpenInv, OpenNext
  <2>2. misused' = {} BY <1>6, <2>1 DEF OpenInv, OpenNext, Relock
  <2>3. CASE pos = 1 BY <1>6, <2>2, <2>3 DEF OpenInv, OpenNext
  <2>4. CASE pos = 2 BY <1>6, <2>2, <2>4 DEF OpenInv, OpenNext
  <2>5. CASE pos = 3
    <3>1. "state" \in open /\ "blockstore" \in open /\ open' = open \cup {"application"}
      BY <1>6, <2>5 DEF OpenInv, OpenNext
    <3>2. open' = DBs BY <3>1
    <3>3. pc' \in {"pruneSei", "prune"} BY <1>6, <2>5 DEF OpenNext
    <3> QED BY <2>2, <3>2, <3>3 DEF OpenInv
  <2> QED BY <2>1, <2>3, <2>4, <2>5
<1>7. CASE OpenFails BY <1>7 DEF OpenInv, TaskInv, OpenFails, Touch, Return, history, marks
<1>8. CASE PruneSei BY <1>8 DEF OpenInv, TaskInv, PruneSei, Return, dirVars
<1>9. CASE WaitPrunes BY <1>9 DEF OpenInv, TaskInv, WaitPrunes, Ended, Return, Close, FirstOfPass, dirVars, marks
<1>10. CASE WaitCollects BY <1>10 DEF OpenInv, TaskInv, WaitCollects, Ended, Return, dirVars
<1>11. CASE ChownDir BY <1>11 DEF OpenInv, TaskInv, ChownDir, history, marks
<1>12. CASE ChownFiles BY <1>12 DEF OpenInv, TaskInv, ChownFiles, history, marks
<1>13. CASE Exit BY <1>13 DEF OpenInv, TaskInv, Exit, ProcessEnds, dirVars, history, marks
<1>14. CASE Kill BY <1>14 DEF OpenInv, TaskInv, Kill, ProcessEnds, dirVars
<1>15. CASE NodeStarts BY <1>15 DEF OpenInv, TaskInv, NodeStarts, history, marks
<1>16. ASSUME NEW d \in DBs, Goroutine(d) PROVE OpenInv'
  <2>1. CASE PruneEnds(d) BY <2>1 DEF OpenInv, TaskInv, PruneEnds, dirVars
  <2>2. CASE CollectFails(d) BY <2>2 DEF OpenInv, TaskInv, CollectFails, Collector, sameMain, mainVars
  <2>3. CASE Copy(d) BY <2>3 DEF OpenInv, TaskInv, Copy, Collector, Close, sameMain, mainVars
  <2>4. CASE DiscardCopy(d) BY <2>4 DEF OpenInv, TaskInv, DiscardCopy, Collector, sameMain, mainVars
  <2>5. CASE BeginRemove(d) BY <2>5 DEF OpenInv, TaskInv, BeginRemove, Collector, sameMain, mainVars
  <2>6. CASE EndRemove(d) BY <2>6 DEF OpenInv, TaskInv, EndRemove, Collector, sameMain, mainVars
  <2>7. CASE Swap(d) BY <2>7 DEF OpenInv, TaskInv, Swap, Collector, sameMain, mainVars
  <2>8. CASE SwapFails(d) BY <2>8 DEF OpenInv, TaskInv, SwapFails, Collector, sameMain, mainVars, dirVars
  <2>9. CASE PrunePanics BY <2>9 DEF OpenInv, TaskInv, PrunePanics, ProcessEnds, dirVars, history, marks
  <2>10. CASE CheckSize BY <2>10 DEF OpenInv, TaskInv, CheckSize, Collector, sameMain, mainVars, dirVars
  <2> QED BY <1>16, <2>1, <2>2, <2>3, <2>4, <2>5, <2>6, <2>7, <2>8, <2>9, <2>10 DEF Goroutine
<1>17. CASE UNCHANGED vars BY <1>17 DEF OpenInv, TaskInv, vars, dirVars, history, marks
<1>18. ASSUME NEW d \in DBs, Compacts(d) PROVE OpenInv'
  BY <1>18 DEF OpenInv, TaskInv, Compacts, history, marks
<1> QED
  BY <1>1, <1>2, <1>3, <1>4, <1>5, <1>6, <1>7, <1>8, <1>9, <1>10, <1>11, <1>12, <1>13, <1>14,
     <1>15, <1>16, <1>17, <1>18
     DEF Next, Main

LEMMA TaskNextStep == Types /\ OpenInv /\ TaskInv /\ [Next]_vars => TaskInv'
<1> SUFFICES ASSUME Types, OpenInv, TaskInv, [Next]_vars PROVE TaskInv' OBVIOUS
<1> USE OrderFacts DEF Types, TaskTypes, SetTypes
<1>1. CASE StatFails BY <1>1 DEF OpenInv, TaskInv, StatFails, dirVars, history, marks
<1>2. CASE Start BY <1>2 DEF OpenInv, TaskInv, Start, dirVars
<1>3. CASE OpenApp BY <1>3 DEF OpenInv, TaskInv, OpenApp, Touch, Relock, marks
<1>4. CASE PruneApp BY <1>4 DEF OpenInv, TaskInv, PruneApp, Close, AfterApp, Return, dirVars, marks
<1>5. CASE ReadState BY <1>5 DEF OpenInv, TaskInv, ReadState, Touch, Relock, marks
<1>6. CASE OpenNext BY <1>6 DEF OpenInv, TaskInv, OpenNext, Touch, Relock, marks
<1>7. CASE OpenFails BY <1>7 DEF OpenInv, TaskInv, OpenFails, Touch, Return, history, marks
<1>8. CASE PruneSei BY <1>8 DEF OpenInv, TaskInv, PruneSei, Return, dirVars
<1>9. CASE WaitPrunes BY <1>9 DEF OpenInv, TaskInv, WaitPrunes, Ended, Return, Close, FirstOfPass, dirVars, marks
<1>10. CASE WaitCollects BY <1>10 DEF OpenInv, TaskInv, WaitCollects, Ended, Return, dirVars
<1>11. CASE ChownDir BY <1>11 DEF OpenInv, TaskInv, ChownDir, history, marks
<1>12. CASE ChownFiles BY <1>12 DEF OpenInv, TaskInv, ChownFiles, history, marks
<1>13. CASE Exit BY <1>13 DEF OpenInv, TaskInv, Exit, ProcessEnds, dirVars, history, marks
<1>14. CASE Kill BY <1>14 DEF OpenInv, TaskInv, Kill, ProcessEnds, dirVars
<1>15. CASE NodeStarts BY <1>15 DEF OpenInv, TaskInv, NodeStarts, history, marks
<1>16. ASSUME NEW d \in DBs, Goroutine(d) PROVE TaskInv'
  <2>1. CASE PruneEnds(d) BY <2>1 DEF OpenInv, TaskInv, PruneEnds, dirVars
  <2>2. CASE CollectFails(d) BY <2>2 DEF OpenInv, TaskInv, CollectFails, Collector, sameMain, mainVars
  <2>3. CASE Copy(d) BY <2>3 DEF OpenInv, TaskInv, Copy, Collector, Close, sameMain, mainVars
  <2>4. CASE DiscardCopy(d) BY <2>4 DEF OpenInv, TaskInv, DiscardCopy, Collector, sameMain, mainVars
  <2>5. CASE BeginRemove(d) BY <2>5 DEF OpenInv, TaskInv, BeginRemove, Collector, sameMain, mainVars
  <2>6. CASE EndRemove(d) BY <2>6 DEF OpenInv, TaskInv, EndRemove, Collector, sameMain, mainVars
  <2>7. CASE Swap(d) BY <2>7 DEF OpenInv, TaskInv, Swap, Collector, sameMain, mainVars
  <2>8. CASE SwapFails(d) BY <2>8 DEF OpenInv, TaskInv, SwapFails, Collector, sameMain, mainVars, dirVars
  <2>9. CASE PrunePanics BY <2>9 DEF OpenInv, TaskInv, PrunePanics, ProcessEnds, dirVars, history, marks
  <2>10. CASE CheckSize BY <2>10 DEF OpenInv, TaskInv, CheckSize, Collector, sameMain, mainVars, dirVars
  <2> QED BY <1>16, <2>1, <2>2, <2>3, <2>4, <2>5, <2>6, <2>7, <2>8, <2>9, <2>10 DEF Goroutine
<1>17. CASE UNCHANGED vars BY <1>17 DEF OpenInv, TaskInv, vars, dirVars, history, marks
<1>18. ASSUME NEW d \in DBs, Compacts(d) PROVE TaskInv'
  BY <1>18 DEF OpenInv, TaskInv, Compacts, history, marks
<1> QED
  BY <1>1, <1>2, <1>3, <1>4, <1>5, <1>6, <1>7, <1>8, <1>9, <1>10, <1>11, <1>12, <1>13, <1>14,
     <1>15, <1>16, <1>17, <1>18
     DEF Next, Main

LEMMA DirNextStep == Types /\ OpenInv /\ TaskInv /\ DirInv /\ [Next]_vars => DirInv'
<1> SUFFICES ASSUME Types, OpenInv, TaskInv, DirInv, [Next]_vars PROVE DirInv' OBVIOUS
<1> USE OrderFacts DEF Types, MainTypes, DirTypes, TaskTypes, SetTypes
<1>1. CASE StatFails BY <1>1 DEF OpenInv, TaskInv, DirInv, StatFails, dirVars, history, marks
<1>2. CASE Start BY <1>2 DEF OpenInv, TaskInv, DirInv, Start, dirVars
<1>3. CASE OpenApp BY <1>3 DEF OpenInv, TaskInv, DirInv, OpenApp, Touch, Relock, marks
<1>4. CASE PruneApp BY <1>4 DEF OpenInv, TaskInv, DirInv, PruneApp, Close, AfterApp, Return, dirVars, marks
<1>5. CASE ReadState BY <1>5 DEF OpenInv, TaskInv, DirInv, ReadState, Touch, Relock, marks
<1>6. CASE OpenNext BY <1>6 DEF OpenInv, TaskInv, DirInv, OpenNext, Touch, Relock, marks
<1>7. CASE OpenFails BY <1>7 DEF OpenInv, TaskInv, DirInv, OpenFails, Touch, Return, history, marks
<1>8. CASE PruneSei BY <1>8 DEF OpenInv, TaskInv, DirInv, PruneSei, Return, dirVars
<1>9. CASE WaitPrunes BY <1>9 DEF OpenInv, TaskInv, DirInv, WaitPrunes, Ended, Return, Close, FirstOfPass, dirVars, marks
<1>10. CASE WaitCollects BY <1>10 DEF OpenInv, TaskInv, DirInv, WaitCollects, Ended, Return, dirVars
<1>11. CASE ChownDir BY <1>11 DEF OpenInv, TaskInv, DirInv, ChownDir, history, marks
<1>12. CASE ChownFiles BY <1>12 DEF OpenInv, TaskInv, DirInv, ChownFiles, history, marks
<1>13. CASE Exit BY <1>13 DEF OpenInv, TaskInv, DirInv, Exit, ProcessEnds, dirVars, history, marks
<1>14. CASE Kill BY <1>14 DEF OpenInv, TaskInv, DirInv, Kill, ProcessEnds, dirVars
<1>15. CASE NodeStarts BY <1>15 DEF OpenInv, TaskInv, DirInv, NodeStarts, history, marks
<1>16. ASSUME NEW d \in DBs, Goroutine(d) PROVE DirInv'
  <2>1. CASE PruneEnds(d) BY <2>1 DEF OpenInv, TaskInv, DirInv, PruneEnds, dirVars
  <2>2. CASE CollectFails(d) BY <2>2 DEF OpenInv, TaskInv, DirInv, CollectFails, Collector, sameMain, mainVars
  <2>3. CASE Copy(d) BY <2>3 DEF OpenInv, TaskInv, DirInv, Copy, Collector, Close, sameMain, mainVars
  <2>4. CASE DiscardCopy(d) BY <2>4 DEF OpenInv, TaskInv, DirInv, DiscardCopy, Collector, sameMain, mainVars
  <2>5. CASE BeginRemove(d) BY <2>5 DEF OpenInv, TaskInv, DirInv, BeginRemove, Collector, sameMain, mainVars
  <2>6. CASE EndRemove(d) BY <2>6 DEF OpenInv, TaskInv, DirInv, EndRemove, Collector, sameMain, mainVars
  <2>7. CASE Swap(d) BY <2>7 DEF OpenInv, TaskInv, DirInv, Swap, Collector, sameMain, mainVars
  <2>8. CASE SwapFails(d) BY <2>8 DEF OpenInv, TaskInv, DirInv, SwapFails, Collector, sameMain, mainVars, dirVars
  <2>9. CASE PrunePanics BY <2>9 DEF OpenInv, TaskInv, DirInv, PrunePanics, ProcessEnds, dirVars, history, marks
  <2>10. CASE CheckSize BY <2>10 DEF OpenInv, TaskInv, DirInv, CheckSize, Collector, sameMain, mainVars, dirVars
  <2> QED BY <1>16, <2>1, <2>2, <2>3, <2>4, <2>5, <2>6, <2>7, <2>8, <2>9, <2>10 DEF Goroutine
<1>17. CASE UNCHANGED vars BY <1>17 DEF OpenInv, TaskInv, DirInv, vars, dirVars, history, marks
<1>18. ASSUME NEW d \in DBs, Compacts(d) PROVE DirInv'
  BY <1>18 DEF OpenInv, TaskInv, DirInv, Compacts, history, marks
<1> QED
  BY <1>1, <1>2, <1>3, <1>4, <1>5, <1>6, <1>7, <1>8, <1>9, <1>10, <1>11, <1>12, <1>13, <1>14,
     <1>15, <1>16, <1>17, <1>18
     DEF Next, Main

LEMMA HandlesNext == Types /\ HandleInv /\ [Next]_vars => HandleInv'
BY OpenNextStep, TaskNextStep, DirNextStep DEF HandleInv

LEMMA HandlesAlways == Spec => [](Types /\ HandleInv)
BY TypesInit, TypesNext, HandlesInit, HandlesNext, PTL DEF Spec

(* No database is closed twice, opened twice, or removed while open. *)
THEOREM CommandHandles == Spec => []HandlesSound
<1>1. HandleInv => HandlesSound BY DEF HandleInv, OpenInv, DirInv, HandlesSound
<1> QED BY <1>1, HandlesAlways, PTL

(* A directory that is missing or half removed has its copy beside it. *)
THEOREM CommandCopies == Spec => []CopyBehindMissing
<1>1. HandleInv => CopyBehindMissing BY DEF HandleInv, DirInv, CopyBehindMissing
<1> QED BY <1>1, HandlesAlways, PTL

----------------------------------------------------------------------------
(* All or nothing, and what an exit code of 0 says. *)

(* The passes run only after every prune of the run has returned nil. *)
BarrierInv ==
  /\ pc = "prune" => \A d \in DBs : task[d] = "ok" => d \in pruned
  /\ pc = "collect" => pruned = DBs
  /\ AllOrNothing

(* A pass that is over without an error has collected and closed its       *)
(* database, or found it too large; RunE returns nil with --cometbft and   *)
(* --run-gc only by way of the passes.                                     *)
Done(d) == (d \in collected /\ d \notin open) \/ (d = "application" /\ large)

ResultInv ==
  /\ pc # "idle" => outcome = "none"
  /\ pc = "collect" => \A d \in DBs : task[d] = "ok" => Done(d)
  /\ pc \in {"dbState", "open", "pruneSei", "prune", "collect"} => "cometbft" \in flags
  /\ pc \in {"chown", "chownFiles"} /\ verdict = "success"
       /\ {"cometbft", "run-gc"} \subseteq flags /\ ~dropped => \A d \in DBs : Done(d)
  /\ AllCollected

LEMMA BarrierInit == Init => BarrierInv
BY DEF Init, BarrierInv, AllOrNothing

LEMMA BarrierNext == Types /\ HandleInv /\ BarrierInv /\ [Next]_vars => BarrierInv'
<1> SUFFICES ASSUME Types, HandleInv, BarrierInv, [Next]_vars PROVE BarrierInv' OBVIOUS
<1> USE OrderFacts DEF HandleInv, TaskInv, DirInv, Types, DirTypes, TaskTypes, SetTypes
<1>1. CASE StatFails BY <1>1 DEF BarrierInv, AllOrNothing, StatFails, dirVars, history, marks
<1>2. CASE Start BY <1>2 DEF BarrierInv, AllOrNothing, Start, dirVars
<1>3. CASE OpenApp BY <1>3 DEF BarrierInv, AllOrNothing, OpenApp, Touch, Relock, marks
<1>4. CASE PruneApp BY <1>4 DEF BarrierInv, AllOrNothing, PruneApp, Close, AfterApp, Return, dirVars, marks
<1>5. CASE ReadState BY <1>5 DEF BarrierInv, AllOrNothing, ReadState, Touch, Relock, marks
<1>6. CASE OpenNext BY <1>6 DEF BarrierInv, AllOrNothing, OpenNext, Touch, Relock, marks
<1>7. CASE OpenFails BY <1>7 DEF BarrierInv, AllOrNothing, OpenFails, Touch, Return, history, marks
<1>8. CASE PruneSei BY <1>8 DEF BarrierInv, AllOrNothing, PruneSei, Return, dirVars
<1>9. CASE WaitPrunes
  <2>1. UNCHANGED <<dir, before, collected, pruned>> BY <1>9 DEF WaitPrunes, dirVars, marks
  <2>2. AllOrNothing' BY <2>1 DEF BarrierInv, AllOrNothing
  <2>3. pc' # "prune" BY <1>9 DEF WaitPrunes, Return
  <2>4. ASSUME pc' = "collect" PROVE pruned' = DBs
    <3>1. \A d \in DBs : task[d] = "ok" BY <1>9, <2>4 DEF WaitPrunes, Ended, Return
    <3>2. pc = "prune" BY <1>9 DEF WaitPrunes
    <3> QED BY <2>1, <3>1, <3>2 DEF BarrierInv
  <2> QED BY <2>2, <2>3, <2>4 DEF BarrierInv
<1>10. CASE WaitCollects BY <1>10 DEF BarrierInv, AllOrNothing, WaitCollects, Ended, Return, dirVars
<1>11. CASE ChownDir BY <1>11 DEF BarrierInv, AllOrNothing, ChownDir, history, marks
<1>12. CASE ChownFiles BY <1>12 DEF BarrierInv, AllOrNothing, ChownFiles, history, marks
<1>13. CASE Exit BY <1>13 DEF BarrierInv, AllOrNothing, Exit, ProcessEnds, dirVars, history, marks
<1>14. CASE Kill BY <1>14 DEF BarrierInv, AllOrNothing, Kill, ProcessEnds, dirVars
<1>15. CASE NodeStarts BY <1>15 DEF BarrierInv, AllOrNothing, NodeStarts, history, marks
<1>16. ASSUME NEW d \in DBs, Goroutine(d) PROVE BarrierInv'
  <2>1. CASE PruneEnds(d) BY <2>1 DEF BarrierInv, AllOrNothing, PruneEnds, dirVars
  <2>2. CASE CollectFails(d) BY <2>2 DEF BarrierInv, AllOrNothing, CollectFails, Collector, sameMain, mainVars
  <2>3. CASE Copy(d) BY <2>3 DEF BarrierInv, AllOrNothing, Copy, Collector, Close, sameMain, mainVars
  <2>4. CASE DiscardCopy(d) BY <2>4 DEF BarrierInv, AllOrNothing, DiscardCopy, Collector, sameMain, mainVars
  <2>5. CASE BeginRemove(d) BY <2>5 DEF BarrierInv, AllOrNothing, BeginRemove, Collector, sameMain, mainVars
  <2>6. CASE EndRemove(d) BY <2>6 DEF BarrierInv, AllOrNothing, EndRemove, Collector, sameMain, mainVars
  <2>7. CASE Swap(d) BY <2>7 DEF BarrierInv, AllOrNothing, Swap, Collector, sameMain, mainVars
  <2>8. CASE SwapFails(d) BY <2>8 DEF BarrierInv, AllOrNothing, SwapFails, Collector, sameMain, mainVars, dirVars
  <2>9. CASE PrunePanics BY <2>9 DEF BarrierInv, AllOrNothing, PrunePanics, ProcessEnds, dirVars, history, marks
  <2>10. CASE CheckSize BY <2>10 DEF BarrierInv, AllOrNothing, CheckSize, Collector, sameMain, mainVars, dirVars
  <2> QED BY <1>16, <2>1, <2>2, <2>3, <2>4, <2>5, <2>6, <2>7, <2>8, <2>9, <2>10 DEF Goroutine
<1>17. CASE UNCHANGED vars BY <1>17 DEF BarrierInv, AllOrNothing, vars, dirVars, history, marks
<1>18. ASSUME NEW d \in DBs, Compacts(d) PROVE BarrierInv'
  BY <1>18 DEF BarrierInv, AllOrNothing, Compacts, history, marks
<1> QED
  BY <1>1, <1>2, <1>3, <1>4, <1>5, <1>6, <1>7, <1>8, <1>9, <1>10, <1>11, <1>12, <1>13, <1>14,
     <1>15, <1>16, <1>17, <1>18
     DEF Next, Main

LEMMA ResultInit == Init => ResultInv
BY DEF Init, ResultInv, Done, AllCollected

LEMMA ResultNext == Types /\ HandleInv /\ ResultInv /\ [Next]_vars => ResultInv'
<1> SUFFICES ASSUME Types, HandleInv, ResultInv, [Next]_vars PROVE ResultInv' OBVIOUS
<1> USE OrderFacts DEF HandleInv, TaskInv, Types, TaskTypes, SetTypes, AllFlags
<1>1. CASE StatFails BY <1>1 DEF ResultInv, Done, AllCollected, StatFails, dirVars, history, marks
<1>2. CASE Start BY <1>2 DEF ResultInv, Done, AllCollected, Start, dirVars
<1>3. CASE OpenApp BY <1>3 DEF ResultInv, Done, AllCollected, OpenApp, Touch, Relock, marks
<1>4. CASE PruneApp BY <1>4 DEF ResultInv, Done, AllCollected, PruneApp, Close, AfterApp, Return, dirVars, marks
<1>5. CASE ReadState BY <1>5 DEF ResultInv, Done, AllCollected, ReadState, Touch, Relock, marks
<1>6. CASE OpenNext BY <1>6 DEF ResultInv, Done, AllCollected, OpenNext, Touch, Relock, marks
<1>7. CASE OpenFails BY <1>7 DEF ResultInv, Done, AllCollected, OpenFails, Touch, Return, history, marks
<1>8. CASE PruneSei BY <1>8 DEF ResultInv, Done, AllCollected, PruneSei, Return, dirVars
<1>9. CASE WaitPrunes BY <1>9 DEF ResultInv, Done, AllCollected, WaitPrunes, Ended, Return, Close, FirstOfPass, dirVars, marks
<1>10. CASE WaitCollects BY <1>10 DEF ResultInv, Done, AllCollected, WaitCollects, Ended, Return, dirVars
<1>11. CASE ChownDir BY <1>11 DEF ResultInv, Done, AllCollected, ChownDir, history, marks
<1>12. CASE ChownFiles BY <1>12 DEF ResultInv, Done, AllCollected, ChownFiles, history, marks
<1>13. CASE Exit BY <1>13 DEF ResultInv, Done, AllCollected, Exit, ProcessEnds, dirVars, history, marks
<1>14. CASE Kill BY <1>14 DEF ResultInv, Done, AllCollected, Kill, ProcessEnds, dirVars
<1>15. CASE NodeStarts BY <1>15 DEF ResultInv, Done, AllCollected, NodeStarts, history, marks
<1>16. ASSUME NEW d \in DBs, Goroutine(d) PROVE ResultInv'
  <2>1. CASE PruneEnds(d) BY <2>1 DEF ResultInv, Done, AllCollected, PruneEnds, dirVars
  <2>2. CASE CollectFails(d) BY <2>2 DEF ResultInv, Done, AllCollected, CollectFails, Collector, sameMain, mainVars
  <2>3. CASE Copy(d) BY <2>3 DEF ResultInv, Done, AllCollected, Copy, Collector, Close, sameMain, mainVars
  <2>4. CASE DiscardCopy(d) BY <2>4 DEF ResultInv, Done, AllCollected, DiscardCopy, Collector, sameMain, mainVars
  <2>5. CASE BeginRemove(d) BY <2>5 DEF ResultInv, Done, AllCollected, BeginRemove, Collector, sameMain, mainVars
  <2>6. CASE EndRemove(d) BY <2>6 DEF ResultInv, Done, AllCollected, EndRemove, Collector, sameMain, mainVars
  <2>7. CASE Swap(d) BY <2>7 DEF ResultInv, Done, AllCollected, Swap, Collector, sameMain, mainVars
  <2>8. CASE SwapFails(d) BY <2>8 DEF ResultInv, Done, AllCollected, SwapFails, Collector, sameMain, mainVars, dirVars
  <2>9. CASE PrunePanics BY <2>9 DEF ResultInv, Done, AllCollected, PrunePanics, ProcessEnds, dirVars, history, marks
  <2>10. CASE CheckSize
    <3>1. PICK size \in AppSizes, force \in BOOLEAN :
            /\ Collector("application", "sizing", IF ~TooLarge(size) \/ force THEN "collecting" ELSE "ok")
            /\ large' = (size > THRESHOLD_APP_SIZE /\ ~force)
      BY <2>10 DEF CheckSize
    <3>2. /\ pc = "collect" /\ pc' = pc /\ outcome' = outcome
          /\ UNCHANGED <<flags, verdict, dropped, collected, open, unclosed>>
      BY <2>10, <3>1 DEF CheckSize, mainVars, Collector
    <3>3. ASSUME task'["application"] = "ok" PROVE large'
      <4>1. TooLarge(size) /\ ~force BY <3>1, <3>3 DEF Collector
      <4>2. size > THRESHOLD_APP_SIZE BY <4>1, TooLargeIsLarge
      <4> QED BY <3>1, <4>1, <4>2, Zenon
    <3>4. ASSUME NEW e \in DBs, e # "application" PROVE task'[e] = task[e] BY <3>1, <3>4 DEF Collector
    <3>5. outcome' # "success" BY <3>2 DEF ResultInv
    <3> QED BY <3>2, <3>3, <3>4, <3>5 DEF ResultInv, Done, AllCollected
  <2> QED BY <1>16, <2>1, <2>2, <2>3, <2>4, <2>5, <2>6, <2>7, <2>8, <2>9, <2>10 DEF Goroutine
<1>17. CASE UNCHANGED vars BY <1>17 DEF ResultInv, Done, AllCollected, vars, dirVars, history, marks
<1>18. ASSUME NEW d \in DBs, Compacts(d) PROVE ResultInv'
  BY <1>18 DEF ResultInv, Done, AllCollected, Compacts, history, marks
<1> QED
  BY <1>1, <1>2, <1>3, <1>4, <1>5, <1>6, <1>7, <1>8, <1>9, <1>10, <1>11, <1>12, <1>13, <1>14,
     <1>15, <1>16, <1>17, <1>18
     DEF Next, Main

(* No directory is replaced before all three prunes have succeeded. *)
THEOREM CommandAllOrNothing == Spec => []AllOrNothing
<1>1. BarrierInv => AllOrNothing BY DEF BarrierInv
<1> QED BY <1>1, HandlesAlways, BarrierInit, BarrierNext, PTL DEF Spec

(* Exit code 0 without a dropped error: every database was collected and   *)
(* closed, save an application.db over the threshold of the flag's text.   *)
THEOREM CommandAllCollected == Spec => []AllCollected
<1>1. ResultInv => AllCollected BY DEF ResultInv
<1> QED BY <1>1, HandlesAlways, ResultInit, ResultNext, PTL DEF Spec

----------------------------------------------------------------------------
(* Owners. *)

(* Until the passes begin, state.db has the owner that it had before the   *)
(* run; after them the chown restores one database after the other.        *)
OwnerInv ==
  /\ pc # "idle" => outcome = "none"
  /\ ~orphaned =>
       /\ pc # "idle" => uid = "node"
       /\ pc \in {"idle", "openApp", "pruneApp", "dbState", "open", "pruneSei", "prune"} =>
            (dir["state"] # "gone" => owner["state"] = "node")
       /\ pc \in {"chown", "chownFiles"} =>
            \A i \in 1..3 : i < pos /\ dir[Order[i]] # "gone" =>
                            /\ owner[Order[i]] = "node"
                            /\ Order[i] \notin open => files[Order[i]] = {"node"}
       /\ pc = "chownFiles" => owner[Order[pos]] = "node"
       /\ OwnersRestored
       /\ CrashKeepsOwner

LEMMA OwnersInit == Init => OwnerInv
BY DEF Init, OwnerInv, OwnersRestored, CrashKeepsOwner

LEMMA OwnersNext == Types /\ HandleInv /\ OwnerInv /\ [Next]_vars => OwnerInv'
<1> SUFFICES ASSUME Types, HandleInv, OwnerInv, [Next]_vars PROVE OwnerInv' OBVIOUS
<1> USE OrderFacts DEF HandleInv, TaskInv, DirInv, Types, DirTypes, MainTypes, TaskTypes
<1>1. CASE StatFails BY <1>1 DEF OwnerInv, OwnersRestored, CrashKeepsOwner, StatFails, dirVars, history, marks
<1>2. CASE Start
  <2>1. /\ outcome' = "none" /\ uid' = owner["state"] /\ pc = "idle" /\ pos' = 1
        /\ dir["state"] # "gone"
    BY <1>2 DEF Start, Types, MainTypes
  <2>2. pc' \in {"openApp", "dbState", "chown"} BY <1>2 DEF Start
  <2>3. UNCHANGED <<dir, owner, files, orphaned>> BY <1>2 DEF Start, dirVars
  <2> QED BY <2>1, <2>2, <2>3 DEF OwnerInv, OwnersRestored, CrashKeepsOwner
<1>3. CASE OpenApp BY <1>3 DEF OwnerInv, OwnersRestored, CrashKeepsOwner, OpenApp, Touch, Relock, marks
<1>4. CASE PruneApp BY <1>4 DEF OwnerInv, OwnersRestored, CrashKeepsOwner, PruneApp, Close, AfterApp, Return, dirVars, marks
<1>5. CASE ReadState BY <1>5 DEF OwnerInv, OwnersRestored, CrashKeepsOwner, ReadState, Touch, Relock, marks
<1>6. CASE OpenNext BY <1>6 DEF OwnerInv, OwnersRestored, CrashKeepsOwner, OpenNext, Touch, Relock, marks
<1>7. CASE OpenFails BY <1>7 DEF OwnerInv, OwnersRestored, CrashKeepsOwner, OpenFails, Touch, Return, history, marks
<1>8. CASE PruneSei BY <1>8 DEF OwnerInv, OwnersRestored, CrashKeepsOwner, PruneSei, Return, dirVars
<1>9. CASE WaitPrunes BY <1>9 DEF OwnerInv, OwnersRestored, CrashKeepsOwner, WaitPrunes, Ended, Return, Close, FirstOfPass, dirVars, marks
<1>10. CASE WaitCollects BY <1>10 DEF OwnerInv, OwnersRestored, CrashKeepsOwner, WaitCollects, Ended, Return, dirVars
<1>11. CASE ChownDir BY <1>11 DEF OwnerInv, OwnersRestored, CrashKeepsOwner, ChownDir, history, marks
<1>12. CASE ChownFiles BY <1>12 DEF OwnerInv, OwnersRestored, CrashKeepsOwner, ChownFiles, history, marks
<1>13. CASE Exit BY <1>13 DEF OwnerInv, OwnersRestored, CrashKeepsOwner, Exit, ProcessEnds, dirVars, history, marks
<1>14. CASE Kill BY <1>14 DEF OwnerInv, OwnersRestored, CrashKeepsOwner, Kill, ProcessEnds, dirVars
<1>15. CASE NodeStarts BY <1>15 DEF OwnerInv, OwnersRestored, CrashKeepsOwner, NodeStarts, history, marks
<1>16. ASSUME NEW d \in DBs, Goroutine(d) PROVE OwnerInv'
  <2>1. CASE PruneEnds(d) BY <2>1 DEF OwnerInv, OwnersRestored, CrashKeepsOwner, PruneEnds, dirVars
  <2>2. CASE CollectFails(d) BY <2>2 DEF OwnerInv, OwnersRestored, CrashKeepsOwner, CollectFails, Collector, sameMain, mainVars
  <2>3. CASE Copy(d) BY <2>3 DEF OwnerInv, OwnersRestored, CrashKeepsOwner, Copy, Collector, Close, sameMain, mainVars
  <2>4. CASE DiscardCopy(d) BY <2>4 DEF OwnerInv, OwnersRestored, CrashKeepsOwner, DiscardCopy, Collector, sameMain, mainVars
  <2>5. CASE BeginRemove(d) BY <2>5 DEF OwnerInv, OwnersRestored, CrashKeepsOwner, BeginRemove, Collector, sameMain, mainVars
  <2>6. CASE EndRemove(d) BY <2>6 DEF OwnerInv, OwnersRestored, CrashKeepsOwner, EndRemove, Collector, sameMain, mainVars
  <2>7. CASE Swap(d) BY <2>7 DEF OwnerInv, OwnersRestored, CrashKeepsOwner, Swap, Collector, sameMain, mainVars
  <2>8. CASE SwapFails(d) BY <2>8 DEF OwnerInv, OwnersRestored, CrashKeepsOwner, SwapFails, Collector, sameMain, mainVars, dirVars
  <2>9. CASE PrunePanics BY <2>9 DEF OwnerInv, OwnersRestored, CrashKeepsOwner, PrunePanics, ProcessEnds, dirVars, history, marks
  <2>10. CASE CheckSize BY <2>10 DEF OwnerInv, OwnersRestored, CrashKeepsOwner, CheckSize, Collector, sameMain, mainVars, dirVars
  <2> QED BY <1>16, <2>1, <2>2, <2>3, <2>4, <2>5, <2>6, <2>7, <2>8, <2>9, <2>10 DEF Goroutine
<1>17. CASE UNCHANGED vars BY <1>17 DEF OwnerInv, OwnersRestored, CrashKeepsOwner, vars, dirVars, history, marks
<1>18. ASSUME NEW d \in DBs, Compacts(d) PROVE OwnerInv'
  BY <1>18 DEF OpenInv, OwnerInv, OwnersRestored, CrashKeepsOwner, Compacts, history, marks
<1> QED
  BY <1>1, <1>2, <1>3, <1>4, <1>5, <1>6, <1>7, <1>8, <1>9, <1>10, <1>11, <1>12, <1>13, <1>14,
     <1>15, <1>16, <1>17, <1>18
     DEF Next, Main

(* Whatever was swapped in or made, and whatever open databases compact    *)
(* during and after the chown: every run that is not cut short gives the   *)
(* directories back, and all files of those databases that it has closed,  *)
(* unless one was killed while state.db was not the node's.  By            *)
(* AllCollected a run with --cometbft and --run-gc that exits with 0 and   *)
(* dropped no error has closed all three, but for a skipped application.   *)
THEOREM CommandOwners == Spec => []OwnersRestored
<1>1. OwnerInv => OwnersRestored BY DEF OwnerInv, OwnersRestored
<1> QED BY <1>1, HandlesAlways, OwnersInit, OwnersNext, PTL DEF Spec

(* A panic in a goroutine leaves state.db with its owner. *)
THEOREM CommandCrash == Spec => []CrashKeepsOwner
<1>1. OwnerInv => CrashKeepsOwner BY DEF OwnerInv, CrashKeepsOwner
<1> QED BY <1>1, HandlesAlways, OwnersInit, OwnersNext, PTL DEF Spec

----------------------------------------------------------------------------
(* Every run is finite: a bound on its steps, of the main goroutine and of *)
(* those it waits for together, goes down with each of them.               *)

TaskSteps(t) ==
  CASE t = "sizing" -> 5 [] t = "collecting" -> 4 [] t = "copied" -> 3 [] t = "removing" -> 2
    [] t \in {"removed", "pruning"} -> 1 [] OTHER -> 0

TasksLeft == TaskSteps(task["state"]) + TaskSteps(task["blockstore"]) + TaskSteps(task["application"])

StepsLeft ==
  CASE pc = "openApp"    -> 32
    [] pc = "pruneApp"   -> 31
    [] pc = "dbState"    -> 30
    [] pc = "open"       -> 30 - pos
    [] pc = "pruneSei"   -> 23
    [] pc = "prune"      -> 22 + TasksLeft
    [] pc = "collect"    -> 8 + TasksLeft
    [] pc = "chown"      -> 9 - 2 * pos
    [] pc = "chownFiles" -> 8 - 2 * pos
    [] pc = "idle"       -> 0

(* The main goroutine waits for goroutines that have ended or are at work. *)
WaitsForWork ==
  \A d \in DBs :
    /\ pc = "prune" => Ended(d) \/ task[d] = "pruning"
    /\ pc = "collect" => Ended(d) \/ task[d] \in {"sizing", "collecting", "copied", "removing", "removed"}

LEMMA TaskBounds ==
  ASSUME Types, TaskInv
  PROVE  /\ WaitsForWork
         /\ TasksLeft \in Nat
         /\ pc = "prune" => TasksLeft <= 3
         /\ pc = "collect" => TasksLeft <= 15
<1>1. \A d \in DBs : task[d] \in Tasks
  BY DEF Types, TaskTypes
<1>2. WaitsForWork
  BY <1>1 DEF WaitsForWork, Tasks, Ended, TaskInv
<1>3. \A d \in DBs : /\ TaskSteps(task[d]) \in 0..5
                     /\ pc = "prune" => TaskSteps(task[d]) <= 1
  BY <1>1, <1>2 DEF WaitsForWork, Tasks, Ended, TaskSteps
<1>4. /\ TaskSteps(task["state"]) \in 0..5 /\ TaskSteps(task["blockstore"]) \in 0..5
      /\ TaskSteps(task["application"]) \in 0..5
      /\ pc = "prune" => /\ TaskSteps(task["state"]) <= 1 /\ TaskSteps(task["blockstore"]) <= 1
                         /\ TaskSteps(task["application"]) <= 1
  BY <1>3
<1> HIDE DEF TaskSteps
<1> QED
  BY <1>2, <1>4 DEF TasksLeft

LEMMA StepsRange == Types /\ TaskInv => StepsLeft \in 0..32
<1> SUFFICES ASSUME Types, TaskInv PROVE StepsLeft \in 0..32
  OBVIOUS
<1>1. pc \in Places /\ pos \in 1..4 /\ (pc \in {"open", "chownFiles"} => pos \in 1..3)
  BY DEF Types, MainTypes
<1>2. TasksLeft \in Nat /\ (pc = "prune" => TasksLeft <= 3) /\ (pc = "collect" => TasksLeft <= 15)
  BY TaskBounds
<1> QED
  BY <1>1, <1>2 DEF StepsLeft, Places

(* What one goroutine has left goes down: so does the sum. *)
LEMMA OneTaskLess ==
  ASSUME Types, NEW d \in DBs, NEW t \in Tasks, task' = [task EXCEPT ![d] = t],
         TaskSteps(t) < TaskSteps(task[d])
  PROVE  TasksLeft' < TasksLeft
<1>1. \A e \in DBs : task[e] \in Tasks
  BY DEF Types, TaskTypes
<1>2. \A e \in DBs : task'[e] = IF e = d THEN t ELSE task[e]
  BY DEF Types, TaskTypes
<1>3. \A u \in Tasks : TaskSteps(u) \in Nat
  BY DEF TaskSteps, Tasks
<1>4. /\ TaskSteps(task["state"]) \in Nat /\ TaskSteps(task["blockstore"]) \in Nat
      /\ TaskSteps(task["application"]) \in Nat /\ TaskSteps(t) \in Nat
  BY <1>1, <1>3
<1>5. TasksLeft' = TaskSteps(task'["state"]) + TaskSteps(task'["blockstore"]) + TaskSteps(task'["application"])
  BY DEF TasksLeft, TaskSteps
<1> HIDE DEF TaskSteps
<1>6. CASE d = "state" BY <1>2, <1>4, <1>5, <1>6 DEF TasksLeft
<1>7. CASE d = "blockstore" BY <1>2, <1>4, <1>5, <1>7 DEF TasksLeft
<1>8. CASE d = "application" BY <1>2, <1>4, <1>5, <1>8 DEF TasksLeft
<1> QED
  BY <1>6, <1>7, <1>8

(* The tasks that one of the groups begins with. *)
LEMMA GroupsLeft ==
  /\ task' = [d \in DBs |-> "pruning"] => TasksLeft' = 3
  /\ (\A d \in DBs : task'[d] \in {"ok", "failed"}) => TasksLeft' = 0
  /\ task' = FirstOfPass => TasksLeft' = 13
BY DEF TasksLeft, TaskSteps, FirstOfPass

LEMMA MainShortens == Types /\ TaskInv /\ Main => StepsLeft' < StepsLeft
<1> SUFFICES ASSUME Types, TaskInv, Main PROVE StepsLeft' < StepsLeft
  OBVIOUS
<1>1. pc \in Places /\ pos \in 1..4 /\ (pc \in {"open", "chownFiles"} => pos \in 1..3)
  BY DEF Types, MainTypes
<1>2. TasksLeft \in Nat
  BY TaskBounds
<1>3. pc' = "chown" /\ pos' = 1 => StepsLeft' = 7
  BY DEF StepsLeft
<1>4. pc \in {"openApp", "pruneApp", "dbState", "open", "pruneSei", "prune", "collect"} => StepsLeft > 7
  BY <1>1, <1>2 DEF StepsLeft
<1>5. CASE OpenApp BY <1>5 DEF OpenApp, StepsLeft
<1>6. CASE PruneApp
  <2>1. pc = "pruneApp" /\ (pc' = "dbState" \/ (pc' = "chown" /\ pos' = 1))
    BY <1>6 DEF PruneApp, AfterApp, Return
  <2> QED
    BY <1>3, <1>4, <2>1 DEF StepsLeft
<1>7. CASE ReadState BY <1>7 DEF ReadState, StepsLeft
<1>8. CASE OpenNext
  <2>1. CASE pos < 3 BY <1>1, <1>8, <2>1 DEF OpenNext, StepsLeft
  <2>2. CASE ~(pos < 3)
    <3>1. pc = "open" /\ pos = 3 BY <1>1, <1>8, <2>2 DEF OpenNext
    <3>2. CASE sei BY <1>8, <2>2, <3>1, <3>2 DEF OpenNext, StepsLeft
    <3>3. CASE ~sei
      <4>1. pc' = "prune" /\ TasksLeft' = 3 BY <1>8, <2>2, <3>3, GroupsLeft DEF OpenNext
      <4> QED BY <3>1, <4>1 DEF StepsLeft
    <3> QED BY <3>2, <3>3
  <2> QED BY <2>1, <2>2
<1>9. CASE OpenFails BY <1>3, <1>4, <1>9 DEF OpenFails, Return
<1>10. CASE PruneSei
  <2>1. pc = "pruneSei" BY <1>10 DEF PruneSei
  <2>2. \/ pc' = "prune" /\ \A d \in DBs : task'[d] \in {"ok", "failed"}
        \/ pc' = "chown" /\ pos' = 1
    BY <1>10 DEF PruneSei, Return
  <2>3. CASE pc' = "prune" /\ TasksLeft' = 0 BY <2>1, <2>3 DEF StepsLeft
  <2> QED BY <1>3, <1>4, <2>1, <2>2, <2>3, GroupsLeft
<1>11. CASE WaitPrunes
  <2>1. pc = "prune" BY <1>11 DEF WaitPrunes
  <2>2. (pc' = "collect" /\ task' = FirstOfPass) \/ (pc' = "chown" /\ pos' = 1)
    BY <1>11 DEF WaitPrunes, Return
  <2>3. CASE pc' = "collect" /\ TasksLeft' = 13 BY <1>2, <2>1, <2>3 DEF StepsLeft
  <2> QED BY <1>3, <1>4, <2>1, <2>2, <2>3, GroupsLeft
<1>12. CASE WaitCollects BY <1>3, <1>4, <1>12 DEF WaitCollects, Return
<1>13. CASE ChownDir BY <1>1, <1>13 DEF ChownDir, StepsLeft
<1>14. CASE ChownFiles BY <1>1, <1>14 DEF ChownFiles, StepsLeft
<1>15. CASE Exit BY <1>15 DEF Exit, ProcessEnds, StepsLeft
<1> QED
  BY <1>5, <1>6, <1>7, <1>8, <1>9, <1>10, <1>11, <1>12, <1>13, <1>14, <1>15 DEF Main

LEMMA GoroutineShortens ==
  ASSUME Types, TaskInv, NEW d \in DBs, Goroutine(d)
  PROVE  StepsLeft' < StepsLeft
<1>1. TasksLeft \in Nat
  BY TaskBounds
<1>2. CASE d = "blockstore" /\ PrunePanics
  <2>1. pc = "prune" /\ pc' = "idle" BY <1>2 DEF PrunePanics, ProcessEnds, TaskInv
  <2> QED BY <1>1, <2>1 DEF StepsLeft
<1>3. CASE ~(d = "blockstore" /\ PrunePanics)
  <2>1. pc' = pc /\ (pc = "prune" \/ pc = "collect") /\ \E t \in Tasks :
          task' = [task EXCEPT ![d] = t] /\ TaskSteps(t) < TaskSteps(task[d])
    <3>1. CASE PruneEnds(d) BY <3>1 DEF PruneEnds, TaskInv, Tasks, TaskSteps
    <3>2. CASE CollectFails(d) BY <3>2 DEF CollectFails, Collector, sameMain, mainVars, TaskInv, Tasks, TaskSteps
    <3>3. CASE Copy(d) BY <3>3 DEF Copy, Collector, sameMain, mainVars, TaskInv, Tasks, TaskSteps
    <3>4. CASE DiscardCopy(d) BY <3>4 DEF DiscardCopy, Collector, sameMain, mainVars, TaskInv, Tasks, TaskSteps
    <3>5. CASE BeginRemove(d) BY <3>5 DEF BeginRemove, Collector, sameMain, mainVars, TaskInv, Tasks, TaskSteps
    <3>6. CASE EndRemove(d) BY <3>6 DEF EndRemove, Collector, sameMain, mainVars, TaskInv, Tasks, TaskSteps
    <3>7. CASE Swap(d) BY <3>7 DEF Swap, Collector, sameMain, mainVars, TaskInv, Tasks, TaskSteps
    <3>8. CASE SwapFails(d) BY <3>8 DEF SwapFails, Collector, sameMain, mainVars, TaskInv, Tasks, TaskSteps
    <3>9. CASE d = "application" /\ CheckSize
      <4>1. \E size \in AppSizes, force \in BOOLEAN :
              Collector("application", "sizing", IF ~TooLarge(size) \/ force THEN "collecting" ELSE "ok")
        BY <3>9, Zenon DEF CheckSize
      <4>2. task[d] = "sizing" BY <3>9, <4>1 DEF Collector
      <4>3. PICK t \in {"collecting", "ok"} : task' = [task EXCEPT ![d] = t]
        BY <3>9, <4>1 DEF Collector
      <4>4. t \in Tasks /\ TaskSteps(t) < TaskSteps(task[d])
        BY <4>2 DEF Tasks, TaskSteps
      <4>5. pc' = pc /\ pc = "collect"
        BY <3>9, <4>2 DEF CheckSize, mainVars, TaskInv
      <4> QED
        BY <4>3, <4>4, <4>5
    <3> QED
      BY <1>3, <3>1, <3>2, <3>3, <3>4, <3>5, <3>6, <3>7, <3>8, <3>9 DEF Goroutine
  <2>2. TasksLeft' < TasksLeft
    BY <2>1, OneTaskLess
  <2>3. (pc = "prune" /\ pc' = "prune") \/ (pc = "collect" /\ pc' = "collect")
    BY <2>1
  <2>4. TasksLeft' \in Int
    <3>1. \A u : TaskSteps(u) \in Nat BY DEF TaskSteps
    <3>2. TasksLeft' = TaskSteps(task'["state"]) + TaskSteps(task'["blockstore"]) + TaskSteps(task'["application"])
      BY DEF TasksLeft, TaskSteps
    <3> HIDE DEF TaskSteps
    <3> QED BY <3>1, <3>2
  <2> QED
    BY <1>1, <2>2, <2>3, <2>4 DEF StepsLeft
<1> QED
  BY <1>2, <1>3

LEMMA KillShortens == Types /\ TaskInv /\ Kill => StepsLeft' < StepsLeft
<1> SUFFICES ASSUME Types, TaskInv, Kill PROVE StepsLeft' < StepsLeft
  OBVIOUS
<1>1. pc \in Places /\ pc # "idle" /\ pos \in 1..4 /\ (pc \in {"open", "chownFiles"} => pos \in 1..3)
  BY DEF Kill, Types, MainTypes
<1>2. pc' = "idle" /\ TasksLeft \in Nat
  BY TaskBounds DEF Kill, ProcessEnds
<1> QED
  BY <1>1, <1>2 DEF StepsLeft, Places

(* Every run is over after at most 32 steps of the process, whatever their *)
(* order, failures and kills, and while the main goroutine waits, each     *)
(* goroutine of the group is at work or has ended: no wait is for ever.    *)
(* With the fairness of the scheduler this is RunEnds.                     *)
THEOREM CommandShortens ==
  Spec => /\ [](WaitsForWork /\ StepsLeft \in 0..32)
          /\ [][Main \/ (\E d \in DBs : Goroutine(d)) \/ Kill => StepsLeft' < StepsLeft]_vars
<1>1. Types /\ HandleInv => WaitsForWork /\ StepsLeft \in 0..32
  BY TaskBounds, StepsRange DEF HandleInv
<1>2. Types /\ HandleInv /\ [Next]_vars =>
        [Main \/ (\E d \in DBs : Goroutine(d)) \/ Kill => StepsLeft' < StepsLeft]_vars
  BY MainShortens, GoroutineShortens, KillShortens DEF HandleInv
<1> QED
  BY <1>1, <1>2, HandlesAlways, PTL DEF Spec
=============================================================================

-------------------------- MODULE GameImportProofs ---------------------------
(***************************************************************************)
(* What TLAPS proves of GameImport, for any games, slugs and number of     *)
(* imports, crashes and errors: what ImportGame returns is what happened,  *)
(* a start that serves has emptied the journal, and one interruption,      *)
(* wherever it falls among ordinary restarts, is resolved as far as        *)
(* OneInterruptionIsResolved says.                                         *)
(*                                                                         *)
(* ImportInv is inductive.  The heart of it is Undone, the contents that a *)
(* rollback will leave: before the commit it is what was there before, and *)
(* so it is again for the rollback that starts from what loadImportStage   *)
(* finds after a crash; the steps of a rollback do not change it.          *)
(***************************************************************************)
EXTENDS GameImport, TLAPS

AtRest == {"down", "refused", "recover", "serving"}
Forward == {"prepare", "backup", "install", "commit", "query"}
Undoing == {"undo", "discard", "restore", "undone"}

\* Calls are numbered in order, and what is not a directory holds nothing.
BornInv ==
  /\ \A i \in Import : i <= imports => slugOf[i] \in Slug
  /\ \A i \in stages : i <= imports
  /\ \A i \in Import \ stages : fresh[i] = {} /\ \A k \in Kind : backup[i][k] = None
  /\ \A g \in Game : receipt[g] <= imports
  /\ pending \subseteq stages \ {cur}

\* A game that records a package has a row and tracks the package's targets.
RowInv ==
  \A g \in Game : receipt[g] # None =>
    /\ slug[g] # NoSlug
    /\ \A k \in Kind : HasNew(receipt[g], k) => TargetOf(receipt[g], k) \in tracked[g]

ProcessInv ==
  /\ pc \in AtRest =>
       ctx = "startup" /\ cur = None /\ at = "cover" /\ touched = {} /\ failed = {}
  /\ pc \notin AtRest => cur \in stages
  /\ pc \in Forward => ctx = "import"
  /\ ctx = "import" => \E g \in Game : game = {g}
  /\ pc = "prepare" =>
       at = "cover" /\ cur \notin durable /\ \A k \in Kind : backup[cur][k] = None

\* The three stations of a kind on its way forward.
Waiting(k) ==
  /\ contents[TargetOf(cur, k)] = before[TargetOf(cur, k)]
  /\ backup[cur][k] = None
  /\ k \in fresh[cur] <=> HasNew(cur, k)
  /\ k \notin touched
Moved(k) ==
  /\ contents[TargetOf(cur, k)] = None
  /\ backup[cur][k] = before[TargetOf(cur, k)]
  /\ k \in fresh[cur] <=> HasNew(cur, k)
  /\ k \in touched <=> before[TargetOf(cur, k)] # None
Swapped(k) ==
  /\ contents[TargetOf(cur, k)] = IF HasNew(cur, k) THEN cur ELSE None
  /\ backup[cur][k] = before[TargetOf(cur, k)]
  /\ k \notin fresh[cur]
  /\ k \in touched <=> HasNew(cur, k) \/ before[TargetOf(cur, k)] # None

CoverDone == pc \in {"commit", "query"} \/ (pc \in {"backup", "install"} /\ at = "bundle")
CoverAhead == pc = "prepare" \/ (pc = "backup" /\ at = "cover")
BundleAhead == pc = "prepare" \/ pc = "backup" \/ (pc = "install" /\ at = "cover")

\* On its way to the commit an import has moved what its place in the code says,
\* and nothing outside its namespace.
ForwardInv ==
  pc \in Forward =>
    /\ failed = {}
    /\ \A n \in Slug, k \in Kind : n # slugOf[cur] => contents[<<n, k>>] = before[<<n, k>>]
    /\ CoverAhead => Waiting("cover")
    /\ pc = "install" /\ at = "cover" => Moved("cover")
    /\ CoverDone => Swapped("cover")
    /\ BundleAhead => Waiting("bundle")
    /\ pc = "install" /\ at = "bundle" => Moved("bundle")
    /\ pc \in {"commit", "query"} => Swapped("bundle")
    /\ pc # "prepare" => cur \in durable
    /\ \A g \in Game : receipt[g] = cur => pc = "query" /\ g \in game
    /\ \A g \in game : ~Shared(g, slugOf[cur])

\* What is left of contents c when the touched items T of K in namespace n are
\* put back from the backup b.
Undone(c, b, n, T, K) ==
  [x \in Target |-> IF x[1] = n /\ x[2] \in T \cap K THEN b[x[2]] ELSE c[x]]

\* The items that the rollback in hand has still to deal with.
Left == IF pc \in {"undo", "discard", "restore"}
        THEN (IF at = "bundle" THEN Kind ELSE {"cover"})
        ELSE {}

\* The contents that the rollback in hand will leave, and that of a stage which
\* the next start finds.
Outlook == Undone(contents, backup[cur], slugOf[cur], touched, Left)
Found(i) == Undone(contents, backup[i], slugOf[i], FoundTouched(i), Kind)

UndoInv ==
  pc \in Undoing =>
    /\ ~Committed(cur)
    /\ pc \in {"discard", "restore"} =>
         at \in touched /\ (failed = {} => contents[TargetOf(cur, at)] = None)
    /\ ctx = "import" =>
         outcome = "restored" /\ (failed = {} => Outlook = before)

ResultInv ==
  ctx = "import" /\ pc = "remove" =>
    /\ outcome \in {"ok", "unread", "restored"}
    /\ outcome = "restored" => ~Committed(cur) /\ (contents = before \/ "unseen" \in failed)
    /\ outcome # "restored" =>
         /\ \E g \in game : receipt[g] = cur
         /\ \A k \in Kind : contents[TargetOf(cur, k)] = IF HasNew(cur, k) THEN cur ELSE None

\* A recovery that has met no error has every directory that is left before it.
CleanInv ==
  /\ pc = "recover" /\ ~errors => stages \subseteq pending
  /\ ctx = "startup" /\ pc \in Undoing \cup {"remove"} /\ ~errors => stages \subseteq pending \cup {cur}

\* Two games record packages of different namespaces.
DistinctInv ==
  \A g, h \in Game :
    receipt[g] # None /\ receipt[h] # None /\ g # h => slugOf[receipt[g]] # slugOf[receipt[h]]

\* The packages that are promised their files have them in contents c.
Matches(c) ==
  \A g \in Game : receipt[g] # None /\ receipt[g] \notin crowded =>
    \A k \in Kind : HasNew(receipt[g], k) => c[TargetOf(receipt[g], k)] = receipt[g]

\* A start will roll stage i back.
ToUndo(i) == i \in durable /\ ~Committed(i)

\* Before any failed step, whatever was stopped, a server that serves has only the
\* stage of the import in progress; before any interruption every start finds none.
UndisturbedInv ==
  /\ faults = 0 =>
       /\ crowded = {}
       /\ pc = "serving" => stages = {}
       /\ ctx = "import" => stages = {cur}
       /\ ctx = "import" => pc \notin Undoing \cup {"query"} /\ (pc = "remove" => Committed(cur))
  /\ crashes + faults = 0 => (ctx = "startup" => pc \in AtRest /\ stages = {})

\* An import next to an older stage of its namespace is crowded.
CrowdInv ==
  ctx = "import" =>
    \A i \in stages \ {cur} : slugOf[i] = slugOf[cur] => cur \in crowded

\* Rolling stage i back reaches no package that is promised its files.
Apart(i) ==
  i \in durable =>
    \A g \in Game : receipt[g] \notin {None, i} \cup crowded => slugOf[receipt[g]] # slugOf[i]

\* After one interruption at most, files and receipts agree, or will once the rollback that
\* is due or under way has ended.
Calm ==
  /\ ~errors /\ failed = {}
  /\ pc \in {"serving", "remove"} => Matches(contents)
  /\ pc \in {"down", "refused", "recover"} =>
       /\ \A i, j \in stages : i = j
       /\ \A i \in stages : ToUndo(i) => Matches(Found(i))
       /\ (\A i \in stages : ~ToUndo(i)) => Matches(contents)
  /\ pc \in Forward => Matches(IF Committed(cur) THEN contents ELSE before)
  /\ pc \in Undoing => Matches(Outlook)
  /\ ctx = "startup" /\ pc \notin AtRest => stages = {cur}

\* A stage that a failed step has left behind is the only one, and harmless.
KeptApart ==
  /\ \A i, j \in stages \ {cur} : i = j
  /\ pc = "serving" \/ ctx = "import" => \A i \in stages \ {cur} : Apart(i)
CalmInv == crashes + faults <= 1 => Calm /\ KeptApart

StateInv == TypeOK /\ BornInv /\ RowInv /\ ProcessInv /\ CleanInv /\ UndisturbedInv
ImportInv == StateInv /\ ForwardInv /\ UndoInv /\ ResultInv /\ DistinctInv /\ CrowdInv /\ CalmInv

----------------------------------------------------------------------------
(* Facts that many steps need                                              *)

LEMMA SetFacts ==
  /\ None \in Files /\ Import \subseteq Files /\ None \notin Import
  /\ MaxImports \in Nat /\ MaxCrashes \in Nat /\ MaxFaults \in Nat
  /\ \A i : i \in Import <=> i \in Nat /\ 1 <= i /\ i <= MaxImports
BY ConstantsAssumption DEF Files, Import, None

LEMMA Counters == ASSUME TypeOK PROVE crashes \in Nat /\ faults \in Nat
BY SetFacts DEF TypeOK

LEMMA InFlight ==
  ASSUME TypeOK, BornInv, ProcessInv, pc \notin AtRest
  PROVE  /\ cur \in Import /\ cur \in stages /\ cur # None
         /\ slugOf[cur] \in Slug /\ TargetOf(cur, at) \in Target
         /\ \A k \in Kind : TargetOf(cur, k) \in Target
<1>1. cur \in stages /\ cur \in Import /\ cur \in Nat
  BY SetFacts DEF TypeOK, ProcessInv
<1>2. slugOf[cur] \in Slug
  BY <1>1 DEF BornInv
<1>3. at \in Kind
  BY DEF TypeOK
<1> QED
  BY <1>1, <1>2, <1>3, SetFacts DEF TargetOf, Target

\* StageDone returns to the recovery pass or from ImportGame.
LEMMA StageDoneFacts ==
  ASSUME NEW E \in BOOLEAN, StageDone(E), TypeOK
  PROVE  /\ cur' = None /\ game' = {} /\ at' = "cover" /\ touched' = {} /\ failed' = {}
         /\ before' = [x \in Target |-> None] /\ pending' = pending /\ errors' \in BOOLEAN
         /\ ctx = "import" =>
              /\ pc' = "serving" /\ ctx' = "startup" /\ errors' = errors
              /\ outcome' = IF E /\ outcome = "restored" THEN "restoreFailed" ELSE outcome
         /\ ctx = "startup" =>
              pc' = "recover" /\ ctx' = "startup" /\ outcome' = outcome /\ (~errors' <=> ~errors /\ ~E)
<1>1. CASE ctx = "import"
  BY <1>1 DEF StageDone, Return, Forget, TypeOK
<1>2. CASE ctx # "import"
  <2>1. errors' \in BOOLEAN
    BY Zenon, <1>2 DEF StageDone
  <2>2. errors' = (errors \/ E)
    BY <1>2 DEF StageDone
  <2>3. ~errors' <=> ~errors /\ ~E
    BY <2>2
  <2> QED
    BY <1>2, <2>1, <2>3 DEF StageDone, Forget, TypeOK
<1> QED
  BY <1>1, <1>2

LEMMA ErrorsBoolean == ASSUME TypeOK, [Next]_vars PROVE errors' \in BOOLEAN
<1>1. ASSUME \/ Start \/ Crash \/ PrepareFails \/ QueryReceipt \/ QueryFails \/ ImportFails
             \/ WriteManifest \/ CommitFails \/ DiscardNew \/ RecoveryDone
             \/ \E i \in Import : RecoverStage(i) \/ RecoverStageFails(i)
      PROVE  errors' \in BOOLEAN
  BY Zenon, <1>1
     DEF TypeOK, Start, Crash, PrepareFails, Return, QueryReceipt, QueryFails, ImportFails,
         BeginRollback, WriteManifest, CommitFails, GoTo, DiscardNew, RecoveryDone, RecoverStage,
         RecoverStageFails
<1>2. ASSUME NEW E \in BOOLEAN, StageDone(E) PROVE errors' \in BOOLEAN
  BY <1>2, StageDoneFacts
<1>3. ASSUME RollbackDone \/ RemoveStageDir \/ RemoveFails PROVE errors' \in BOOLEAN
  <2>1. (\E E \in BOOLEAN : StageDone(E)) \/ GoTo("remove")
    BY <1>3 DEF RollbackDone, RemoveStageDir, RemoveFails
  <2> QED
    BY <2>1, <1>2 DEF GoTo, TypeOK
<1>4. ASSUME UNCHANGED errors PROVE errors' \in BOOLEAN
  BY <1>4 DEF TypeOK
<1>5. QED
  BY <1>1, <1>3, <1>4
     DEF Next, Work, Fail, Request, vars, process, Stop, BackUp, Install, Commit, UndoTarget, RestoreBackup,
         RemoveManifest, RemoveNew, RemoveBackup, ReadBackFails, RollbackStepFails, SaveGame,
         DeleteGame, ImportGame

LEMMA TypeStep == ASSUME StateInv, [Next]_vars PROVE TypeOK'
<1>0. errors' \in BOOLEAN
  BY ErrorsBoolean DEF StateInv
<1>a. TypeOK /\ BornInv /\ ProcessInv
  BY DEF StateInv
<1>b. pc \notin AtRest => /\ cur \in Import /\ cur \in stages /\ cur # None
                          /\ slugOf[cur] \in Slug /\ TargetOf(cur, at) \in Target
  BY <1>a, InFlight
<1> USE <1>0, SetFacts DEF TypeOK, database, volume, packages, process, Kind
<1>1. CASE Start
  BY <1>a, <1>1 DEF Start
<1>2. CASE Crash
  BY <1>a, <1>2 DEF Crash, Forget
<1>32. CASE Stop
  BY <1>a, <1>32 DEF Stop
<1>3. ASSUME NEW g \in Game, NEW n \in Slug, NEW K \in SUBSET Kind, SaveGame(g, n, K)
      PROVE  TypeOK'
  <2>1. {n} \X K \in SUBSET Target
    BY DEF Target
  <2> QED
    BY <1>a, <1>3, <2>1 DEF SaveGame
<1>4. ASSUME NEW g \in Game, NEW N \in SUBSET Target, DeleteGame(g, N) PROVE TypeOK'
  BY <1>a, <1>4 DEF DeleteGame
<1>5. ASSUME NEW g \in Game, NEW n \in Slug, NEW s \in BOOLEAN, ImportGame(g, n, s) PROVE TypeOK'
  <2>1. imports + 1 \in Import
    BY <1>a, <1>5 DEF ImportGame
  <2>2. /\ slugOf' \in [Import -> Slug \cup {NoSlug}] /\ static' \in [Import -> BOOLEAN]
        /\ fresh' \in [Import -> SUBSET Kind]
    BY <1>a, <1>5, <2>1 DEF ImportGame
  <2>3. stages' \in SUBSET Import /\ crowded' \in SUBSET Import
    BY <1>a, <1>5, <2>1 DEF ImportGame
  <2> QED BY <1>a, <1>5, <2>1, <2>2, <2>3 DEF ImportGame
<1>6. CASE WriteManifest
  <2>1. cur \in stages
    BY <1>b, <1>6 DEF WriteManifest, AtRest
  <2> QED
    BY <1>a, <1>6, <2>1 DEF WriteManifest, GoTo
<1>7. CASE PrepareFails
  <2>1. cur \in Import /\ cur \notin durable
    BY <1>a, <1>b, <1>7 DEF PrepareFails, AtRest, ProcessInv
  <2>2. stages' \in SUBSET stages /\ durable' \in SUBSET stages' /\ fresh' \in [Import -> SUBSET Kind]
    BY <1>a, <1>7, <2>1 DEF PrepareFails
  <2> QED
    BY <1>a, <1>7, <2>2 DEF PrepareFails, Fault, Return, Forget
<1>8. CASE BackUp
  <2>1. TargetOf(cur, at) \in Target /\ cur \in Import /\ at \in Kind
    BY <1>a, <1>b, <1>8 DEF BackUp, AtRest
  <2>2. /\ contents' \in [Target -> Files] /\ backup' \in [Import -> [Kind -> Files]]
        /\ touched' \in SUBSET Kind
    <3>1. CASE contents[TargetOf(cur, at)] = None
      BY <1>a, <1>8, <3>1 DEF BackUp
    <3>2. CASE contents[TargetOf(cur, at)] # None
      <4>1. /\ backup' = [backup EXCEPT ![cur][at] = contents[TargetOf(cur, at)]]
            /\ contents' = [contents EXCEPT ![TargetOf(cur, at)] = None]
            /\ touched' = touched \cup {at}
        BY <1>8, <3>2 DEF BackUp
      <4> QED
        BY <1>a, <2>1, <4>1
    <3> QED
      BY <3>1, <3>2
  <2> QED
    BY <1>a, <1>8, <2>2 DEF BackUp
<1>9. CASE Install
  <2>1. TargetOf(cur, at) \in Target /\ cur \in Import /\ cur \in Files
    BY <1>a, <1>b, <1>9 DEF Install, AtRest
  <2>2. /\ contents' \in [Target -> Files] /\ fresh' \in [Import -> SUBSET Kind]
        /\ touched' \in SUBSET Kind
    <3>1. CASE HasNew(cur, at)
      <4>1. /\ contents' = [contents EXCEPT ![TargetOf(cur, at)] = cur]
            /\ fresh' = [fresh EXCEPT ![cur] = fresh[cur] \ {at}]
            /\ touched' = touched \cup {at}
        BY <1>9, <3>1 DEF Install
      <4> QED
        BY <1>a, <2>1, <4>1
    <3>2. CASE ~HasNew(cur, at)
      BY <1>a, <1>9, <3>2 DEF Install
    <3> QED
      BY <3>1, <3>2
  <2> QED
    BY <1>a, <1>9, <2>2 DEF Install
<1>10. CASE ImportFails
  BY <1>a, <1>10 DEF ImportFails, BeginRollback, Fault
<1>11. ASSUME NEW g \in Game, Record(g), cur \in Import, slugOf[cur] \in Slug
       PROVE  /\ slug' \in [Game -> Slug \cup {NoSlug}] /\ tracked' \in [Game -> SUBSET Target]
              /\ receipt' \in [Game -> Files]
  <2>1. {TargetOf(cur, k) : k \in {j \in Kind : HasNew(cur, j)}} \in SUBSET Target
    BY <1>11 DEF TargetOf, Target
  <2> QED
    BY <1>a, <1>11, <2>1 DEF Record
<1>12. CASE Commit
  <2>1. cur \in Import /\ slugOf[cur] \in Slug /\ game \in SUBSET Game
    BY <1>a, <1>b, <1>12 DEF Commit, AtRest
  <2>2. /\ slug' \in [Game -> Slug \cup {NoSlug}] /\ tracked' \in [Game -> SUBSET Target]
        /\ receipt' \in [Game -> Files]
    BY <1>11, <1>12, <2>1 DEF Commit
  <2> QED
    BY <1>a, <1>12, <2>2 DEF Commit
<1>13. CASE CommitFails
  <2>1. cur \in Import /\ slugOf[cur] \in Slug /\ game \in SUBSET Game
    BY <1>a, <1>b, <1>13 DEF CommitFails, AtRest
  <2>2. /\ slug' \in [Game -> Slug \cup {NoSlug}] /\ tracked' \in [Game -> SUBSET Target]
        /\ receipt' \in [Game -> Files]
    BY <1>a, <1>11, <1>13, <2>1 DEF CommitFails
  <2> QED
    BY <1>a, <1>13, <2>2 DEF CommitFails, Fault, GoTo
<1>14. CASE QueryReceipt
  <2>1. CASE Committed(cur)
    BY <1>a, <1>14, <2>1 DEF QueryReceipt
  <2>2. CASE ~Committed(cur)
    BY <1>a, <1>14, <2>2 DEF QueryReceipt, BeginRollback
  <2> QED
    BY <2>1, <2>2
<1>15. CASE QueryFails
  BY <1>a, <1>15 DEF QueryFails, Fault, Return, Forget
<1>16. CASE ReadBackFails
  BY <1>a, <1>16 DEF ReadBackFails, Fault
<1>17. CASE UndoTarget
  <2>1. TargetOf(cur, at) \in Target
    BY <1>b, <1>17 DEF UndoTarget, AtRest
  <2> QED
    BY <1>a, <1>17, <2>1 DEF UndoTarget, NextItem
<1>18. CASE DiscardNew
  BY <1>a, <1>18 DEF DiscardNew, GoTo
<1>19. CASE RestoreBackup
  <2>1. TargetOf(cur, at) \in Target /\ cur \in Import /\ at \in Kind
    BY <1>a, <1>b, <1>19 DEF RestoreBackup, AtRest
  <2>2. contents' \in [Target -> Files] /\ backup' \in [Import -> [Kind -> Files]]
    <3>1. CASE backup[cur][at] # None /\ contents[TargetOf(cur, at)] = None
      <4>1. /\ contents' = [contents EXCEPT ![TargetOf(cur, at)] = backup[cur][at]]
            /\ backup' = [backup EXCEPT ![cur][at] = None]
        BY <1>19, <3>1 DEF RestoreBackup
      <4> QED
        BY <1>a, <2>1, <4>1
    <3>2. CASE ~(backup[cur][at] # None /\ contents[TargetOf(cur, at)] = None)
      BY <1>a, <1>19, <3>2 DEF RestoreBackup
    <3> QED
      BY <3>1, <3>2
  <2> QED
    BY <1>a, <1>19, <2>2 DEF RestoreBackup, NextItem
<1>20. CASE RollbackStepFails
  BY <1>a, <1>20 DEF RollbackStepFails, Fault, NextItem
<1>21. ASSUME NEW E \in BOOLEAN, StageDone(E),
              UNCHANGED <<database, contents, durable, fresh, backup, packages, crashes>>,
              stages' \in SUBSET stages, durable \in SUBSET stages', faults' \in 0 .. MaxFaults
       PROVE  TypeOK'
  <2>1. /\ cur' = None /\ game' = {} /\ at' = "cover" /\ touched' = {} /\ failed' = {}
        /\ before' = [x \in Target |-> None] /\ pending' = pending
        /\ pc' \in {"serving", "recover"} /\ ctx' = "startup"
        /\ outcome' \in {outcome, "restoreFailed"}
    BY <1>a, <1>21, StageDoneFacts
  <2> QED
    BY <1>a, <1>21, <2>1
<1>22. CASE RollbackDone
  <2>1. CASE "reported" \in failed
    BY <1>a, <1>21, <1>22, <2>1 DEF RollbackDone
  <2>2. CASE "reported" \notin failed
    BY <1>a, <1>22, <2>2 DEF RollbackDone, GoTo
  <2> QED
    BY <2>1, <2>2
<1>23. CASE RemoveManifest
  BY <1>a, <1>23 DEF RemoveManifest
<1>24. CASE RemoveNew
  <2>1. PICK k \in Kind : fresh' = [fresh EXCEPT ![cur] = @ \ {k}]
    BY <1>a, <1>b, <1>24 DEF RemoveNew, AtRest
  <2> QED
    BY <1>a, <1>24, <2>1 DEF RemoveNew
<1>25. CASE RemoveBackup
  <2>1. PICK k \in Kind : backup' = [backup EXCEPT ![cur][k] = None]
    BY <1>25 DEF RemoveBackup
  <2>2. backup' \in [Import -> [Kind -> Files]]
    BY <1>a, <2>1
  <2> QED
    BY <1>a, <1>25, <2>2 DEF RemoveBackup
<1>26. CASE RemoveStageDir
  BY <1>a, <1>21, <1>26 DEF RemoveStageDir
<1>27. CASE RemoveFails
  <2>1. StageDone(TRUE)
    BY <1>27 DEF RemoveFails
  <2>3. faults' \in 0 .. MaxFaults
    BY <1>a, <1>27 DEF RemoveFails, Fault
  <2>2. UNCHANGED <<database, stages, contents, durable, fresh, backup, packages, crashes>>
    BY <1>27 DEF RemoveFails
  <2> QED
    BY <1>a, <1>21, <2>1, <2>2, <2>3
<1>28. ASSUME NEW i \in Import, RecoverStage(i) PROVE TypeOK'
  <2>1. CASE i \in durable /\ ~Committed(i)
    BY <1>a, <1>28, <2>1 DEF RecoverStage, BeginRollback, FoundTouched
  <2>2. CASE ~(i \in durable /\ ~Committed(i))
    BY <1>a, <1>28, <2>2 DEF RecoverStage
  <2> QED
    BY <2>1, <2>2
<1>29. ASSUME NEW i \in Import, RecoverStageFails(i) PROVE TypeOK'
  BY <1>a, <1>29 DEF RecoverStageFails, Fault
<1>30. CASE RecoveryDone
  BY <1>a, <1>30 DEF RecoveryDone, GoTo
<1>31. CASE UNCHANGED vars
  BY <1>a, <1>31 DEF vars
<1> QED
  BY <1>1, <1>2, <1>3, <1>4, <1>5, <1>6, <1>7, <1>8, <1>9, <1>10, <1>12, <1>13, <1>14, <1>15,
     <1>16, <1>17, <1>18, <1>19, <1>20, <1>22, <1>23, <1>24, <1>25, <1>26, <1>27, <1>28,
     <1>29, <1>30, <1>31, <1>32 DEF Next, Work, Fail, Request

\* Rows and packages are written by five actions only.
LEMMA RowStep == ASSUME StateInv, [Next]_vars PROVE RowInv'
<1>a. TypeOK /\ BornInv /\ ProcessInv /\ RowInv
  BY DEF StateInv
<1>b. \A g \in Game : receipt[g] # None => receipt[g] \in Import /\ receipt[g] \in Nat /\ receipt[g] <= imports
  BY <1>a, SetFacts DEF TypeOK, BornInv, Files
<1>1. ASSUME UNCHANGED <<database, packages>> PROVE RowInv'
  BY <1>a, <1>1 DEF RowInv, HasNew, TargetOf, database, packages
<1>2. ASSUME NEW g \in Game, NEW n \in Slug, NEW K \in SUBSET Kind, SaveGame(g, n, K)
      PROVE  RowInv'
  <2>1. \A h \in Game : (slug[h] # NoSlug => slug'[h] # NoSlug) /\ tracked[h] \subseteq tracked'[h]
    BY <1>a, <1>2, ConstantsAssumption DEF SaveGame, TypeOK
  <2>2. UNCHANGED <<receipt, packages>>
    BY <1>2 DEF SaveGame
  <2> QED
    BY <1>a, <2>1, <2>2 DEF RowInv, HasNew, TargetOf, packages
<1>3. ASSUME NEW g \in Game, NEW N \in SUBSET Target, DeleteGame(g, N) PROVE RowInv'
  <2>1. /\ receipt'[g] = None /\ UNCHANGED packages
        /\ \A h \in Game \ {g} :
             slug'[h] = slug[h] /\ tracked'[h] = tracked[h] /\ receipt'[h] = receipt[h]
    BY <1>a, <1>3 DEF DeleteGame, TypeOK
  <2> QED
    BY <1>a, <2>1 DEF RowInv, HasNew, TargetOf, packages
<1>4. ASSUME NEW g \in Game, NEW n \in Slug, NEW s \in BOOLEAN, ImportGame(g, n, s) PROVE RowInv'
  <2>1. /\ UNCHANGED database
        /\ \A i \in Import : i <= imports => slugOf'[i] = slugOf[i] /\ static'[i] = static[i]
    BY <1>a, <1>4, SetFacts DEF ImportGame, TypeOK
  <2> QED
    BY <1>a, <1>b, <2>1 DEF RowInv, HasNew, TargetOf, database
<1>5. ASSUME NEW g \in Game, Record(g), cur \in Import, slugOf[cur] \in Slug, UNCHANGED packages
      PROVE  RowInv'
  <2>1. /\ slug'[g] # NoSlug /\ receipt'[g] = cur
        /\ \A k \in Kind : HasNew(cur, k) => TargetOf(cur, k) \in tracked'[g]
        /\ \A h \in Game \ {g} :
             slug'[h] = slug[h] /\ tracked'[h] = tracked[h] /\ receipt'[h] = receipt[h]
    BY <1>a, <1>5, ConstantsAssumption DEF Record, TypeOK
  <2> QED
    BY <1>a, <1>5, <2>1 DEF RowInv, HasNew, TargetOf, packages
<1>6. CASE Commit \/ CommitFails
  <2>1. pc \notin AtRest /\ UNCHANGED packages
    BY <1>6 DEF Commit, CommitFails, AtRest
  <2>2. cur \in Import /\ slugOf[cur] \in Slug /\ game \in SUBSET Game
    BY <1>a, <2>1, InFlight DEF TypeOK
  <2> QED
    BY <1>1, <1>5, <1>6, <2>1, <2>2 DEF Commit, CommitFails
<1> QED
  BY <1>1, <1>2, <1>3, <1>4, <1>6
     DEF Next, Work, Fail, Request, vars, Start, Stop, Crash, PrepareFails, QueryReceipt, QueryFails,
         ImportFails, WriteManifest, DiscardNew, RecoveryDone, RecoverStage, RecoverStageFails,
         RollbackDone, RemoveStageDir, RemoveFails, BackUp, Install, UndoTarget, RestoreBackup,
         RemoveManifest, RemoveNew, RemoveBackup, ReadBackFails, RollbackStepFails

LEMMA NoneAtAll ==
  ASSUME NEW a \in Nat, NEW b \in Nat, a + b = 0 PROVE a = 0 /\ b = 0
OBVIOUS

\* The rest of StateInv.
PlaceInv == BornInv /\ ProcessInv /\ CleanInv /\ UndisturbedInv

LEMMA PlaceStep == ASSUME StateInv, [Next]_vars PROVE PlaceInv'
<1>a. TypeOK /\ BornInv /\ ProcessInv /\ CleanInv /\ UndisturbedInv /\ TypeOK'
  BY TypeStep DEF StateInv
<1>b. pc \notin AtRest => cur \in Import /\ cur \in stages /\ cur # None /\ slugOf[cur] \in Slug
  BY <1>a, InFlight
<1>c. crashes \in Nat /\ faults \in Nat
  BY <1>a, Counters
<1> USE SetFacts DEF PlaceInv, BornInv, ProcessInv, CleanInv, UndisturbedInv, AtRest, Forward, Undoing,
        Committed, database, volume, packages, process, Kind, None
<1>1. CASE Start
  BY <1>a, <1>1 DEF Start, TypeOK
<1>2. CASE Crash
  BY <1>a, <1>c, <1>2 DEF Crash, Forget
<1>32. CASE Stop
  BY <1>a, <1>c, <1>32 DEF Stop
<1>3. ASSUME NEW g \in Game, NEW n \in Slug, NEW K \in SUBSET Kind, SaveGame(g, n, K)
      PROVE  PlaceInv'
  BY <1>a, <1>3 DEF SaveGame
<1>4. ASSUME NEW g \in Game, NEW N \in SUBSET Target, DeleteGame(g, N) PROVE PlaceInv'
  <2>1. \A h \in Game : receipt'[h] \in {receipt[h], 0}
    BY <1>a, <1>4 DEF DeleteGame, TypeOK
  <2>2. pc = "serving" /\ UNCHANGED <<stages, durable, fresh, backup, packages, process, crashes, faults>>
    BY <1>4 DEF DeleteGame
  <2>3. imports \in Nat
    BY <1>a DEF TypeOK
  <2> QED
    BY <1>a, <2>1, <2>2, <2>3
<1>5. ASSUME NEW g \in Game, NEW n \in Slug, NEW s \in BOOLEAN, ImportGame(g, n, s) PROVE PlaceInv'
  <2>1. /\ imports \in Nat /\ imports' = imports + 1 /\ cur' = imports + 1 /\ cur' \in Import
        /\ cur' \notin stages /\ stages' = stages \cup {cur'}
    BY <1>a, <1>5 DEF ImportGame, TypeOK
  <2>2. BornInv'
    <3>1. /\ slugOf' = [slugOf EXCEPT ![cur'] = n] /\ UNCHANGED <<receipt, backup, pending>>
          /\ fresh' = [fresh EXCEPT ![cur'] = IF s THEN Kind ELSE {"cover"}]
      BY <1>5, <2>1 DEF ImportGame
    <3>2. \A i \in Import : i <= imports' => slugOf'[i] \in Slug
      BY <1>a, <2>1, <3>1 DEF TypeOK
    <3>3. \A i \in stages' : i <= imports'
      BY <1>a, <2>1 DEF TypeOK
    <3>4. \A i \in Import \ stages' : fresh'[i] = {} /\ \A k \in Kind : backup'[i][k] = None
      BY <1>a, <2>1, <3>1 DEF TypeOK
    <3>5. \A h \in Game : receipt'[h] <= imports'
      BY <1>a, <2>1, <3>1 DEF TypeOK, Files
    <3>6. pending' \subseteq stages' \ {cur'}
      BY <1>a, <2>1, <3>1
    <3> QED
      BY <3>2, <3>3, <3>4, <3>5, <3>6
  <2>3. /\ pc = "serving" /\ pc' = "prepare" /\ ctx' = "import" /\ game' = {g}
        /\ UNCHANGED <<durable, backup, at, touched, failed, pending, errors, crashes, faults>>
    BY <1>5 DEF ImportGame
  <2>4. at = "cover" /\ cur' \notin durable /\ \A k \in Kind : backup[cur'][k] = None
    BY <1>a, <2>1, <2>3 DEF TypeOK
  <2>5. ProcessInv'
    BY <1>5, <2>1, <2>3, <2>4
  <2>6. CleanInv'
    BY <2>3
  <2>7. UndisturbedInv'
    <3>1. crowded' = crowded \cup {j \in {cur'} : \E i \in stages : slugOf[i] = n}
      BY <1>5 DEF ImportGame
    <3>2. faults' = 0 => stages = {} /\ crowded = {}
      BY <1>a, <2>3
    <3>3. faults' = 0 => stages' = {cur'} /\ crowded' = {}
      BY <2>1, <3>1, <3>2
    <3> QED
      BY <2>3, <3>3
  <2> QED
    BY <2>2, <2>5, <2>6, <2>7
<1>6. CASE WriteManifest
  BY <1>a, <1>b, <1>6 DEF WriteManifest, GoTo
<1>7. CASE PrepareFails
  <2>1. /\ stages' \in {stages, stages \ {cur}} /\ pc = "prepare" /\ ctx = "import"
        /\ pc' = "serving" /\ ctx' = "startup" /\ cur' = None /\ at' = "cover" /\ touched' = {}
        /\ failed' = {} /\ faults' = faults + 1
        /\ UNCHANGED <<imports, slugOf, receipt, backup, pending, crashes>>
    BY <1>a, <1>7 DEF PrepareFails, Fault, Return, Forget
  <2>2. pending' \subseteq stages' \ {cur'} /\ cur \in Import
    BY <1>a, <1>b, <2>1 DEF TypeOK
  <2>3. \A i \in Import \ stages' : fresh'[i] = {} /\ \A k \in Kind : backup[i][k] = None
    <3>1. CASE stages' = stages \ {cur} /\ fresh' = [fresh EXCEPT ![cur] = {}]
      <4>1. \A k \in Kind : backup[cur][k] = None
        BY <1>a, <1>b, <2>1
      <4> QED
        BY <1>a, <2>2, <3>1, <4>1 DEF TypeOK
    <3>2. CASE UNCHANGED <<stages, fresh>>
      BY <1>a, <3>2
    <3> QED
      BY <1>7, <3>1, <3>2 DEF PrepareFails
  <2>4. BornInv'
    BY <1>a, <2>1, <2>2, <2>3
  <2> QED
    BY <1>a, <1>c, <2>1, <2>4
<1>8. CASE BackUp
  <2>1. \A i \in Import \ stages : \A k \in Kind : backup'[i][k] = None
    <3>1. cur \in stages /\ backup \in [Import -> [Kind -> Files]]
      BY <1>a, <1>b, <1>8 DEF BackUp, TypeOK
    <3>2. \A i \in Import \ {cur} : backup'[i] = backup[i]
      BY <1>8, <3>1 DEF BackUp
    <3>3. \A i \in Import \ stages : backup'[i] = backup[i] /\ \A k \in Kind : backup[i][k] = None
      BY <1>a, <3>1, <3>2
    <3> QED
      BY <3>3
  <2> QED
    BY <1>a, <1>b, <1>8, <2>1 DEF BackUp
<1>9. CASE Install
  <2>1. \A i \in Import \ stages : fresh'[i] = {}
    BY <1>a, <1>b, <1>9 DEF Install, TypeOK
  <2> QED
    BY <1>a, <1>b, <1>9, <2>1 DEF Install
<1>10. CASE ImportFails
  BY <1>a, <1>b, <1>c, <1>10 DEF ImportFails, BeginRollback, Fault
<1>11. ASSUME NEW g \in Game, Record(g), cur \in Import, cur <= imports
       PROVE  receipt'[g] = cur /\ \A h \in Game : receipt'[h] <= imports
  BY <1>a, <1>11 DEF Record, TypeOK
<1>12. CASE Commit
  <2>1. /\ \E g \in Game : receipt'[g] = cur
        /\ \A h \in Game : receipt'[h] <= imports
    BY <1>a, <1>b, <1>11, <1>12 DEF Commit, TypeOK
  <2>2. UNCHANGED <<volume, packages, ctx, cur, game, at, touched, failed, pending, errors, crashes, faults>>
        /\ pc = "commit" /\ pc' = "remove"
    BY <1>12 DEF Commit
  <2> QED
    BY <1>a, <1>b, <2>1, <2>2
<1>13. CASE CommitFails
  <2>1. \A h \in Game : receipt'[h] <= imports
    BY <1>a, <1>b, <1>11, <1>13 DEF CommitFails, TypeOK
  <2>2. /\ UNCHANGED <<volume, packages, ctx, cur, game, at, touched, failed, pending, errors, crashes>>
        /\ pc = "commit" /\ pc' = "query" /\ faults' = faults + 1
    BY <1>13 DEF CommitFails, GoTo, Fault
  <2> QED
    BY <1>a, <1>b, <1>c, <2>1, <2>2
<1>14. CASE QueryReceipt
  BY <1>a, <1>b, <1>c, <1>14 DEF QueryReceipt, BeginRollback
<1>15. CASE QueryFails
  <2>1. /\ pc = "query" /\ pc' = "serving" /\ ctx' = "startup" /\ cur' = None /\ at' = "cover" /\ touched' = {}
        /\ failed' = {} /\ faults' = faults + 1
        /\ UNCHANGED <<database, volume, packages, pending, errors, crashes>>
    BY <1>15 DEF QueryFails, Fault, Return, Forget
  <2>2. pending' \subseteq stages' \ {cur'}
    BY <1>a, <1>b, <2>1 DEF TypeOK
  <2> QED
    BY <1>a, <1>c, <2>1, <2>2
<1>16. CASE ReadBackFails
  BY <1>a, <1>b, <1>c, <1>16 DEF ReadBackFails, Fault
<1>17. CASE UndoTarget
  BY <1>a, <1>b, <1>c, <1>17 DEF UndoTarget, NextItem
<1>18. CASE DiscardNew
  BY <1>a, <1>b, <1>c, <1>18 DEF DiscardNew, GoTo, TypeOK
<1>19. CASE RestoreBackup
  <2>1. \A i \in Import \ stages : \A k \in Kind : backup'[i][k] = None
    BY <1>a, <1>b, <1>19 DEF RestoreBackup, TypeOK
  <2>2. /\ pc = "restore" /\ pc' \in {"undo", "undone"}
        /\ UNCHANGED <<database, stages, durable, fresh, packages, ctx, cur, game,
                       pending, errors, crashes, faults>>
    BY <1>19 DEF RestoreBackup, NextItem
  <2> QED
    BY <1>a, <1>b, <1>c, <2>1, <2>2
<1>20. CASE RollbackStepFails
  BY <1>a, <1>b, <1>c, <1>20 DEF RollbackStepFails, Fault, NextItem
<1>21. ASSUME NEW E \in BOOLEAN, StageDone(E), pc \notin AtRest, pc \notin Forward,
              UNCHANGED <<database, fresh, backup, packages, crashes>>, faults' \in {faults, faults + 1},
              \/ /\ UNCHANGED stages /\ (E \/ ctx = "import") /\ crashes + faults' > 0
                 /\ ctx = "import" => faults' > 0
              \/ /\ stages' = stages \ {cur}
                 /\ fresh[cur] = {} /\ \A k \in Kind : backup[cur][k] = None
       PROVE  PlaceInv'
  <2>1. /\ cur' = None /\ game' = {} /\ at' = "cover" /\ touched' = {} /\ failed' = {}
        /\ pending' = pending /\ ctx' = "startup" /\ pc' \in {"serving", "recover"}
        /\ ctx = "import" => pc' = "serving"
        /\ ctx = "startup" => pc' = "recover" /\ (~errors' => ~errors /\ ~E)
        /\ ctx \in {"startup", "import"}
    BY <1>a, <1>21, StageDoneFacts DEF TypeOK
  <2>2. BornInv'
    <3>1. UNCHANGED <<slugOf, imports, receipt>> /\ stages' \subseteq stages
      BY <1>21
    <3>2. \A i \in Import \ stages' : fresh'[i] = {} /\ \A k \in Kind : backup'[i][k] = None
      BY <1>a, <1>21
    <3>3. pending' \subseteq stages' \ {cur'}
      <4>1. /\ pending' = pending /\ cur' = None /\ pending \subseteq stages \ {cur}
            /\ stages \ {cur} \subseteq stages'
        BY <1>a, <1>21, <2>1
      <4>2. None \notin stages
        BY <1>a DEF TypeOK
      <4> QED
        BY <4>1, <4>2
    <3> QED
      BY <1>a, <3>1, <3>2, <3>3
  <2>3. ProcessInv'
    BY <2>1
  <2>4. CleanInv'
    <3>1. CASE ctx = "import" \/ E
      BY <2>1, <3>1
    <3>2. CASE ctx = "startup" /\ ~E
      <4>1. stages' = stages \ {cur} /\ pc \in Undoing \cup {"remove"}
        BY <1>a, <1>21, <3>2 DEF TypeOK
      <4>2. ~errors => stages \subseteq pending \cup {cur}
        BY <1>a, <3>2, <4>1
      <4> QED
        BY <2>1, <3>2, <4>1, <4>2
    <3> QED
      BY <2>1, <3>1, <3>2
  <2>5. UndisturbedInv'
    <3>0. crashes' = crashes /\ faults' \in {faults, faults + 1} /\ crowded' = crowded
      BY <1>21
    <3>1. ASSUME faults' = 0 PROVE faults = 0
      BY <1>c, <3>0, <3>1
    <3>2. ASSUME ctx = "import", faults' = 0 PROVE stages' = {}
      <4>1. stages = {cur}
        BY <1>a, <3>1, <3>2
      <4> QED
        BY <1>21, <3>2, <4>1
    <3>3. ASSUME crashes' + faults' = 0 PROVE crashes + faults = 0 /\ faults' = 0
      <4>1. faults' \in Nat
        BY <1>c, <3>0
      <4>2. crashes = 0 /\ faults' = 0
        <5>1. crashes + faults' = 0
          BY Zenon, <3>0, <3>3
        <5> QED
          BY ZenonT(40), <1>c, <4>1, <5>1, NoneAtAll
      <4>3. faults = 0
        BY <3>1, <4>2
      <4> QED
        BY <4>2, <4>3
    <3>4. crashes + faults = 0 => ctx = "import"
      BY <1>a, <1>21, <2>1
    <3> QED
      BY <1>a, <2>1, <3>0, <3>1, <3>2, <3>3, <3>4
  <2> QED
    BY <2>2, <2>3, <2>4, <2>5
<1>22. CASE RollbackDone
  <2>1. pc = "undone" /\ UNCHANGED <<database, volume, packages, crashes, faults>>
    BY <1>22 DEF RollbackDone
  <2>2. CASE "reported" \in failed
    <3>0. pc \in Undoing /\ pc \notin AtRest /\ faults' = faults /\ ctx \in {"startup", "import"}
      BY <1>a, <2>1 DEF TypeOK
    <3>3. ctx = "import" => faults # 0
      BY <1>a, <3>0
    <3>4. ctx = "startup" => crashes + faults # 0
      BY <1>a, <3>0
    <3>1. crashes + faults' > 0 /\ faults' = faults /\ (ctx = "import" => faults' > 0)
      BY <1>c, <3>0, <3>3, <3>4
    <3>2. StageDone(TRUE)
      BY <1>22, <2>2 DEF RollbackDone
    <3> QED
      BY <1>21, <2>1, <3>1, <3>2
  <2>3. CASE "reported" \notin failed
    BY <1>a, <1>b, <1>c, <1>22, <2>3 DEF RollbackDone, GoTo
  <2> QED
    BY <2>2, <2>3
<1>23. CASE RemoveManifest
  BY <1>a, <1>b, <1>c, <1>23 DEF RemoveManifest
<1>24. CASE RemoveNew
  BY <1>a, <1>b, <1>c, <1>24 DEF RemoveNew, TypeOK
<1>25. CASE RemoveBackup
  BY <1>a, <1>b, <1>c, <1>25 DEF RemoveBackup, TypeOK
<1>26. CASE RemoveStageDir
  <2>1. /\ pc = "remove" /\ StageDone(FALSE) /\ stages' = stages \ {cur}
        /\ fresh[cur] = {} /\ \A k \in Kind : backup[cur][k] = None
        /\ UNCHANGED <<database, fresh, backup, packages, crashes, faults>>
    BY <1>26 DEF RemoveStageDir
  <2> QED
    BY <1>21, <2>1
<1>27. CASE RemoveFails
  <2>1. pc = "remove" /\ StageDone(TRUE) /\ UNCHANGED <<database, volume, packages, crashes>>
    BY <1>27 DEF RemoveFails
  <2>2. faults' = faults + 1
    BY <1>27 DEF RemoveFails, Fault
  <2>3. crashes + faults' > 0 /\ faults' > 0
    BY <1>c, <2>2
  <2> QED
    BY <1>a, <1>21, <2>1, <2>2, <2>3
<1>28. ASSUME NEW i \in Import, RecoverStage(i) PROVE PlaceInv'
  BY <1>a, <1>b, <1>c, <1>28 DEF RecoverStage, BeginRollback
<1>29. ASSUME NEW i \in Import, RecoverStageFails(i) PROVE PlaceInv'
  BY <1>a, <1>b, <1>c, <1>29 DEF RecoverStageFails, Fault
<1>30. CASE RecoveryDone
  BY <1>a, <1>b, <1>30 DEF RecoveryDone, GoTo
<1>31. CASE UNCHANGED vars
  BY <1>a, <1>31 DEF vars
<1> QED
  BY <1>1, <1>2, <1>3, <1>4, <1>5, <1>6, <1>7, <1>8, <1>9, <1>10, <1>12, <1>13, <1>14, <1>15,
     <1>16, <1>17, <1>18, <1>19, <1>20, <1>22, <1>23, <1>24, <1>25, <1>26, <1>27, <1>28,
     <1>29, <1>30, <1>31, <1>32 DEF Next, Work, Fail, Request

\* An import moves forward by five actions.
LEMMA ForwardMoves ==
  ASSUME TypeOK, [Next]_vars, pc' \in Forward
  PROVE  \/ \E g \in Game, n \in Slug, s \in BOOLEAN : ImportGame(g, n, s)
         \/ WriteManifest \/ BackUp \/ Install \/ CommitFails \/ UNCHANGED vars
<1>1. ASSUME NEW E \in BOOLEAN, StageDone(E) PROVE FALSE
  BY <1>1, StageDoneFacts DEF Forward, TypeOK
<1>2. ~RollbackDone /\ ~RemoveStageDir /\ ~RemoveFails
  BY <1>1 DEF RollbackDone, RemoveStageDir, RemoveFails, GoTo, Forward
<1>3. /\ ~Start /\ ~Stop /\ ~Crash /\ ~PrepareFails /\ ~QueryFails /\ ~ImportFails /\ ~Commit /\ ~QueryReceipt
      /\ ~ReadBackFails /\ ~RecoveryDone
  BY DEF Start, Stop, Crash, PrepareFails, QueryFails, ImportFails, Commit, QueryReceipt, ReadBackFails,
         RecoveryDone, Return, GoTo, BeginRollback, Forward
<1>4. ~UndoTarget /\ ~DiscardNew /\ ~RestoreBackup /\ ~RollbackStepFails
  BY DEF UndoTarget, DiscardNew, RestoreBackup, RollbackStepFails, NextItem, GoTo, Forward
<1>5. ~RemoveManifest /\ ~RemoveNew /\ ~RemoveBackup
  BY DEF RemoveManifest, RemoveNew, RemoveBackup, process, Forward
<1>6. \A i \in Import : ~RecoverStage(i) /\ ~RecoverStageFails(i)
  BY DEF RecoverStage, RecoverStageFails, BeginRollback, Forward
<1>7. \A g \in Game, n \in Slug : \A K \in SUBSET Kind : ~SaveGame(g, n, K)
  BY DEF SaveGame, process, Forward
<1>8. \A g \in Game : \A N \in SUBSET Target : ~DeleteGame(g, N)
  BY DEF DeleteGame, process, Forward
<1> QED
  BY Zenon, <1>2, <1>3, <1>4, <1>5, <1>6, <1>7, <1>8 DEF Next, Work, Fail, Request

LEMMA ForwardStep == ASSUME StateInv, ForwardInv, [Next]_vars PROVE ForwardInv'
<1>0. SUFFICES ASSUME pc' \in Forward PROVE ForwardInv'
  BY <1>0 DEF ForwardInv
<1>a. TypeOK /\ BornInv /\ ProcessInv
  BY DEF StateInv
<1>b. pc \notin AtRest => /\ cur \in Import /\ cur \in stages /\ cur # None /\ slugOf[cur] \in Slug
                          /\ \A k \in Kind : TargetOf(cur, k) \in Target
  BY <1>a, InFlight
<1>1. ASSUME NEW g \in Game, NEW n \in Slug, NEW s \in BOOLEAN, ImportGame(g, n, s) PROVE ForwardInv'
  <2>0. imports \in Nat /\ cur' = imports + 1 /\ imports < MaxImports /\ touched = {} /\ failed = {}
    BY <1>a, <1>1 DEF ImportGame, TypeOK, ProcessInv, AtRest
  <2>1. cur' \in Import /\ cur' \notin stages
    <3>1. cur' \in Import
      BY <2>0, SetFacts
    <3>2. cur' \notin stages
      BY <1>a, <2>0 DEF BornInv
    <3> QED
      BY <3>1, <3>2
  <2>2. /\ UNCHANGED <<tracked, receipt, contents, backup, touched, failed>> /\ before' = contents
        /\ pc' = "prepare" /\ game' = {g} /\ ~Shared(g, n)
    BY <1>1 DEF ImportGame, database
  <2>3. slugOf'[cur'] = n /\ static'[cur'] = s /\ fresh'[cur'] = IF s THEN Kind ELSE {"cover"}
    BY <1>a, <1>1, <2>1 DEF ImportGame, TypeOK
  <2>4. Waiting("cover")' /\ Waiting("bundle")'
    <3>1. backup[cur']["cover"] = None /\ backup[cur']["bundle"] = None
      BY <1>a, <2>1 DEF BornInv, Kind
    <3> QED
      BY <2>0, <2>2, <2>3, <3>1 DEF Waiting, TargetOf, HasNew, Kind
  <2>5. \A h \in Game : receipt[h] # cur'
    BY <1>a, <2>0, SetFacts DEF TypeOK, BornInv, Files
  <2>6. \A h \in game' : ~Shared(h, slugOf[cur])'
    BY <2>2, <2>3 DEF Shared
  <2> QED
    BY <2>0, <2>2, <2>4, <2>5, <2>6 DEF ForwardInv, CoverAhead, BundleAhead, CoverDone
<1>2. CASE WriteManifest
  <2>1. /\ pc = "prepare" /\ pc' = "backup" /\ durable' = durable \cup {cur} /\ at = "cover"
        /\ UNCHANGED <<database, contents, stages, fresh, backup, packages, ctx, cur, game, at,
                       touched, failed, before>>
    BY <1>a, <1>2 DEF WriteManifest, GoTo, ProcessInv
  <2> QED
    BY <2>1 DEF ForwardInv, Forward, CoverAhead, BundleAhead, CoverDone, Waiting, TargetOf, HasNew,
                Shared, database, packages
<1>3. CASE BackUp
  <2>1. /\ pc = "backup" /\ pc' = "install" /\ at \in Kind /\ cur \in Import
        /\ UNCHANGED <<database, stages, durable, fresh, packages, cur, game, at, failed, before>>
        /\ slugOf[cur] \in Slug /\ \A k \in Kind : TargetOf(cur, k) \in Target
    BY <1>a, <1>b, <1>3 DEF BackUp, TypeOK, AtRest
  <2>2. Waiting(at)
    BY <2>1 DEF ForwardInv, Forward, CoverAhead, BundleAhead, Kind
  <2>3. /\ Moved(at)'
        /\ \A x \in Target \ {TargetOf(cur, at)} : contents'[x] = contents[x]
        /\ \A k \in Kind \ {at} : backup'[cur][k] = backup[cur][k] /\ (k \in touched' <=> k \in touched)
    <3>1. CASE contents[TargetOf(cur, at)] = None
      <4>1. UNCHANGED <<contents, backup, touched>>
        BY <1>3, <3>1 DEF BackUp
      <4> QED
        BY <2>1, <2>2, <3>1, <4>1 DEF Moved, Waiting, TargetOf, HasNew, packages
    <3>2. CASE contents[TargetOf(cur, at)] # None
      <4>1. /\ backup' = [backup EXCEPT ![cur][at] = contents[TargetOf(cur, at)]]
            /\ contents' = [contents EXCEPT ![TargetOf(cur, at)] = None]
            /\ touched' = touched \cup {at}
        BY <1>3, <3>2 DEF BackUp
      <4>2. /\ backup'[cur][at] = contents[TargetOf(cur, at)]
            /\ \A k \in Kind \ {at} : backup'[cur][k] = backup[cur][k]
            /\ contents'[TargetOf(cur, at)] = None
            /\ \A x \in Target \ {TargetOf(cur, at)} : contents'[x] = contents[x]
        BY <1>a, <2>1, <4>1 DEF TypeOK
      <4> QED
        BY <2>1, <2>2, <3>2, <4>1, <4>2 DEF Moved, Waiting, TargetOf, HasNew, packages
    <3> QED
      BY <3>1, <3>2
  <2>4. \A k \in Kind \ {at} : (Waiting(k) => Waiting(k)') /\ (Swapped(k) => Swapped(k)')
    <3>1. \A k \in Kind \ {at} : contents'[TargetOf(cur, k)] = contents[TargetOf(cur, k)]
      BY <2>1, <2>3 DEF TargetOf
    <3> QED
      BY <2>1, <2>3, <3>1 DEF Waiting, Swapped, TargetOf, HasNew, packages
  <2>5. \A n \in Slug, k \in Kind : n # slugOf[cur] => contents'[<<n, k>>] = contents[<<n, k>>]
    BY <2>1, <2>3 DEF TargetOf, Target
  <2>6. /\ failed = {} /\ cur \in durable
        /\ \A n \in Slug, k \in Kind : n # slugOf[cur] => contents[<<n, k>>] = before[<<n, k>>]
        /\ \A g \in Game : receipt[g] # cur
        /\ \A g \in game : ~Shared(g, slugOf[cur])
        /\ at = "cover" => Waiting("bundle")
        /\ at = "bundle" => Swapped("cover")
    BY <2>1 DEF ForwardInv, Forward, BundleAhead, CoverDone
  <2>7. /\ at = "cover" => Waiting("bundle")'
        /\ at = "bundle" => Swapped("cover")'
    BY <2>4, <2>6 DEF Kind
  <2> QED
    BY <2>1, <2>3, <2>5, <2>6, <2>7
       DEF ForwardInv, CoverAhead, BundleAhead, CoverDone, Shared, database, packages, Kind
<1>4. CASE Install
  <2>1. /\ pc = "install" /\ pc' = (IF at = "cover" THEN "backup" ELSE "commit") /\ at' = "bundle"
        /\ at \in Kind /\ cur \in Import /\ slugOf[cur] \in Slug
        /\ UNCHANGED <<database, stages, durable, backup, packages, cur, game, failed, before>>
        /\ \A k \in Kind : TargetOf(cur, k) \in Target
    BY <1>a, <1>b, <1>4 DEF Install, TypeOK, AtRest
  <2>2. Moved(at)
    BY <2>1 DEF ForwardInv, Forward, Kind
  <2>3. /\ \A k \in Kind : k = at => Swapped(k)'
        /\ \A x \in Target \ {TargetOf(cur, at)} : contents'[x] = contents[x]
        /\ \A k \in Kind \ {at} : /\ k \in fresh'[cur] <=> k \in fresh[cur]
                                  /\ k \in touched' <=> k \in touched
    <3>1. CASE ~HasNew(cur, at)
      <4>1. UNCHANGED <<contents, fresh, touched>>
        BY <1>4, <3>1 DEF Install
      <4> QED
        BY <2>1, <2>2, <3>1, <4>1 DEF Moved, Swapped, TargetOf, HasNew, packages
    <3>2. CASE HasNew(cur, at)
      <4>1. /\ contents' = [contents EXCEPT ![TargetOf(cur, at)] = cur]
            /\ fresh' = [fresh EXCEPT ![cur] = fresh[cur] \ {at}]
            /\ touched' = touched \cup {at}
        BY <1>4, <3>2 DEF Install
      <4>2. /\ fresh'[cur] = fresh[cur] \ {at}
            /\ contents'[TargetOf(cur, at)] = cur
            /\ \A x \in Target \ {TargetOf(cur, at)} : contents'[x] = contents[x]
        BY <1>a, <2>1, <4>1 DEF TypeOK
      <4> QED
        BY <2>1, <2>2, <3>2, <4>1, <4>2 DEF Moved, Swapped, TargetOf, HasNew, packages
    <3> QED
      BY <3>1, <3>2
  <2>4. \A k \in Kind \ {at} : (Waiting(k) => Waiting(k)') /\ (Swapped(k) => Swapped(k)')
    <3>1. \A k \in Kind \ {at} : contents'[TargetOf(cur, k)] = contents[TargetOf(cur, k)]
      BY <2>1, <2>3 DEF TargetOf
    <3> QED
      BY <2>1, <2>3, <3>1 DEF Waiting, Swapped, TargetOf, HasNew, packages
  <2>5. \A n \in Slug, k \in Kind : n # slugOf[cur] => contents'[<<n, k>>] = contents[<<n, k>>]
    BY <2>1, <2>3 DEF TargetOf, Target
  <2>6. /\ failed = {} /\ cur \in durable
        /\ \A n \in Slug, k \in Kind : n # slugOf[cur] => contents[<<n, k>>] = before[<<n, k>>]
        /\ \A g \in Game : receipt[g] # cur
        /\ \A g \in game : ~Shared(g, slugOf[cur])
        /\ at = "cover" => Waiting("bundle")
        /\ at = "bundle" => Swapped("cover")
    BY <2>1 DEF ForwardInv, Forward, BundleAhead, CoverDone
  <2>7. /\ at = "cover" => Waiting("bundle")' /\ Swapped("cover")'
        /\ at = "bundle" => Swapped("cover")' /\ Swapped("bundle")'
    BY <2>3, <2>4, <2>6 DEF Kind
  <2> QED
    BY <2>1, <2>5, <2>6, <2>7
       DEF ForwardInv, CoverAhead, BundleAhead, CoverDone, Shared, database, packages, Kind
<1>5. CASE CommitFails
  <2>1. /\ pc = "commit" /\ pc' = "query" /\ cur \in Import
        /\ UNCHANGED <<volume, packages, cur, game, at, touched, failed, before>>
    BY <1>b, <1>5 DEF CommitFails, GoTo, AtRest
  <2>2. PICK g \in Game : game = {g}
    BY <1>a, <2>1 DEF ProcessInv, Forward
  <2>3. /\ \A h \in Game : receipt[h] # cur
        /\ ~Shared(g, slugOf[cur])
    BY <2>1, <2>2 DEF ForwardInv, Forward
  <2>4. \A h \in Game \ {g} : receipt'[h] = receipt[h] /\ tracked'[h] = tracked[h]
    BY <1>a, <1>5, <2>2 DEF CommitFails, Record, TypeOK, database
  <2>5. /\ \A h \in Game : receipt'[h] = cur => h \in game
        /\ \A h \in game : ~Shared(h, slugOf[cur])'
    BY <2>1, <2>2, <2>3, <2>4 DEF Shared, packages
  <2>6. /\ failed = {} /\ cur \in durable
        /\ \A n \in Slug, k \in Kind : n # slugOf[cur] => contents[<<n, k>>] = before[<<n, k>>]
        /\ Swapped("cover") /\ Swapped("bundle")
    BY <2>1 DEF ForwardInv, Forward, CoverDone
  <2>7. Swapped("cover")' /\ Swapped("bundle")'
    BY <2>1, <2>6 DEF Swapped, TargetOf, HasNew, volume, packages
  <2> QED
    BY <2>1, <2>5, <2>6, <2>7 DEF ForwardInv, CoverAhead, BundleAhead, CoverDone, volume, packages
<1>6. CASE UNCHANGED vars
  BY <1>6 DEF ForwardInv, Forward, CoverAhead, BundleAhead, CoverDone, Waiting, Moved, Swapped,
              TargetOf, HasNew, Shared, vars, database, volume, packages, process
<1> QED
  BY <1>a, <1>0, <1>1, <1>2, <1>3, <1>4, <1>5, <1>6, ForwardMoves

----------------------------------------------------------------------------
(* What a rollback will leave                                              *)

LEMMA UndoneAt ==
  ASSUME NEW c, NEW b, NEW n, NEW T, NEW K, NEW m \in Slug, NEW k \in Kind
  PROVE  Undone(c, b, n, T, K)[<<m, k>>] = IF m = n /\ k \in T \cap K THEN b[k] ELSE c[<<m, k>>]
<1>1. <<m, k>> \in Target
  BY DEF Target
<1> QED
  BY <1>1 DEF Undone

LEMMA UndoneIs ==
  ASSUME NEW c, NEW b, NEW n, NEW T, NEW K, NEW d \in [Target -> Files],
         \A m \in Slug, k \in Kind :
           d[<<m, k>>] = IF m = n /\ k \in T \cap K THEN b[k] ELSE c[<<m, k>>]
  PROVE  Undone(c, b, n, T, K) = d
<1>1. \A x \in Target : Undone(c, b, n, T, K)[x] = d[x]
  <2>1. TAKE x \in Target
  <2>2. PICK m \in Slug, k \in Kind : x = <<m, k>>
    BY DEF Target
  <2> QED
    BY <2>2, UndoneAt
<1>2. Undone(c, b, n, T, K) = [x \in Target |-> Undone(c, b, n, T, K)[x]]
  BY DEF Undone
<1>3. d = [x \in Target |-> d[x]]
  OBVIOUS
<1> QED
  BY <1>1, <1>2, <1>3

LEMMA UndoneNothing ==
  ASSUME NEW c \in [Target -> Files], NEW b, NEW n, NEW T
  PROVE  Undone(c, b, n, T, {}) = c
BY UndoneIs

\* Until the commit, undoing what is touched, or what a start takes for touched,
\* brings back what was there before.
LEMMA ForwardUndone ==
  ASSUME StateInv, ForwardInv, pc \in Forward
  PROVE  /\ Undone(contents, backup[cur], slugOf[cur], touched, Kind) = before
         /\ Found(cur) = before
         /\ pc = "prepare" => contents = before
<1>a. /\ TypeOK /\ BornInv /\ ProcessInv /\ before \in [Target -> Files] /\ contents \in [Target -> Files]
      /\ at \in Kind
  BY DEF StateInv, TypeOK
<1>b. cur # None /\ slugOf[cur] \in Slug
  BY <1>a, InFlight DEF AtRest, Forward
<1>1. \A k \in Kind : Waiting(k) \/ Moved(k) \/ Swapped(k)
  BY <1>a DEF ForwardInv, Forward, CoverAhead, BundleAhead, CoverDone, Kind
<1>2. \A n \in Slug, k \in Kind : n # slugOf[cur] => contents[<<n, k>>] = before[<<n, k>>]
  BY DEF ForwardInv
<1>3. \A m \in Slug, k \in Kind :
        /\ before[<<m, k>>] = IF m = slugOf[cur] /\ k \in touched \cap Kind
                              THEN backup[cur][k] ELSE contents[<<m, k>>]
        /\ before[<<m, k>>] = IF m = slugOf[cur] /\ k \in FoundTouched(cur) \cap Kind
                              THEN backup[cur][k] ELSE contents[<<m, k>>]
  <2>1. TAKE m \in Slug, k \in Kind
  <2>2. CASE m # slugOf[cur]
    BY <1>2, <2>2
  <2>3. CASE m = slugOf[cur] /\ Waiting(k)
    BY <2>3 DEF Waiting, FoundTouched, TargetOf
  <2>4. CASE m = slugOf[cur] /\ Moved(k)
    BY <2>4 DEF Moved, FoundTouched, TargetOf
  <2>5. CASE m = slugOf[cur] /\ Swapped(k)
    BY <1>b, <2>5 DEF Swapped, FoundTouched, TargetOf
  <2> QED
    BY <1>1, <2>2, <2>3, <2>4, <2>5
<1>4. Undone(contents, backup[cur], slugOf[cur], touched, Kind) = before
  BY <1>a, <1>3, UndoneIs
<1>5. Found(cur) = before
  BY <1>a, <1>3, UndoneIs DEF Found
<1>6. ASSUME pc = "prepare" PROVE contents = before
  <2>1. Waiting("cover") /\ Waiting("bundle")
    BY <1>6 DEF ForwardInv, Forward, CoverAhead, BundleAhead
  <2>2. \A m \in Slug, k \in Kind : contents[<<m, k>>] = before[<<m, k>>]
    BY <1>2, <2>1 DEF Waiting, TargetOf, Kind
  <2> QED
    BY <1>a, <2>2 DEF Target
<1> QED
  BY <1>4, <1>5, <1>6

\* A rollback that has met no error keeps its promise.
LEMMA RollbackKeeps ==
  ASSUME StateInv, UndoInv, failed = {}, UndoTarget \/ DiscardNew \/ RestoreBackup
  PROVE  Outlook' = Outlook /\ failed' = {} /\ UNCHANGED before
<1>a. TypeOK /\ BornInv /\ ProcessInv /\ at \in Kind
  BY DEF StateInv, TypeOK
<1>b. cur \in Import /\ slugOf[cur] \in Slug /\ TargetOf(cur, at) \in Target
  BY <1>a, InFlight DEF AtRest, UndoTarget, DiscardNew, RestoreBackup
<1>c. contents \in [Target -> Files] /\ Outlook \in [Target -> Files]
  BY <1>a, <1>b DEF TypeOK, Outlook, Undone, Target
<1>1. SUFFICES
        /\ failed' = {} /\ UNCHANGED <<before, cur, slugOf, touched>>
        /\ \A m \in Slug, k \in Kind :
             Outlook[<<m, k>>] = IF m = slugOf[cur] /\ k \in touched \cap Left'
                                 THEN backup'[cur][k] ELSE contents'[<<m, k>>]
  BY <1>c, UndoneIs DEF Outlook
<1>2. \A m \in Slug, k \in Kind :
        Outlook[<<m, k>>] = IF m = slugOf[cur] /\ k \in touched \cap Left
                            THEN backup[cur][k] ELSE contents[<<m, k>>]
  <2>1. TAKE m \in Slug, k \in Kind
  <2>2. Undone(contents, backup[cur], slugOf[cur], touched, Left)[<<m, k>>]
          = IF m = slugOf[cur] /\ k \in touched \cap Left THEN backup[cur][k] ELSE contents[<<m, k>>]
    BY UndoneAt
  <2> QED
    BY <2>2 DEF Outlook
<1>3. CASE UndoTarget
  <2>1. CASE at \in touched
    <3>1. /\ \A m \in Slug, k \in Kind :
               contents'[<<m, k>>] = IF m = slugOf[cur] /\ k = at THEN None ELSE contents[<<m, k>>]
          /\ Left' = Left /\ at \in Left
          /\ UNCHANGED <<failed, before, cur, slugOf, touched, backup>>
      BY <1>a, <1>b, <1>c, <1>3, <2>1 DEF UndoTarget, TargetOf, Target, Left, Kind, packages
    <3> QED
      BY <1>2, <2>1, <3>1
  <2>2. CASE at \notin touched
    <3>1. /\ UNCHANGED <<failed, before, cur, slugOf, touched, backup, contents>>
          /\ touched \cap Left' = touched \cap Left
      BY <1>a, <1>3, <2>2 DEF UndoTarget, NextItem, Left, Kind, packages
    <3> QED
      BY <1>2, <3>1
  <2> QED
    BY <2>1, <2>2
<1>4. CASE DiscardNew
  BY <1>2, <1>4 DEF DiscardNew, GoTo, Left, packages
<1>5. CASE RestoreBackup
  <2>1. at \in touched /\ contents[TargetOf(cur, at)] = None
    BY <1>5 DEF UndoInv, Undoing, RestoreBackup
  <2>2. /\ Left' = Left \ {at} /\ UNCHANGED <<before, cur, slugOf, touched>>
    BY <1>a, <1>5 DEF RestoreBackup, NextItem, Left, Kind, packages
  <2>3. /\ backup'[cur][at] = None /\ contents'[TargetOf(cur, at)] = backup[cur][at]
        /\ \A k \in Kind \ {at} : backup'[cur][k] = backup[cur][k]
        /\ \A x \in Target \ {TargetOf(cur, at)} : contents'[x] = contents[x]
    <3>1. CASE backup[cur][at] = None
      BY <1>5, <2>1, <3>1 DEF RestoreBackup
    <3>2. CASE backup[cur][at] # None
      <4>1. /\ contents' = [contents EXCEPT ![TargetOf(cur, at)] = backup[cur][at]]
            /\ backup' = [backup EXCEPT ![cur][at] = None]
        BY <1>5, <2>1, <3>2 DEF RestoreBackup
      <4> QED
        BY <1>a, <1>b, <1>c, <4>1 DEF TypeOK
    <3> QED
      BY <3>1, <3>2
  <2>4. failed' = {}
    BY <1>5, <2>3 DEF RestoreBackup
  <2>5. at \in Left
    BY <1>a, <1>5 DEF RestoreBackup, Left, Kind
  <2>6. \A m \in Slug, k \in Kind :
          contents'[<<m, k>>] = IF m = slugOf[cur] /\ k = at THEN backup[cur][at] ELSE contents[<<m, k>>]
    BY <1>a, <1>b, <2>3 DEF TargetOf, Target
  <2> QED
    BY <1>2, <2>1, <2>2, <2>3, <2>4, <2>5, <2>6
<1> QED
  BY <1>3, <1>4, <1>5

\* A rollback is begun by three actions and goes on by four.
LEMMA UndoMoves ==
  ASSUME TypeOK, [Next]_vars, pc' \in Undoing
  PROVE  \/ ImportFails \/ QueryReceipt \/ UndoTarget \/ DiscardNew \/ RestoreBackup
         \/ RollbackStepFails \/ UNCHANGED vars
         \/ \E i \in Import : RecoverStage(i)
<1>1. ASSUME NEW E \in BOOLEAN, StageDone(E) PROVE FALSE
  BY <1>1, StageDoneFacts DEF Undoing, TypeOK
<1>2. ~RollbackDone /\ ~RemoveStageDir /\ ~RemoveFails
  BY <1>1 DEF RollbackDone, RemoveStageDir, RemoveFails, GoTo, Undoing
<1>3. /\ ~Start /\ ~Stop /\ ~Crash /\ ~PrepareFails /\ ~QueryFails /\ ~Commit /\ ~CommitFails
      /\ ~ReadBackFails /\ ~RecoveryDone
  BY DEF Start, Stop, Crash, PrepareFails, QueryFails, CommitFails, Commit, ReadBackFails,
         RecoveryDone, Return, GoTo, Undoing
<1>4. ~WriteManifest /\ ~BackUp /\ ~Install
  BY DEF WriteManifest, BackUp, Install, GoTo, Undoing
<1>5. ~RemoveManifest /\ ~RemoveNew /\ ~RemoveBackup
  BY DEF RemoveManifest, RemoveNew, RemoveBackup, process, Undoing
<1>6. \A i \in Import : ~RecoverStageFails(i)
  BY DEF RecoverStageFails, Undoing
<1>7. \A g \in Game, n \in Slug : \A K \in SUBSET Kind : ~SaveGame(g, n, K)
  BY DEF SaveGame, process, Undoing
<1>8. \A g \in Game : \A N \in SUBSET Target : ~DeleteGame(g, N)
  BY DEF DeleteGame, process, Undoing
<1>9. \A g \in Game, n \in Slug, s \in BOOLEAN : ~ImportGame(g, n, s)
  BY DEF ImportGame, Undoing
<1> QED
  BY Zenon, <1>2, <1>3, <1>4, <1>5, <1>6, <1>7, <1>8, <1>9 DEF Next, Work, Fail, Request

\* How each of the first three finds it.
LEMMA RollbackBegins ==
  ASSUME StateInv, ForwardInv, ImportFails \/ QueryReceipt, pc' = "undo"
  PROVE  /\ ~Committed(cur) /\ Outlook' = before /\ pc \in Forward /\ outcome' = "restored"
         /\ failed' = {} /\ UNCHANGED <<receipt, packages, before, ctx, cur, stages, errors, crashes>>
<1>1. /\ BeginRollback(cur, touched, "restored") /\ UNCHANGED <<database, volume, packages>>
      /\ UNCHANGED crashes /\ pc \in {"backup", "install", "commit", "query"}
      /\ pc = "query" => ~Committed(cur)
  BY DEF ImportFails, QueryReceipt
<1>2. pc \in Forward /\ ~Committed(cur)
  BY <1>1 DEF ForwardInv, Forward, Committed
<1>3. Outlook' = Undone(contents, backup[cur], slugOf[cur], touched, Kind)
  BY <1>1 DEF BeginRollback, Outlook, Left, volume, packages
<1> QED
  BY <1>1, <1>2, <1>3, ForwardUndone DEF BeginRollback, database, volume, packages

LEMMA RecoveryBegins ==
  ASSUME NEW i \in Import, RecoverStage(i), pc' = "undo", TypeOK, ProcessInv
  PROVE  /\ ToUndo(i) /\ cur' = i /\ failed' = {} /\ Outlook' = Found(i) /\ ctx' = "startup"
         /\ UNCHANGED <<database, volume, packages, errors, crashes, faults>>
<1>1. /\ i \in durable /\ ~Committed(i) /\ BeginRollback(i, FoundTouched(i), outcome)
      /\ UNCHANGED <<database, volume, packages, crashes, faults>> /\ ctx = "startup"
  BY DEF RecoverStage, ProcessInv, AtRest
<1> QED
  BY <1>1 DEF BeginRollback, Outlook, Found, Left, ToUndo, volume, packages

LEMMA UndoStep == ASSUME StateInv, ForwardInv, UndoInv, [Next]_vars PROVE UndoInv'
<1>0. SUFFICES ASSUME pc' \in Undoing PROVE UndoInv'
  BY <1>0 DEF UndoInv
<1>a. TypeOK /\ BornInv /\ ProcessInv /\ at \in Kind
  BY DEF StateInv, TypeOK
<1>b. pc \notin AtRest => cur \in Import /\ TargetOf(cur, at) \in Target
  BY <1>a, InFlight
<1>1. CASE ImportFails \/ QueryReceipt
  <2>1. pc' = "undo"
    BY <1>0, <1>1 DEF ImportFails, QueryReceipt, BeginRollback, Undoing
  <2> QED
    BY <1>1, <2>1, RollbackBegins DEF UndoInv, Committed
<1>2. ASSUME NEW i \in Import, RecoverStage(i) PROVE UndoInv'
  <2>1. pc' = "undo"
    BY <1>0, <1>2 DEF RecoverStage, BeginRollback, Undoing
  <2> QED
    BY <1>a, <1>2, <2>1, RecoveryBegins DEF UndoInv, Committed, ToUndo, database
<1>3. CASE UndoTarget \/ DiscardNew \/ RestoreBackup
  <2>1. /\ pc \in Undoing /\ UNCHANGED <<database, ctx, cur, outcome, before, touched>>
        /\ failed' = {} => failed = {}
        /\ pc' # "undo" => pc' = "undone" \/ UNCHANGED at
    BY <1>3 DEF UndoTarget, DiscardNew, RestoreBackup, NextItem, GoTo, Undoing
  <2>2. pc' \in {"discard", "restore"} =>
          at \in touched /\ (failed' = {} => contents'[TargetOf(cur, at)] = None)
    BY <1>a, <1>b, <1>3 DEF UndoTarget, DiscardNew, RestoreBackup, NextItem, GoTo, UndoInv, Undoing,
                      AtRest, TypeOK
  <2>3. ctx = "import" => outcome = "restored" /\ (failed' = {} => Outlook' = before)
    BY <1>3, <2>1, RollbackKeeps DEF UndoInv
  <2>4. ~Committed(cur) /\ UNCHANGED slugOf
    BY <1>3, <2>1 DEF UndoInv, UndoTarget, DiscardNew, RestoreBackup, packages
  <2> QED
    BY <2>1, <2>2, <2>3, <2>4 DEF UndoInv, Committed, TargetOf, database
<1>4. CASE RollbackStepFails
  <2>1. /\ pc \in Undoing /\ UNCHANGED <<database, ctx, cur, outcome, touched>> /\ failed' # {}
    BY <1>4 DEF RollbackStepFails, Undoing
  <2>2. pc' \in {"discard", "restore"} => at' \in touched'
    BY <1>4 DEF RollbackStepFails, NextItem, UndoInv, Undoing
  <2> QED
    BY <2>1, <2>2 DEF UndoInv, Committed, database
<1>5. CASE UNCHANGED vars
  BY <1>5 DEF UndoInv, Undoing, Committed, TargetOf, Outlook, Undone, Left, vars, database, volume,
              packages, process
<1> QED
  BY <1>a, <1>0, <1>1, <1>2, <1>3, <1>4, <1>5, UndoMoves

----------------------------------------------------------------------------
(* What ImportGame will return                                             *)

LEMMA RemoveMoves ==
  ASSUME TypeOK, [Next]_vars, pc' = "remove"
  PROVE  \/ Commit \/ QueryReceipt \/ ReadBackFails \/ RollbackDone \/ RemoveManifest \/ RemoveNew
         \/ RemoveBackup \/ UNCHANGED vars \/ \E i \in Import : RecoverStage(i)
<1>1. ASSUME NEW E \in BOOLEAN, StageDone(E) PROVE FALSE
  BY <1>1, StageDoneFacts DEF TypeOK
<1>2. ~RemoveStageDir /\ ~RemoveFails
  BY <1>1 DEF RemoveStageDir, RemoveFails
<1>3. /\ ~Start /\ ~Stop /\ ~Crash /\ ~PrepareFails /\ ~QueryFails /\ ~CommitFails /\ ~ImportFails /\ ~RecoveryDone
  BY DEF Start, Stop, Crash, PrepareFails, QueryFails, CommitFails, ImportFails, BeginRollback,
         RecoveryDone, Return, GoTo
<1>4. /\ ~WriteManifest /\ ~BackUp /\ ~Install
      /\ ~UndoTarget /\ ~DiscardNew /\ ~RestoreBackup /\ ~RollbackStepFails
  BY DEF WriteManifest, BackUp, Install, GoTo, UndoTarget, DiscardNew, RestoreBackup,
         RollbackStepFails, NextItem
<1>6. \A i \in Import : ~RecoverStageFails(i)
  BY DEF RecoverStageFails
<1>7. \A g \in Game, n \in Slug : \A K \in SUBSET Kind : ~SaveGame(g, n, K)
  BY DEF SaveGame, process
<1>8. \A g \in Game : \A N \in SUBSET Target : ~DeleteGame(g, N)
  BY DEF DeleteGame, process
<1>9. \A g \in Game, n \in Slug, s \in BOOLEAN : ~ImportGame(g, n, s)
  BY DEF ImportGame
<1> QED
  BY Zenon, <1>2, <1>3, <1>4, <1>6, <1>7, <1>8, <1>9 DEF Next, Work, Fail, Request

\* What the rollback found and what it leaves, at its end.
LEMMA RollbackEnds ==
  ASSUME StateInv, pc = "undone" PROVE Outlook = contents
<1>1. contents \in [Target -> Files]
  BY DEF StateInv, TypeOK
<1> QED
  BY <1>1, UndoneNothing DEF Outlook, Left

LEMMA ResultStep ==
  ASSUME StateInv, ForwardInv, UndoInv, ResultInv, [Next]_vars PROVE ResultInv'
<1>0. SUFFICES ASSUME ctx' = "import", pc' = "remove" PROVE ResultInv'
  BY <1>0 DEF ResultInv
<1>a. TypeOK /\ BornInv /\ ProcessInv
  BY DEF StateInv
<1>1. CASE Commit
  <2>1. /\ pc = "commit" /\ outcome' = "ok" /\ UNCHANGED <<volume, packages, cur, game>>
    BY <1>1 DEF Commit
  <2>2. \E g \in game : receipt'[g] = cur
    BY <1>a, <1>1 DEF Commit, Record, TypeOK
  <2>3. Swapped("cover") /\ Swapped("bundle")
    BY <2>1 DEF ForwardInv, Forward, CoverDone
  <2> QED
    BY <2>1, <2>2, <2>3 DEF ResultInv, Swapped, TargetOf, HasNew, volume, packages, Kind
<1>2. CASE QueryReceipt
  <2>1. /\ pc = "query" /\ outcome' = "ok" /\ UNCHANGED <<database, volume, packages, cur, game>>
        /\ Committed(cur)
    BY <1>0, <1>2 DEF QueryReceipt, BeginRollback
  <2>2. Swapped("cover") /\ Swapped("bundle") /\ \E g \in game : receipt[g] = cur
    BY <2>1 DEF ForwardInv, Forward, CoverDone, Committed
  <2> QED
    BY <2>1, <2>2 DEF ResultInv, Swapped, TargetOf, HasNew, database, volume, packages, Kind
<1>3. CASE ReadBackFails
  <2>1. /\ pc = "remove" /\ outcome = "ok" /\ outcome' = "unread" /\ ctx = "import"
        /\ UNCHANGED <<database, volume, packages, cur, game>>
    BY <1>0, <1>3 DEF ReadBackFails
  <2> QED
    BY <2>1 DEF ResultInv, TargetOf, HasNew, database, volume, packages
<1>4. CASE RollbackDone
  <2>1. CASE "reported" \in failed
    BY <1>a, <1>0, <1>4, <2>1, StageDoneFacts DEF RollbackDone, TypeOK
  <2>2. CASE "reported" \notin failed
    <3>1. /\ pc = "undone" /\ ctx = "import" /\ ("unseen" \in failed \/ failed = {})
          /\ UNCHANGED <<database, volume, packages, cur, outcome, before, failed>>
      BY <1>a, <1>0, <1>4, <2>2 DEF RollbackDone, GoTo, TypeOK
    <3>2. ctx = "import" /\ ~Committed(cur) /\ outcome = "restored" /\ (failed = {} => contents = before)
      BY <1>0, <1>4, <2>2, <3>1, RollbackEnds DEF UndoInv, Undoing, RollbackDone, GoTo
    <3> QED
      BY <1>a, <1>0, <1>4, <2>2, <3>1, <3>2 DEF ResultInv, Committed, database, volume, TypeOK
  <2> QED
    BY <2>1, <2>2
<1>5. CASE RemoveManifest \/ RemoveNew \/ RemoveBackup \/ UNCHANGED vars
  <2>1. UNCHANGED <<database, contents, packages, process>>
    BY <1>5 DEF RemoveManifest, RemoveNew, RemoveBackup, vars, volume
  <2> QED
    BY <2>1 DEF ResultInv, Committed, TargetOf, HasNew, database, packages, process
<1>6. ASSUME NEW i \in Import, RecoverStage(i) PROVE FALSE
  BY <1>a, <1>0, <1>6 DEF RecoverStage, BeginRollback, ProcessInv, AtRest
<1> QED
  BY <1>a, <1>0, <1>1, <1>2, <1>3, <1>4, <1>5, <1>6, RemoveMoves

----------------------------------------------------------------------------
(* Files and receipts                                                      *)

\* Only a deletion, an import and its transaction change what DistinctInv is about.
LEMMA DistinctStep == ASSUME StateInv, ForwardInv, DistinctInv, [Next]_vars PROVE DistinctInv'
<1>a. TypeOK /\ BornInv /\ RowInv /\ ProcessInv
  BY DEF StateInv
<1>b. \A g \in Game : receipt[g] # None => receipt[g] \in Import /\ receipt[g] \in Nat /\ receipt[g] <= imports
  BY <1>a, SetFacts DEF TypeOK, BornInv, Files
<1>1. ASSUME UNCHANGED <<receipt, packages>> PROVE DistinctInv'
  BY <1>1 DEF DistinctInv, packages
<1>2. ASSUME NEW g \in Game, NEW N \in SUBSET Target, DeleteGame(g, N) PROVE DistinctInv'
  <2>1. UNCHANGED packages /\ \A h \in Game : receipt'[h] \in {receipt[h], None}
    BY <1>a, <1>2 DEF DeleteGame, TypeOK
  <2> QED
    BY <2>1 DEF DistinctInv, packages
<1>3. ASSUME NEW g \in Game, NEW n \in Slug, NEW s \in BOOLEAN, ImportGame(g, n, s) PROVE DistinctInv'
  <2>1. UNCHANGED receipt /\ \A i \in Import : i <= imports => slugOf'[i] = slugOf[i]
    BY <1>a, <1>3, SetFacts DEF ImportGame, TypeOK, database
  <2> QED
    BY <1>b, <2>1 DEF DistinctInv
<1>4. ASSUME Commit \/ CommitFails, NEW g \in game, Record(g) PROVE DistinctInv'
  <2>1. pc = "commit" /\ UNCHANGED packages /\ g \in Game
    BY <1>a, <1>4 DEF Commit, CommitFails, TypeOK
  <2>2. receipt'[g] = cur /\ \A h \in Game \ {g} : receipt'[h] = receipt[h]
    BY <1>a, <1>4, <2>1 DEF Record, TypeOK
  <2>3. ~Shared(g, slugOf[cur])
    BY <1>4, <2>1 DEF ForwardInv, Forward
  <2>4. ASSUME NEW h \in Game \ {g}, receipt[h] # None PROVE slugOf[receipt[h]] # slugOf[cur]
    <3>1. TargetOf(receipt[h], "cover") \in tracked[h]
      BY <1>a, <2>4 DEF RowInv, HasNew, Kind
    <3> QED
      BY <2>3, <3>1 DEF Shared, TargetOf, Kind
  <2> QED
    BY <2>1, <2>2, <2>4 DEF DistinctInv, packages
<1>5. CASE Commit \/ CommitFails
  BY <1>1, <1>4, <1>5 DEF Commit, CommitFails, database
<1> QED
  BY <1>1, <1>2, <1>3, <1>5
     DEF Next, Work, Fail, Request, vars, database, Start, Stop, Crash, PrepareFails, QueryReceipt,
         QueryFails, ImportFails, WriteManifest, DiscardNew, RecoveryDone, RecoverStage,
         RecoverStageFails, RollbackDone, RemoveStageDir, RemoveFails, BackUp, Install, UndoTarget,
         RestoreBackup, RemoveManifest, RemoveNew, RemoveBackup, ReadBackFails, RollbackStepFails,
         SaveGame

\* An import keeps the stages it began next to.
LEMMA CrowdStep == ASSUME StateInv, CrowdInv, [Next]_vars PROVE CrowdInv'
<1>a. TypeOK /\ BornInv /\ ProcessInv
  BY DEF StateInv
<1>1. SUFFICES ASSUME ctx' = "import" PROVE CrowdInv'
  BY <1>1 DEF CrowdInv
<1>2. ASSUME NEW g \in Game, NEW n \in Slug, NEW s \in BOOLEAN, ImportGame(g, n, s) PROVE CrowdInv'
  <2>1. /\ imports \in Nat /\ cur' = imports + 1 /\ cur' \in Import /\ stages' = stages \cup {cur'}
        /\ slugOf' = [slugOf EXCEPT ![cur'] = n]
        /\ crowded' = crowded \cup {j \in {cur'} : \E i \in stages : slugOf[i] = n}
    BY <1>a, <1>2, SetFacts DEF ImportGame, TypeOK
  <2>2. slugOf'[cur'] = n /\ \A i \in stages : i # cur' /\ slugOf'[i] = slugOf[i]
    BY <1>a, <2>1, SetFacts DEF TypeOK, BornInv
  <2> QED
    BY <2>1, <2>2 DEF CrowdInv
<1>3. ASSUME UNCHANGED <<stages, packages, ctx, cur>> PROVE CrowdInv'
  BY <1>3 DEF CrowdInv, packages
<1>4. ASSUME NEW E \in BOOLEAN, StageDone(E) PROVE FALSE
  BY <1>a, <1>1, <1>4, StageDoneFacts DEF TypeOK
<1>5. CASE RollbackDone
  BY <1>3, <1>4, <1>5 DEF RollbackDone, GoTo, volume
<1>6. ~RemoveStageDir /\ ~RemoveFails
  BY <1>4 DEF RemoveStageDir, RemoveFails
<1>7. ~Crash /\ ~PrepareFails /\ ~QueryFails
  BY <1>1 DEF Crash, PrepareFails, QueryFails, Return
<1>8. ASSUME NEW i \in Import, RecoverStage(i) \/ RecoverStageFails(i) PROVE FALSE
  BY <1>a, <1>1, <1>8 DEF RecoverStage, RecoverStageFails, BeginRollback, ProcessInv, AtRest
<1> QED
  BY <1>2, <1>3, <1>5, <1>6, <1>7, <1>8
     DEF Next, Work, Fail, Request, vars, volume, process, Start, Stop, SaveGame, DeleteGame, ImportFails,
         Commit, CommitFails, QueryReceipt, ReadBackFails, WriteManifest, BackUp, Install, UndoTarget,
         DiscardNew, RestoreBackup, RollbackStepFails, RemoveManifest, RemoveNew, RemoveBackup,
         RecoveryDone, GoTo, BeginRollback

\* Steps that change no receipt keep an agreement.
LEMMA MatchesKept ==
  ASSUME NEW c, StateInv, Matches(c), UNCHANGED receipt, crowded \subseteq crowded',
         \A i \in Import : i <= imports => slugOf'[i] = slugOf[i] /\ static'[i] = static[i]
  PROVE  \A g \in Game : receipt'[g] # None /\ receipt'[g] \notin crowded' =>
           \A k \in Kind : HasNew(receipt[g], k)' => c[TargetOf(receipt[g], k)'] = receipt'[g]
<1>1. \A g \in Game : receipt[g] # None => receipt[g] \in Import /\ receipt[g] <= imports
  BY SetFacts DEF StateInv, TypeOK, BornInv, Files
<1> QED
  BY <1>1 DEF Matches, HasNew, TargetOf

\* The transaction records a package whose files are in place, and those of the
\* others are not in its namespace.
LEMMA RecordMatches ==
  ASSUME StateInv, ForwardInv, pc = "commit", NEW g \in game, Record(g), UNCHANGED packages,
         Matches(before), UNCHANGED contents
  PROVE  Matches(contents)'
<1>a. /\ TypeOK /\ BornInv /\ ProcessInv /\ RowInv
  BY DEF StateInv
<1>b. g \in Game /\ game = {g}
  BY <1>a DEF ProcessInv, Forward, TypeOK
<1>1. /\ Swapped("cover") /\ Swapped("bundle") /\ ~Shared(g, slugOf[cur])
      /\ \A n \in Slug, k \in Kind : n # slugOf[cur] => contents[<<n, k>>] = before[<<n, k>>]
  BY <1>b DEF ForwardInv, Forward, CoverDone
<1>2. receipt'[g] = cur /\ \A h \in Game \ {g} : receipt'[h] = receipt[h]
  BY <1>a, <1>b DEF Record, TypeOK
<1>3. \A k \in Kind : HasNew(cur, k) => contents[TargetOf(cur, k)] = cur
  BY <1>1 DEF Swapped, Kind
<1>4. ASSUME NEW h \in Game \ {g}, receipt[h] # None, receipt[h] \notin crowded, NEW k \in Kind,
             HasNew(receipt[h], k)
      PROVE  contents[TargetOf(receipt[h], k)] = receipt[h]
  <2>1. slugOf[receipt[h]] \in Slug
    BY <1>a, <1>4, SetFacts DEF TypeOK, BornInv, Files
  <2>2. TargetOf(receipt[h], k) \in tracked[h] /\ before[TargetOf(receipt[h], k)] = receipt[h]
    BY <1>a, <1>4 DEF RowInv, Matches
  <2>3. slugOf[receipt[h]] # slugOf[cur]
    BY <1>1, <2>2 DEF Shared, TargetOf
  <2> QED
    BY <1>1, <2>1, <2>2, <2>3 DEF TargetOf
<1> QED
  BY <1>2, <1>3, <1>4 DEF Matches, HasNew, TargetOf, packages

\* A deletion takes only files that no other game records.
LEMMA DeleteMatches ==
  ASSUME StateInv, NEW g \in Game, NEW N \in SUBSET Target, DeleteGame(g, N), Matches(contents)
  PROVE  Matches(contents)'
<1>a. TypeOK /\ RowInv /\ BornInv
  BY DEF StateInv
<1>1. receipt'[g] = None /\ UNCHANGED packages /\ \A h \in Game \ {g} : receipt'[h] = receipt[h]
  BY <1>a DEF DeleteGame, TypeOK
<1>2. ASSUME NEW h \in Game \ {g}, receipt[h] # None, receipt[h] \notin crowded, NEW k \in Kind,
             HasNew(receipt[h], k)
      PROVE  contents'[TargetOf(receipt[h], k)] = receipt[h]
  <2>1. /\ TargetOf(receipt[h], k) \in tracked[h] /\ h \in Live \ {g}
        /\ contents[TargetOf(receipt[h], k)] = receipt[h]
    BY <1>a, <1>2 DEF RowInv, Matches, Live
  <2>2. TargetOf(receipt[h], k) \in Target
    BY <1>a, <2>1 DEF TypeOK
  <2> QED
    BY <2>1, <2>2 DEF DeleteGame
<1> QED
  BY <1>1, <1>2 DEF Matches, HasNew, TargetOf, packages

\* A rollback from what a start would find changes only the stage's namespace.
LEMMA FoundApart ==
  ASSUME StateInv, Matches(contents), NEW i \in Import, Apart(i), ToUndo(i)
  PROVE  Matches(Found(i))
<1>a. TypeOK /\ BornInv
  BY DEF StateInv
<1>1. ASSUME NEW g \in Game, receipt[g] # None, receipt[g] \notin crowded, NEW k \in Kind,
             HasNew(receipt[g], k)
      PROVE  Found(i)[TargetOf(receipt[g], k)] = receipt[g]
  <2>1. receipt[g] # i /\ i \in durable
    BY <1>1 DEF ToUndo, Committed
  <2>2. slugOf[receipt[g]] # slugOf[i] /\ slugOf[receipt[g]] \in Slug
    BY <1>a, <1>1, <2>1, SetFacts DEF Apart, TypeOK, BornInv, Files
  <2>3. Found(i)[TargetOf(receipt[g], k)] = contents[TargetOf(receipt[g], k)]
    BY <2>2, UndoneAt DEF Found, TargetOf
  <2> QED
    BY <1>1, <2>3 DEF Matches
<1> QED
  BY <1>1 DEF Matches

\* While nothing is interrupted, files and receipts stay on their way to agree.
LEMMA QuietStep ==
  ASSUME StateInv, ForwardInv, UndoInv, Calm, KeptApart, [Next]_vars, UNCHANGED <<crashes, faults>>
  PROVE  Calm'
<1>a. /\ TypeOK /\ BornInv /\ ProcessInv /\ CleanInv /\ ~errors /\ failed = {}
      /\ ctx \in {"startup", "import"}
  BY DEF StateInv, Calm, TypeOK
<1>b. pc \notin AtRest => cur \in Import /\ cur \in stages
  BY <1>a, InFlight
<1>c. crashes \in Nat /\ faults \in Nat
  BY <1>a, Counters
<1> USE DEF AtRest, Forward, Undoing
<1>1. CASE Start
  BY <1>a, <1>1 DEF Start, Calm, Matches, HasNew, TargetOf, ToUndo, Committed, Found, Undone, FoundTouched,
                    database, volume, packages
<1>16. CASE Stop
  <2>1. /\ pc = "serving" /\ pc' = "down" /\ ctx = "startup" /\ cur = None
        /\ UNCHANGED <<database, volume, packages, ctx, cur, failed, errors>>
    BY <1>a, <1>16 DEF Stop, ProcessInv
  <2>2. None \notin stages
    BY <1>a, SetFacts DEF TypeOK
  <2>3. stages \ {cur} = stages
    BY <2>1, <2>2
  <2>4. /\ \A i, j \in stages : i = j
        /\ \A i \in stages : Apart(i)
    BY <2>1, <2>3 DEF KeptApart
  <2>5. Matches(contents)
    BY <2>1 DEF Calm
  <2>6. \A i \in stages : ToUndo(i) => Matches(Found(i))
    BY <1>a, <2>4, <2>5, FoundApart DEF TypeOK
  <2>7. Matches(contents)'
    BY <2>1, <2>5 DEF Matches, HasNew, TargetOf, database, volume, packages
  <2>8. \A i \in stages : ToUndo(i)' => Matches(Found(i))'
    BY <2>1, <2>6 DEF Matches, HasNew, TargetOf, ToUndo, Committed, Found, Undone, FoundTouched,
                      database, volume, packages
  <2> QED
    BY <1>a, <2>1, <2>4, <2>7, <2>8 DEF Calm, volume
<1>2. ASSUME NEW g \in Game, NEW n \in Slug, NEW K \in SUBSET Kind, SaveGame(g, n, K) PROVE Calm'
  BY <1>2 DEF SaveGame, Calm, Matches, HasNew, TargetOf, volume, packages, process
<1>3. ASSUME NEW g \in Game, NEW N \in SUBSET Target, DeleteGame(g, N) PROVE Calm'
  <2>1. pc = "serving" /\ UNCHANGED process
    BY <1>3 DEF DeleteGame
  <2>2. Matches(contents)'
    BY <1>3, <2>1, DeleteMatches DEF Calm
  <2> QED
    BY <1>a, <2>1, <2>2 DEF Calm, process
<1>4. ASSUME NEW g \in Game, NEW n \in Slug, NEW s \in BOOLEAN, ImportGame(g, n, s) PROVE Calm'
  <2>1. /\ pc = "serving" /\ pc' = "prepare" /\ ctx' = "import" /\ before' = contents
        /\ cur' = imports + 1 /\ imports \in Nat
        /\ UNCHANGED <<receipt, failed, errors>>
    BY <1>a, <1>4 DEF ImportGame, TypeOK, database
  <2>2. \A i \in Import : i <= imports => slugOf'[i] = slugOf[i] /\ static'[i] = static[i]
    BY <1>a, <1>4, <2>1, SetFacts DEF ImportGame, TypeOK
  <2>5. crowded \subseteq crowded'
    BY <1>4 DEF ImportGame
  <2>3. Matches(before)'
    BY <2>1, <2>2, <2>5, MatchesKept DEF Calm, Matches
  <2>4. ~Committed(cur)'
    BY <1>a, <2>1, SetFacts DEF Committed, TypeOK, BornInv, Files
  <2> QED
    BY <1>a, <2>1, <2>3, <2>4 DEF Calm
<1>5. CASE WriteManifest \/ BackUp \/ Install
  <2>1. /\ pc \in {"prepare", "backup", "install"} /\ pc' \in Forward
        /\ UNCHANGED <<database, packages, cur, before, failed, errors, ctx>>
    BY <1>5 DEF WriteManifest, BackUp, Install, GoTo
  <2>2. ~Committed(cur) /\ ~Committed(cur)' /\ ctx = "import"
    BY <1>a, <2>1 DEF ForwardInv, Committed, ProcessInv, database
  <2>3. Matches(before)
    BY <2>1, <2>2 DEF Calm
  <2>4. Matches(before)'
    BY <2>1, <2>3 DEF Matches, HasNew, TargetOf, database, packages
  <2> QED
    BY <1>a, <2>1, <2>2, <2>4 DEF Calm
<1>6. CASE Commit
  <2>1. /\ pc = "commit" /\ pc' = "remove" /\ ctx = "import"
        /\ UNCHANGED <<contents, packages, cur, failed, errors, ctx>>
    BY <1>a, <1>6 DEF Commit, ProcessInv, volume
  <2>2. Matches(before)
    BY <2>1 DEF Calm, ForwardInv, Committed
  <2>3. Matches(contents)'
    BY <1>6, <2>1, <2>2, RecordMatches DEF Commit
  <2> QED
    BY <1>a, <2>1, <2>3 DEF Calm
<1>7. CASE QueryReceipt
  <2>1. pc = "query" /\ ctx = "import" /\ UNCHANGED <<database, volume, packages, errors, ctx>>
    BY <1>a, <1>7 DEF QueryReceipt, BeginRollback, ProcessInv
  <2>2. CASE Committed(cur)
    <3>1. Matches(contents) /\ pc' = "remove" /\ failed' = {}
      BY <1>a, <1>7, <2>1, <2>2 DEF Calm, QueryReceipt
    <3>2. Matches(contents)'
      BY <2>1, <3>1 DEF Matches, HasNew, TargetOf, database, volume, packages
    <3> QED
      BY <1>a, <2>1, <3>1, <3>2 DEF Calm
  <2>3. CASE ~Committed(cur)
    <3>1. pc' = "undo" /\ Matches(before)
      BY <1>7, <2>1, <2>3 DEF Calm, QueryReceipt, BeginRollback
    <3>2. Outlook' = before /\ failed' = {}
      BY <1>7, <3>1, RollbackBegins
    <3>3. Matches(Outlook)'
      BY <2>1, <3>1, <3>2 DEF Matches, HasNew, TargetOf, database, packages
    <3> QED
      BY <1>a, <2>1, <3>1, <3>2, <3>3 DEF Calm
  <2> QED
    BY <2>2, <2>3
<1>8. CASE UndoTarget \/ DiscardNew \/ RestoreBackup
  <2>1. /\ pc \in Undoing /\ pc' \in Undoing
        /\ UNCHANGED <<database, stages, packages, cur, ctx, errors>>
    BY <1>8 DEF UndoTarget, DiscardNew, RestoreBackup, NextItem, GoTo
  <2>2. Outlook' = Outlook /\ failed' = {}
    BY <1>a, <1>8, RollbackKeeps
  <2>3. Matches(Outlook)
    BY <2>1 DEF Calm
  <2>4. Matches(Outlook)'
    BY <2>1, <2>2, <2>3 DEF Matches, HasNew, TargetOf, database, packages
  <2> QED
    BY <1>a, <2>1, <2>2, <2>4 DEF Calm
<1>9. CASE RollbackDone
  <2>1. /\ pc = "undone" /\ pc' = "remove" /\ UNCHANGED <<database, volume, packages, cur, ctx, errors, failed>>
    BY <1>a, <1>9 DEF RollbackDone, GoTo
  <2>2. Matches(contents)
    BY <2>1, RollbackEnds DEF Calm
  <2>3. Matches(contents)'
    BY <2>1, <2>2 DEF Matches, HasNew, TargetOf, database, volume, packages
  <2> QED
    BY <1>a, <2>1, <2>3 DEF Calm, volume
<1>10. CASE RemoveManifest \/ RemoveNew \/ RemoveBackup
  <2>1. pc = "remove" /\ UNCHANGED <<database, contents, stages, packages, process>>
    BY <1>10 DEF RemoveManifest, RemoveNew, RemoveBackup
  <2>2. Matches(contents)'
    BY <2>1 DEF Calm, Matches, HasNew, TargetOf, database, packages
  <2> QED
    BY <1>a, <2>1, <2>2 DEF Calm, process
<1>11. CASE RemoveStageDir
  <2>1. /\ pc = "remove" /\ StageDone(FALSE) /\ stages' = stages \ {cur}
        /\ UNCHANGED <<database, contents, packages>>
    BY <1>11 DEF RemoveStageDir
  <2>2. Matches(contents)'
    BY <2>1 DEF Calm, Matches, HasNew, TargetOf, database, packages
  <2>3. /\ failed' = {} /\ ~errors' /\ ctx' = "startup" /\ pc' \in {"serving", "recover"}
        /\ pc' = "recover" => ctx = "startup"
    BY <1>a, <2>1, StageDoneFacts
  <2>4. pc' = "recover" => stages' = {}
    BY <2>1, <2>3 DEF Calm
  <2> QED
    BY <2>2, <2>3, <2>4 DEF Calm
<1>12. ASSUME NEW i \in Import, RecoverStage(i) PROVE Calm'
  <2>1. /\ pc = "recover" /\ i \in stages /\ ctx = "startup"
        /\ UNCHANGED <<database, volume, packages, errors, ctx>>
    BY <1>a, <1>12 DEF RecoverStage, BeginRollback, ProcessInv, BornInv
  <2>2. stages = {i} /\ (ToUndo(i) => Matches(Found(i))) /\ (~ToUndo(i) => Matches(contents))
    BY <2>1 DEF Calm
  <2>3. CASE ToUndo(i)
    <3>1. pc' = "undo"
      BY <1>12, <2>3 DEF RecoverStage, BeginRollback, ToUndo
    <3>2. cur' = i /\ failed' = {} /\ Outlook' = Found(i)
      BY <1>a, <1>12, <3>1, RecoveryBegins
    <3>3. Matches(Outlook)'
      BY <2>1, <2>2, <2>3, <3>2 DEF Matches, HasNew, TargetOf, database, packages
    <3> QED
      BY <1>a, <2>1, <2>2, <3>1, <3>2, <3>3 DEF Calm, volume
  <2>4. CASE ~ToUndo(i)
    <3>1. pc' = "remove" /\ cur' = i /\ failed' = {}
      BY <1>a, <1>12, <2>4 DEF RecoverStage, ToUndo
    <3>2. Matches(contents)'
      BY <2>1, <2>2, <2>4 DEF Matches, HasNew, TargetOf, database, volume, packages
    <3> QED
      BY <1>a, <2>1, <2>2, <3>1, <3>2 DEF Calm, volume
  <2> QED
    BY <2>3, <2>4
<1>13. CASE RecoveryDone
  <2>1. /\ pc = "recover" /\ pc' = "serving" /\ pending = {}
        /\ UNCHANGED <<database, volume, packages, errors, ctx, failed>>
    BY <1>a, <1>13 DEF RecoveryDone, GoTo
  <2>2. stages = {}
    BY <1>a, <2>1 DEF CleanInv
  <2>3. Matches(contents)
    BY <2>1, <2>2 DEF Calm
  <2>4. Matches(contents)'
    BY <2>1, <2>3 DEF Matches, HasNew, TargetOf, database, volume, packages
  <2> QED
    BY <1>a, <2>1, <2>4 DEF Calm
<1>14. CASE UNCHANGED vars
  BY <1>14 DEF Calm, Matches, HasNew, TargetOf, ToUndo, Committed, Found, Undone, FoundTouched, Outlook,
               Left, vars, database, volume, packages, process
<1>15. ~Crash /\ ~Fail
  <2>1. ~Crash /\ ~Fault
    BY <1>c DEF Crash, Fault
  <2> QED
    BY <2>1 DEF Fail, PrepareFails, ImportFails, CommitFails, QueryFails, ReadBackFails,
                RollbackStepFails, RemoveFails, RecoverStageFails
<1> QED
  BY Zenon, <1>1, <1>2, <1>3, <1>4, <1>5, <1>6, <1>7, <1>8, <1>9, <1>10, <1>11, <1>12, <1>13, <1>14, <1>15,
     <1>16 DEF Next, Work, Request

\* The one interruption: a crash ...
LEMMA CrashStep ==
  ASSUME StateInv, ForwardInv, Calm, Crash, crashes + faults = 0 PROVE Calm'
<1>a. /\ TypeOK /\ BornInv /\ ProcessInv /\ UndisturbedInv /\ ctx \in {"startup", "import"}
  BY DEF StateInv, TypeOK
<1>1. /\ pc' = "down" /\ ctx' = "startup" /\ ~errors' /\ failed' = {} /\ pc \notin {"down", "refused"}
      /\ UNCHANGED <<database, volume, packages>>
  BY DEF Crash, Forget
<1>2. SUFFICES /\ \A i, j \in stages : i = j
               /\ \A i \in stages : ToUndo(i) => Matches(Found(i))
               /\ (\A i \in stages : ~ToUndo(i)) => Matches(contents)
  BY <1>1 DEF Calm, Matches, HasNew, TargetOf, ToUndo, Committed, Found, Undone, FoundTouched, database,
              volume, packages, AtRest, Forward, Undoing
<1>3. CASE ctx = "startup"
  BY <1>a, <1>1, <1>3 DEF UndisturbedInv, Calm, AtRest
<1>4. CASE ctx = "import"
  <2>0. faults = 0
    BY <1>a, Counters
  <2>1. stages = {cur} /\ pc \notin AtRest /\ pc \notin Undoing /\ pc # "query"
    BY <1>a, <1>4, <2>0 DEF UndisturbedInv, ProcessInv
  <2>2. CASE pc = "remove"
    BY <1>a, <1>4, <2>0, <2>1, <2>2 DEF UndisturbedInv, ToUndo, Calm
  <2>3. CASE pc \in Forward
    <3>1. ~Committed(cur) /\ (cur \notin durable => pc = "prepare")
      BY <2>1, <2>3 DEF ForwardInv, Committed
    <3>2. Matches(before)
      BY <2>3, <3>1 DEF Calm
    <3>3. Found(cur) = before /\ (pc = "prepare" => contents = before)
      BY <2>3, ForwardUndone
    <3> QED
      BY <2>1, <3>1, <3>2, <3>3 DEF ToUndo
  <2>4. pc \in AtRest \cup Forward \cup Undoing \cup {"remove"}
    BY <1>a DEF TypeOK, AtRest, Forward, Undoing
  <2> QED
    BY <2>1, <2>2, <2>3, <2>4
<1> QED
  BY <1>a, <1>3, <1>4

\* ... or a failed step.
LEMMA FailStep ==
  ASSUME StateInv, ForwardInv, UndoInv, Calm, Fail, crashes + faults = 0 PROVE Calm'
<1>a. /\ TypeOK /\ BornInv /\ ProcessInv /\ UndisturbedInv /\ ctx \in {"startup", "import"}
      /\ ~errors /\ failed = {}
  BY DEF StateInv, TypeOK, Calm
<1> USE DEF AtRest, Forward, Undoing
<1>1. CASE PrepareFails
  <2>1. /\ pc = "prepare" /\ pc' = "serving" /\ ctx' = "startup" /\ failed' = {}
        /\ UNCHANGED <<database, contents, packages, errors>>
    BY <1>1 DEF PrepareFails, Return, Forget
  <2>2. Matches(before) /\ contents = before
    BY <2>1, ForwardUndone DEF Calm, ForwardInv, Committed
  <2>3. Matches(contents)'
    BY <2>1, <2>2 DEF Matches, HasNew, TargetOf, database, packages
  <2> QED
    BY <1>a, <2>1, <2>3 DEF Calm
<1>2. CASE ImportFails
  <2>1. /\ pc \in {"backup", "install", "commit"} /\ pc' = "undo" /\ ctx = "import"
    BY <1>a, <1>2 DEF ImportFails, BeginRollback, ProcessInv
  <2>2. Matches(before)
    BY <2>1 DEF Calm, ForwardInv, Committed
  <2>3. Outlook' = before /\ failed' = {} /\ UNCHANGED <<receipt, packages, ctx, errors>>
    BY <1>2, <2>1, RollbackBegins
  <2>4. Matches(Outlook)'
    BY <2>2, <2>3 DEF Matches, HasNew, TargetOf, packages
  <2> QED
    BY <1>a, <2>1, <2>3, <2>4 DEF Calm
<1>3. CASE CommitFails
  <2>1. /\ pc = "commit" /\ pc' = "query" /\ ctx = "import"
        /\ UNCHANGED <<contents, packages, cur, before, failed, errors, ctx>>
    BY <1>a, <1>3 DEF CommitFails, GoTo, ProcessInv, volume
  <2>2. Matches(before) /\ ~Committed(cur)
    BY <2>1 DEF Calm, ForwardInv, Committed
  <2>3. CASE UNCHANGED database
    <3>1. Matches(before)' /\ ~Committed(cur)'
      BY <2>1, <2>2, <2>3 DEF Matches, HasNew, TargetOf, Committed, database, packages
    <3> QED
      BY <1>a, <2>1, <3>1 DEF Calm
  <2>4. CASE \E g \in game : Record(g)
    <3>1. Matches(contents)'
      BY <2>1, <2>2, <2>4, RecordMatches
    <3>2. Committed(cur)'
      BY <1>a, <2>1, <2>4 DEF Committed, Record, TypeOK
    <3> QED
      BY <1>a, <2>1, <3>1, <3>2 DEF Calm
  <2> QED
    BY <1>3, <2>3, <2>4 DEF CommitFails
<1>4. CASE ReadBackFails
  <2>1. /\ pc = "remove" /\ UNCHANGED <<database, contents, stages, packages, pc, ctx, cur, failed, errors>>
    BY <1>4 DEF ReadBackFails, volume
  <2>2. Matches(contents)'
    BY <2>1 DEF Calm, Matches, HasNew, TargetOf, database, packages
  <2> QED
    BY <1>a, <2>1, <2>2 DEF Calm
<1>5. CASE RemoveFails
  <2>1. /\ pc = "remove" /\ StageDone(TRUE) /\ UNCHANGED <<database, contents, packages>>
    BY <1>5 DEF RemoveFails, volume
  <2>2. ctx = "import"
    BY <1>a, <2>1 DEF UndisturbedInv
  <2>3. pc' = "serving" /\ ctx' = "startup" /\ ~errors' /\ failed' = {}
    BY <1>a, <2>1, <2>2, StageDoneFacts
  <2>4. Matches(contents)'
    BY <2>1 DEF Calm, Matches, HasNew, TargetOf, database, packages
  <2> QED
    BY <2>3, <2>4 DEF Calm
<1>6. ~QueryFails /\ ~RollbackStepFails
  <2>1. faults = 0
    BY <1>a, Counters
  <2> QED
    BY <1>a, <2>1 DEF UndisturbedInv, QueryFails, RollbackStepFails
<1>7. \A i \in Import : ~RecoverStageFails(i)
  BY <1>a DEF UndisturbedInv, BornInv, ProcessInv, RecoverStageFails
<1> QED
  BY <1>1, <1>2, <1>3, <1>4, <1>5, <1>6, <1>7 DEF Fail

\* A stage stays apart while no receipt is recorded.
LEMMA ApartKept ==
  ASSUME StateInv, NEW i \in Import, i <= imports, Apart(i), i \in durable' => i \in durable,
         \A g \in Game : receipt'[g] \in {receipt[g], None}, crowded \subseteq crowded',
         \A j \in Import : j <= imports => slugOf'[j] = slugOf[j]
  PROVE  Apart(i)'
<1>1. \A g \in Game : receipt[g] # None => receipt[g] \in Import /\ receipt[g] <= imports
  BY SetFacts DEF StateInv, TypeOK, BornInv, Files
<1> QED
  BY <1>1 DEF Apart

\* What an older stage is next to, step by step.
LEMMA KeptQuietStep ==
  ASSUME StateInv, ForwardInv, CrowdInv, Calm, KeptApart, [Next]_vars, UNCHANGED <<crashes, faults>>
  PROVE  KeptApart'
<1>a. /\ TypeOK /\ BornInv /\ ProcessInv /\ CleanInv /\ ~errors /\ failed = {}
      /\ ctx \in {"startup", "import"} /\ None \notin stages /\ stages \subseteq Import
      /\ \A i \in stages : i <= imports
  BY SetFacts DEF StateInv, Calm, TypeOK, BornInv
<1>c. crashes \in Nat /\ faults \in Nat
  BY <1>a, Counters
<1>1. ASSUME stages' \ {cur'} \subseteq stages \ {cur}, UNCHANGED packages,
             \A g \in Game : receipt'[g] \in {receipt[g], None},
             durable' \subseteq durable \cup {cur},
             pc' = "serving" \/ ctx' = "import" => pc = "serving" \/ ctx = "import"
      PROVE  KeptApart'
  <2>1. crowded \subseteq crowded' /\ \A j \in Import : j <= imports => slugOf'[j] = slugOf[j]
    BY <1>1 DEF packages
  <2>2. ASSUME pc' = "serving" \/ ctx' = "import", NEW i \in stages' \ {cur'} PROVE Apart(i)'
    <3>1. i \in stages \ {cur} /\ Apart(i) /\ i \in Import /\ i <= imports
      BY <1>a, <1>1, <2>2 DEF KeptApart
    <3>2. i \in durable' => i \in durable
      BY <1>1, <3>1
    <3> QED
      BY <1>1, <2>1, <3>1, <3>2, ApartKept
  <2>3. \A i, j \in stages' \ {cur'} : i = j
    BY <1>1 DEF KeptApart
  <2> QED
    BY <2>2, <2>3 DEF KeptApart
<1>2. CASE Start \/ Stop
  BY <1>1, <1>2 DEF Start, Stop, database, volume
<1>3. ASSUME NEW g \in Game, NEW n \in Slug, NEW K \in SUBSET Kind, SaveGame(g, n, K) PROVE KeptApart'
  BY <1>1, <1>3 DEF SaveGame, volume, process
<1>4. ASSUME NEW g \in Game, NEW N \in SUBSET Target, DeleteGame(g, N) PROVE KeptApart'
  <2>1. \A h \in Game : receipt'[h] \in {receipt[h], None}
    BY <1>a, <1>4 DEF DeleteGame, TypeOK
  <2>2. UNCHANGED <<stages, durable, cur, pc, ctx, packages>>
    BY <1>4 DEF DeleteGame, process
  <2> QED
    BY <1>1, <2>1, <2>2
<1>5. ASSUME NEW g \in Game, NEW n \in Slug, NEW s \in BOOLEAN, ImportGame(g, n, s) PROVE KeptApart'
  <2>1. /\ pc = "serving" /\ stages' = stages \cup {cur'} /\ imports' = imports + 1
        /\ cur' = imports' /\ imports \in Nat /\ cur = None /\ crowded \subseteq crowded'
        /\ UNCHANGED <<receipt, durable>>
    BY <1>a, <1>5 DEF ImportGame, TypeOK, ProcessInv, AtRest, database
  <2>2. \A j \in Import : j <= imports => slugOf'[j] = slugOf[j]
    BY <1>a, <1>5, <2>1, SetFacts DEF ImportGame, TypeOK
  <2>3. stages' \ {cur'} \subseteq stages \ {cur}
    BY <1>a, <2>1
  <2>4. ASSUME NEW i \in stages' \ {cur'} PROVE Apart(i)'
    <3>1. i \in stages \ {cur} /\ Apart(i) /\ i \in Import /\ i <= imports
      BY <1>a, <2>1, <2>3, <2>4 DEF KeptApart
    <3> QED
      BY <2>1, <2>2, <3>1, ApartKept
  <2> QED
    BY <2>3, <2>4 DEF KeptApart
<1>6. CASE WriteManifest \/ BackUp \/ Install
  BY <1>1, <1>6 DEF WriteManifest, BackUp, Install, GoTo, database
<1>7. CASE Commit
  <2>1. /\ pc = "commit" /\ ctx = "import" /\ UNCHANGED <<volume, packages, ctx, cur>>
    BY <1>a, <1>7 DEF Commit, ProcessInv, Forward
  <2>2. PICK g \in Game : Record(g)
    BY <1>a, <1>7 DEF Commit, TypeOK
  <2>3. receipt'[g] = cur /\ \A h \in Game \ {g} : receipt'[h] = receipt[h]
    BY <1>a, <2>2 DEF Record, TypeOK
  <2>4. ASSUME NEW i \in stages \ {cur} PROVE Apart(i)'
    <3>1. Apart(i) /\ (slugOf[i] = slugOf[cur] => cur \in crowded)
      BY <2>1, <2>4 DEF KeptApart, CrowdInv
    <3> QED
      BY <2>1, <2>3, <3>1 DEF Apart, volume, packages
  <2> QED
    BY <2>1, <2>4 DEF KeptApart, volume
<1>8. CASE QueryReceipt \/ UndoTarget \/ DiscardNew \/ RestoreBackup
  BY <1>1, <1>8 DEF QueryReceipt, UndoTarget, DiscardNew, RestoreBackup, NextItem, GoTo, BeginRollback,
                    database, volume
<1>9. CASE RollbackDone
  BY <1>a, <1>1, <1>9 DEF RollbackDone, GoTo, database, volume
<1>10. CASE RemoveManifest \/ RemoveNew \/ RemoveBackup
  BY <1>1, <1>10 DEF RemoveManifest, RemoveNew, RemoveBackup, database, process
<1>11. CASE RemoveStageDir
  <2>1. /\ pc = "remove" /\ StageDone(FALSE) /\ stages' = stages \ {cur}
        /\ UNCHANGED <<database, durable, packages>>
    BY <1>11 DEF RemoveStageDir
  <2>2. /\ cur' = None /\ ctx' = "startup" /\ (ctx = "startup" => pc' = "recover")
    BY <1>a, <2>1, StageDoneFacts
  <2> QED
    BY <1>a, <1>1, <2>1, <2>2 DEF database
<1>12. ASSUME NEW i \in Import, RecoverStage(i) PROVE KeptApart'
  <2>1. /\ pc = "recover" /\ ctx = "startup" /\ cur = None /\ cur' = i
        /\ pc' \in {"undo", "remove"} /\ UNCHANGED <<database, volume, packages, ctx>>
    BY <1>a, <1>12 DEF RecoverStage, BeginRollback, ProcessInv, AtRest
  <2> QED
    BY <1>a, <1>1, <2>1 DEF database, volume
<1>13. CASE RecoveryDone
  <2>1. /\ pc = "recover" /\ pending = {} /\ UNCHANGED volume
    BY <1>13 DEF RecoveryDone
  <2>2. stages' = {}
    BY <1>a, <2>1 DEF CleanInv, volume
  <2> QED
    BY <2>2 DEF KeptApart
<1>14. CASE UNCHANGED vars
  BY <1>1, <1>14 DEF vars, database, volume, process
<1>15. ~Crash /\ ~Fail
  <2>1. ~Crash /\ ~Fault
    BY <1>c DEF Crash, Fault
  <2> QED
    BY <2>1 DEF Fail, PrepareFails, ImportFails, CommitFails, QueryFails, ReadBackFails,
                RollbackStepFails, RemoveFails, RecoverStageFails
<1> QED
  BY Zenon, <1>2, <1>3, <1>4, <1>5, <1>6, <1>7, <1>8, <1>9, <1>10, <1>11, <1>12, <1>13, <1>14, <1>15
     DEF Next, Work, Request

\* The first interruption leaves at most the stage it fell on, which is apart from
\* the packages of the other games.
LEMMA KeptInterrupted ==
  ASSUME StateInv, ForwardInv, DistinctInv, Calm, Crash \/ Fail, crashes + faults = 0
  PROVE  KeptApart'
<1>a. /\ TypeOK /\ BornInv /\ ProcessInv /\ UndisturbedInv /\ ctx \in {"startup", "import"}
      /\ crashes = 0 /\ faults = 0
  BY Counters DEF StateInv, TypeOK
<1>b. /\ ctx = "import" => stages = {cur} /\ pc \notin Undoing \cup {"query"} /\ pc \notin AtRest
      /\ ctx = "startup" => stages = {} /\ pc \in AtRest
      /\ crowded = {}
  BY <1>a DEF UndisturbedInv, ProcessInv
<1>1. CASE Crash
  <2>1. UNCHANGED volume /\ pc' = "down" /\ ctx' = "startup"
    BY <1>1 DEF Crash
  <2> QED
    BY <1>a, <1>b, <2>1 DEF KeptApart, volume
<1>2. CASE PrepareFails
  <2>1. /\ pc = "prepare" /\ ctx = "import" /\ cur \notin durable
        /\ stages' \subseteq stages /\ UNCHANGED durable
    BY <1>a, <1>2 DEF PrepareFails, ProcessInv, Forward
  <2> QED
    BY <1>b, <2>1 DEF KeptApart, Apart
<1>3. CASE ImportFails \/ CommitFails \/ ReadBackFails
  <2>1. /\ UNCHANGED <<volume, ctx, cur>> /\ pc \notin AtRest
    BY <1>3 DEF ImportFails, CommitFails, ReadBackFails, BeginRollback, GoTo, AtRest
  <2>2. stages' \ {cur'} = {}
    BY <1>a, <1>b, <2>1 DEF volume
  <2> QED
    BY <2>2 DEF KeptApart
<1>4. CASE RemoveFails
  <2>1. /\ pc = "remove" /\ UNCHANGED <<database, volume, packages>>
    BY <1>4 DEF RemoveFails
  <2>2. ctx = "import" /\ Committed(cur) /\ stages = {cur}
    BY <1>a, <1>b, <2>1 DEF UndisturbedInv, AtRest
  <2>3. cur # None
    BY <1>a, <2>1, InFlight DEF AtRest
  <2>4. Apart(cur)
    BY <2>2, <2>3 DEF Apart, DistinctInv, Committed
  <2>5. \A i \in stages' : Apart(i)'
    <3>1. \A i \in stages : Apart(i)
      BY <2>2, <2>4
    <3> QED
      BY <2>1, <3>1 DEF Apart, database, volume, packages
  <2> QED
    <3>1. \A i, j \in stages' : i = j
      BY <2>1, <2>2 DEF volume
    <3> QED
      BY <2>5, <3>1 DEF KeptApart
<1>5. ~QueryFails /\ ~RollbackStepFails
  BY <1>a, <1>b DEF QueryFails, RollbackStepFails, AtRest, Undoing
<1>6. \A i \in Import : ~RecoverStageFails(i)
  BY <1>a, <1>b DEF BornInv, ProcessInv, RecoverStageFails, AtRest
<1> QED
  BY <1>1, <1>2, <1>3, <1>4, <1>5, <1>6 DEF Fail

LEMMA OneInterruption ==
  ASSUME StateInv, [Next]_vars, crashes' + faults' <= 1
  PROVE  \/ UNCHANGED <<crashes, faults>> /\ crashes + faults <= 1
         \/ (Crash \/ Fail) /\ crashes + faults = 0
<1>1. crashes \in Nat /\ faults \in Nat
  BY Counters DEF StateInv
<1>2. ASSUME Crash PROVE crashes + faults = 0
  BY <1>1, <1>2 DEF Crash
<1>3. ASSUME Fail PROVE crashes + faults = 0
  <2>1. faults' = faults + 1 /\ crashes' = crashes
    BY <1>3 DEF Fail, PrepareFails, ImportFails, CommitFails, QueryFails, ReadBackFails,
                RollbackStepFails, RemoveFails, RecoverStageFails, Fault
  <2> QED
    BY <1>1, <2>1
<1>4. ASSUME ~Crash, ~Fail PROVE UNCHANGED <<crashes, faults>>
  BY <1>4 DEF Next, Work, Request, vars, Start, Stop, SaveGame, DeleteGame, ImportGame, WriteManifest, BackUp,
              Install, Commit, QueryReceipt, UndoTarget, DiscardNew, RestoreBackup, RollbackDone,
              RemoveManifest, RemoveNew, RemoveBackup, RemoveStageDir, RecoverStage, RecoveryDone
<1> QED
  BY <1>1, <1>2, <1>3, <1>4

LEMMA CalmStep ==
  ASSUME StateInv, ForwardInv, UndoInv, DistinctInv, CrowdInv, CalmInv, [Next]_vars PROVE CalmInv'
<1>1. SUFFICES ASSUME crashes' + faults' <= 1 PROVE Calm' /\ KeptApart'
  BY <1>1 DEF CalmInv
<1>2. CASE UNCHANGED <<crashes, faults>> /\ crashes + faults <= 1
  BY <1>2, QuietStep, KeptQuietStep DEF CalmInv
<1>3. CASE (Crash \/ Fail) /\ crashes + faults = 0
  <2>1. Calm
    BY <1>3 DEF CalmInv
  <2> QED
    BY <1>3, <2>1, CrashStep, FailStep, KeptInterrupted
<1> QED
  BY <1>1, <1>2, <1>3, OneInterruption

----------------------------------------------------------------------------
(* The theorems                                                            *)

LEMMA InitImportInv == Init => ImportInv
<1> SUFFICES ASSUME Init PROVE ImportInv
  OBVIOUS
<1>1. TypeOK
  <2>1. /\ slug \in [Game -> Slug \cup {NoSlug}] /\ tracked \in [Game -> SUBSET Target]
        /\ receipt \in [Game -> Files] /\ contents \in [Target -> Files] /\ before = contents
        /\ fresh \in [Import -> SUBSET Kind] /\ backup \in [Import -> [Kind -> Files]]
        /\ slugOf \in [Import -> Slug \cup {NoSlug}] /\ static \in [Import -> BOOLEAN]
    BY SetFacts DEF Init
  <2>2. /\ stages = {} /\ durable = {} /\ crowded = {} /\ imports = 0 /\ pc = "down" /\ ctx = "startup" /\ cur = None
        /\ game = {} /\ at = "cover" /\ touched = {} /\ failed = {} /\ pending = {} /\ errors = FALSE
        /\ outcome = "none" /\ crashes = 0 /\ faults = 0
    BY DEF Init
  <2>3. errors \in BOOLEAN
    BY Zenon, <2>2
  <2> QED
    BY <2>1, <2>2, <2>3, SetFacts DEF TypeOK, Kind
<1>2. BornInv /\ RowInv /\ ProcessInv /\ CleanInv /\ UndisturbedInv
  <2>1. BornInv
    BY SetFacts DEF Init, BornInv, None
  <2>2. RowInv /\ ProcessInv /\ CleanInv /\ UndisturbedInv
    BY DEF Init, RowInv, ProcessInv, CleanInv, UndisturbedInv, AtRest, Forward, Undoing
  <2> QED
    BY <2>1, <2>2
<1>3. ForwardInv /\ UndoInv /\ ResultInv
  BY DEF Init, ForwardInv, UndoInv, ResultInv, Forward, Undoing
<1>4. CalmInv
  BY DEF Init, CalmInv, Calm, KeptApart, Matches, AtRest, Forward, Undoing
<1>5. DistinctInv /\ CrowdInv
  BY DEF Init, DistinctInv, CrowdInv
<1> QED
  BY <1>1, <1>2, <1>3, <1>4, <1>5 DEF ImportInv, StateInv

LEMMA NextImportInv == ImportInv /\ [Next]_vars => ImportInv'
<1> SUFFICES ASSUME ImportInv, [Next]_vars PROVE ImportInv'
  OBVIOUS
<1>a. StateInv /\ ForwardInv /\ UndoInv /\ ResultInv /\ DistinctInv /\ CrowdInv /\ CalmInv
  BY DEF ImportInv
<1>1. StateInv'
  BY <1>a, TypeStep, RowStep, PlaceStep DEF StateInv, PlaceInv
<1> QED
  BY <1>a, <1>1, ForwardStep, UndoStep, ResultStep, DistinctStep, CrowdStep, CalmStep DEF ImportInv

\* The inductive invariant of an import: the contents that a rollback will leave are
\* those from before the import until it has committed (ImportGame, loadImportStage).
THEOREM ImportInvariant == Spec => []ImportInv
BY InitImportInv, NextImportInv, PTL DEF Spec

\* Every variable keeps its type; a manifest is below a directory that exists.
THEOREM TypeCorrect == Spec => []TypeOK
<1>1. ImportInv => TypeOK
  BY DEF ImportInv, StateInv
<1> QED
  BY <1>1, ImportInvariant, PTL

\* One crash or one failed step, wherever it falls in an import, in its rollback,
\* in a recovery or in a cleanup, and with any number of ordinary restarts around
\* it, leaves files and receipts in agreement once the server serves, up to the
\* package of an import that began next to the stage the failed step had left.
THEOREM InterruptionResolved == Spec => []OneInterruptionIsResolved
<1>1. ImportInv => OneInterruptionIsResolved
  <2> SUFFICES ASSUME ImportInv, crashes + faults <= 1, pc = "serving", NEW g \in Game, receipt[g] # None
               PROVE  HasItsPackage(g) \/ (faults = 1 /\ receipt[g] \in crowded)
    BY DEF OneInterruptionIsResolved
  <2>1. Matches(contents)
    BY DEF ImportInv, CalmInv, Calm
  <2>2. CASE receipt[g] \notin crowded
    BY <2>1, <2>2 DEF Matches, HasItsPackage
  <2>3. CASE receipt[g] \in crowded
    <3>1. faults # 0 /\ crashes \in Nat /\ faults \in Nat
      BY <2>3, Counters DEF ImportInv, StateInv, UndisturbedInv
    <3> QED
      BY <2>3, <3>1
  <2> QED
    BY <2>2, <2>3
<1> QED
  BY <1>1, ImportInvariant, PTL

\* A recovery pass that ends in serving has met no error, so every directory of
\* .atri-imports was before it and has been removed.
THEOREM StartLeavesNothing == Spec => CleanStart
<1>1. ImportInv /\ [Next]_vars => [NothingPending]_vars
  <2> SUFFICES ASSUME StateInv, [Next]_vars, pc = "recover", pc' = "serving" PROVE stages = {}
    BY DEF ImportInv, NothingPending
  <2>1. TypeOK /\ ctx = "startup"
    BY DEF StateInv, ProcessInv, AtRest
  <2>2. ASSUME NEW E \in BOOLEAN, StageDone(E) PROVE FALSE
    BY <2>1, <2>2, StageDoneFacts
  <2>3. RecoveryDone
    BY <2>2 DEF Next, Work, Fail, Request, vars, process, Start, Stop, Crash, SaveGame, DeleteGame, ImportGame,
                WriteManifest, PrepareFails, BackUp, Install, ImportFails, Commit, CommitFails, QueryReceipt,
                QueryFails, ReadBackFails, UndoTarget, DiscardNew, RestoreBackup, RollbackStepFails,
                RollbackDone, RemoveManifest, RemoveNew, RemoveBackup, RemoveStageDir, RemoveFails,
                RecoverStage, RecoverStageFails, BeginRollback
  <2> QED
    BY <2>3 DEF RecoveryDone, GoTo, StateInv, CleanInv
<1> QED
  BY <1>1, ImportInvariant, PTL DEF Spec, CleanStart

\* What ImportGame returns is what happened to the two targets and the receipt.
THEOREM ImportIsHonest == Spec => HonestImport
<1>1. ImportInv /\ [Next]_vars => [ReturnsWhatHappened]_vars
  <2> SUFFICES ASSUME StateInv, ForwardInv, UndoInv, ResultInv, [Next]_vars, ctx = "import", pc' = "serving"
               PROVE  ReturnsWhatHappened
    BY DEF ImportInv, ReturnsWhatHappened
  <2>a. TypeOK /\ BornInv /\ ProcessInv /\ pc \notin AtRest
    BY DEF StateInv, ProcessInv
  <2>1. CASE PrepareFails
    <3>1. pc = "prepare" /\ outcome' = "aborted" /\ UNCHANGED <<database, contents>>
      BY <2>1 DEF PrepareFails, Return
    <3> QED
      BY <3>1, ForwardUndone DEF ForwardInv, Forward, ReturnsWhatHappened, database
  <2>2. CASE QueryFails
    BY <2>2 DEF QueryFails, Return, ReturnsWhatHappened
  <2>3. CASE RollbackDone
    <3>1. pc = "undone" /\ StageDone(TRUE)
      BY <2>3 DEF RollbackDone, GoTo
    <3>2. outcome = "restored"
      BY <3>1 DEF UndoInv, Undoing
    <3>3. outcome' = "restoreFailed"
      BY <2>a, <3>1, <3>2, StageDoneFacts
    <3> QED
      BY <3>3 DEF ReturnsWhatHappened
  <2>4. CASE RemoveStageDir \/ RemoveFails
    <3>1. pc = "remove" /\ UNCHANGED <<database, contents, packages>>
      BY <2>4 DEF RemoveStageDir, RemoveFails, volume
    <3>2. outcome' \in {outcome, "restoreFailed"}
      BY <2>4, <2>a, StageDoneFacts DEF RemoveStageDir, RemoveFails
    <3>3. outcome \in {"ok", "unread", "restored"}
      BY <3>1 DEF ResultInv
    <3> QED
      BY <3>1, <3>2, <3>3 DEF ResultInv, Committed, ReturnsWhatHappened, database
  <2>5. PrepareFails \/ QueryFails \/ RollbackDone \/ RemoveStageDir \/ RemoveFails
    BY <2>a DEF Next, Work, Fail, Request, vars, process, AtRest, Start, Stop, Crash, SaveGame, DeleteGame,
                ImportGame, WriteManifest, BackUp, Install, ImportFails, Commit, CommitFails, QueryReceipt,
                ReadBackFails, UndoTarget, DiscardNew, RestoreBackup, NextItem, RollbackStepFails, GoTo,
                RemoveManifest, RemoveNew, RemoveBackup, RecoverStage, RecoverStageFails, RecoveryDone,
                BeginRollback
  <2> QED
    BY <2>1, <2>2, <2>3, <2>4, <2>5
<1> QED
  BY <1>1, ImportInvariant, PTL DEF Spec, HonestImport
=============================================================================

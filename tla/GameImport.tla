----------------------------- MODULE GameImport -----------------------------
(***************************************************************************)
(* Installing an .atri package: the swap of covers/<slug> and              *)
(* playables/<slug> through a journal directory .atri-imports/install-*/   *)
(* and the transaction that records the package's receipt token            *)
(* (apps/api/internal/data/game_import.go).                                *)
(*                                                                         *)
(* Import i is the i-th call of ImportGame; it names the call's receipt    *)
(* token, its journal directory and the files of its package, so a target  *)
(* directory holds either nothing or the files of one import.  gameMu      *)
(* serialises all operations; the deletion of a game is the single step    *)
(* that AtomicDeletion allows it to be.                                    *)
(***************************************************************************)
EXTENDS Naturals, FiniteSets

CONSTANTS Game, Slug, NoSlug,
          MaxImports,            \* bound on calls of ImportGame
          MaxCrashes, MaxFaults  \* bounds on the injected crashes and errors

ASSUME ConstantsAssumption ==
  /\ NoSlug \notin Slug
  /\ MaxImports \in Nat /\ MaxCrashes \in Nat /\ MaxFaults \in Nat

Import == 1 .. MaxImports
None == 0                        \* no import, no files
Files == Import \cup {None}
Kind == {"cover", "bundle"}      \* swapped in this order, undone in the other
Target == Slug \X Kind

VARIABLES
  \* SQLite: games, game_assets and game_packages
  slug, tracked, receipt,
  \* asset volume
  contents,     \* [Target -> Files]
  stages,       \* journal directories that exist
  durable,      \* those whose install.json has been renamed into place
  fresh,        \* kinds whose new files are still below <stage>/new
  backup,       \* what is below <stage>/backup
  \* the package of each call so far
  imports, slugOf, static,
  crowded,      \* history: the calls that began while a stage of an earlier one in
                \* their namespace was still there
  \* the API process
  pc, ctx, cur, game, at, touched, failed, pending, errors, outcome,
  before,       \* history: contents when the import in progress began
  crashes, faults

database == <<slug, tracked, receipt>>
volume == <<contents, stages, durable, fresh, backup>>
packages == <<imports, slugOf, static, crowded>>
process == <<pc, ctx, cur, game, at, touched, failed, pending, errors, outcome, before>>
vars == <<database, volume, packages, process, crashes, faults>>

Live == {g \in Game : slug[g] # NoSlug}
TargetOf(i, k) == <<slugOf[i], k>>
HasNew(i, k) == k = "cover" \/ static[i]
Committed(i) == \E g \in Game : receipt[g] = i
Fault == faults < MaxFaults /\ faults' = faults + 1

TypeOK ==
  /\ slug \in [Game -> Slug \cup {NoSlug}]
  /\ tracked \in [Game -> SUBSET Target]
  /\ receipt \in [Game -> Files]
  /\ contents \in [Target -> Files]
  /\ stages \in SUBSET Import
  /\ durable \in SUBSET stages
  /\ fresh \in [Import -> SUBSET Kind]
  /\ backup \in [Import -> [Kind -> Files]]
  /\ imports \in 0 .. MaxImports
  /\ slugOf \in [Import -> Slug \cup {NoSlug}]
  /\ static \in [Import -> BOOLEAN]
  /\ crowded \in SUBSET Import
  /\ pc \in {"down", "refused", "recover", "serving", "prepare", "backup", "install",
             "commit", "query", "undo", "discard", "restore", "undone", "remove"}
  /\ ctx \in {"startup", "import"}
  /\ cur \in Files
  /\ game \in SUBSET Game
  /\ at \in Kind
  /\ touched \in SUBSET Kind
  /\ failed \in SUBSET {"reported", "unseen"}
  /\ pending \in SUBSET Import
  /\ errors \in BOOLEAN
  /\ outcome \in {"none", "ok", "unread", "aborted", "restored", "restoreFailed", "unknown"}
  /\ before \in [Target -> Files]
  /\ crashes \in 0 .. MaxCrashes
  /\ faults \in 0 .. MaxFaults

Init ==
  /\ slug = [g \in Game |-> NoSlug]
  /\ tracked = [g \in Game |-> {}]
  /\ receipt = [g \in Game |-> None]
  /\ contents = [x \in Target |-> None]
  /\ stages = {}
  /\ durable = {}
  /\ fresh = [i \in Import |-> {}]
  /\ backup = [i \in Import |-> [k \in Kind |-> None]]
  /\ imports = 0
  /\ slugOf = [i \in Import |-> NoSlug]
  /\ static = [i \in Import |-> FALSE]
  /\ crowded = {}
  /\ pc = "down"
  /\ ctx = "startup"
  /\ cur = None
  /\ game = {}
  /\ at = "cover"
  /\ touched = {}
  /\ failed = {}
  /\ pending = {}
  /\ errors = FALSE
  /\ outcome = "none"
  /\ before = contents
  /\ crashes = 0
  /\ faults = 0

----------------------------------------------------------------------------
(* Helpers of the process                                                  *)

\* The locals of an operation that has ended.
Forget ==
  /\ cur' = None
  /\ game' = {}
  /\ at' = "cover"
  /\ touched' = {}
  /\ failed' = {}
  /\ before' = [x \in Target |-> None]

\* ImportGame returns r and releases gameMu.
Return(r) ==
  /\ pc' = "serving"
  /\ ctx' = "startup"
  /\ Forget
  /\ outcome' = r
  /\ UNCHANGED <<pending, errors>>

GoTo(l) ==
  /\ pc' = l
  /\ UNCHANGED <<ctx, cur, game, at, touched, failed, pending, errors, outcome, before>>

\* rollback() of stage i, bundle first, over the items T it takes for touched.
BeginRollback(i, T, o) ==
  /\ pc' = "undo"
  /\ cur' = i
  /\ at' = "bundle"
  /\ touched' = T
  /\ failed' = {}
  /\ outcome' = o
  /\ UNCHANGED <<ctx, game, errors, before>>

\* Bug variant: the pass forgets the error of a stage.
StageDoneLosingError(E) ==
  IF ctx = "import"
  THEN Return(IF E /\ outcome = "restored" THEN "restoreFailed" ELSE outcome)
  ELSE /\ pc' = "recover"
       /\ Forget
       /\ UNCHANGED <<ctx, pending, errors, outcome>>

\* The stage in hand is done with; E says whether with an error.  The recovery
\* pass joins it to the others'; ImportGame returns it, unless it has committed.
StageDone(E) ==
  IF ctx = "import"
  THEN Return(IF E /\ outcome = "restored" THEN "restoreFailed" ELSE outcome)
  ELSE /\ pc' = "recover"
       /\ Forget
       /\ errors' = (errors \/ E)
       /\ UNCHANGED <<ctx, pending, outcome>>

----------------------------------------------------------------------------
(* The process and its restarts                                            *)

Start ==
  /\ pc \in {"down", "refused"}
  /\ pc' = "recover"
  /\ pending' = stages
  /\ errors' = FALSE
  /\ UNCHANGED <<database, volume, packages, ctx, cur, game, at, touched, failed, outcome,
                 before, crashes, faults>>

\* SIGTERM while no request is being handled, as when the container is replaced:
\* Shutdown waits for the requests (one that outlasts it ends in a Crash).  It is no
\* interruption and is not counted; the next start recovers as every start does.
Stop ==
  /\ pc = "serving"
  /\ pc' = "down"
  /\ outcome' = "none"
  /\ UNCHANGED <<database, volume, packages, ctx, cur, game, at, touched, failed, pending,
                 errors, before, crashes, faults>>

Crash ==
  /\ crashes < MaxCrashes
  /\ crashes' = crashes + 1
  /\ pc \notin {"down", "refused"}
  /\ pc' = "down"
  /\ ctx' = "startup"
  /\ Forget
  /\ pending' = {}
  /\ errors' = FALSE
  /\ outcome' = "none"
  /\ UNCHANGED <<database, volume, packages, faults>>

----------------------------------------------------------------------------
(* The other writers of games and game_assets                              *)

\* CreateGame or UpdateGame: it tracks what its urls name in its namespace, and
\* forgets nothing it tracked under another slug.
SaveGame(g, n, K) ==
  /\ pc = "serving"
  /\ \A h \in Live \ {g} : slug[h] # n
  /\ slug' = [slug EXCEPT ![g] = n]
  /\ tracked' = [tracked EXCEPT ![g] = @ \cup ({n} \X K)]
  /\ UNCHANGED <<receipt, volume, packages, process, crashes, faults>>

\* DeleteGame: the files only g tracks go with it, except those (Named) that the
\* url of another game names; the receipt goes by cascade.
DeleteGame(g, Named) ==
  /\ pc = "serving"
  /\ g \in Live
  /\ Named \subseteq tracked[g]
  /\ Named = {} \/ Live # {g}
  /\ LET gone == tracked[g] \ (Named \cup UNION {tracked[h] : h \in Live \ {g}})
     IN contents' = [x \in Target |-> IF x \in gone THEN None ELSE contents[x]]
  /\ slug' = [slug EXCEPT ![g] = NoSlug]
  /\ tracked' = [tracked EXCEPT ![g] = {}]
  /\ receipt' = [receipt EXCEPT ![g] = None]
  /\ UNCHANGED <<stages, durable, fresh, backup, packages, process, crashes, faults>>

----------------------------------------------------------------------------
(* ImportGame                                                              *)

\* Bug variant: the namespace is not checked.
SharedIgnored(g, n) == FALSE

\* Another game tracks files in the namespace: ErrAssetShared.
Shared(g, n) == \E h \in Game \ {g} : tracked[h] \cap ({n} \X Kind) # {}

\* Bug variant: the stage takes the token of the call before.
ImportGameStaleToken(g, n, s) ==
  /\ pc = "serving"
  /\ imports < MaxImports
  /\ slug[g] = n \/ (slug[g] = NoSlug /\ \A h \in Game : slug[h] # n)
  /\ ~Shared(g, n)
  /\ imports' = imports + 1
  /\ cur' = imports
  /\ slugOf' = [slugOf EXCEPT ![imports'] = n]
  /\ static' = [static EXCEPT ![imports'] = s]
  /\ stages' = stages \cup {cur'}
  /\ fresh' = [fresh EXCEPT ![imports'] = IF s THEN Kind ELSE {"cover"}]
  /\ crowded' = crowded \cup {j \in {cur'} : \E i \in stages : slugOf[i] = n}
  /\ game' = {g}
  /\ before' = contents
  /\ ctx' = "import"
  /\ pc' = "prepare"
  /\ outcome' = "none"
  /\ UNCHANGED <<database, contents, durable, backup, at, touched, failed, pending, errors,
                 crashes, faults>>

\* The transaction is open, g has slug n or n is free; MkdirTemp, and the new
\* files are renamed from the upload workspace into the stage.
ImportGame(g, n, s) ==
  /\ pc = "serving"
  /\ imports < MaxImports
  /\ slug[g] = n \/ (slug[g] = NoSlug /\ \A h \in Game : slug[h] # n)
  /\ ~Shared(g, n)
  /\ imports' = imports + 1
  /\ cur' = imports'
  /\ slugOf' = [slugOf EXCEPT ![cur'] = n]
  /\ static' = [static EXCEPT ![cur'] = s]
  /\ stages' = stages \cup {cur'}
  /\ fresh' = [fresh EXCEPT ![cur'] = IF s THEN Kind ELSE {"cover"}]
  /\ crowded' = crowded \cup {j \in {cur'} : \E i \in stages : slugOf[i] = n}
  /\ game' = {g}
  /\ before' = contents
  /\ ctx' = "import"
  /\ pc' = "prepare"
  /\ outcome' = "none"
  /\ UNCHANGED <<database, contents, durable, backup, at, touched, failed, pending, errors,
                 crashes, faults>>

\* install.json.tmp is written, synced and renamed.
WriteManifest ==
  /\ pc = "prepare"
  /\ durable' = durable \cup {cur}
  /\ GoTo("backup")
  /\ UNCHANGED <<database, contents, stages, fresh, backup, packages, crashes, faults>>

\* Anything before that fails; the stage is removed, or its removal fails too.
PrepareFails ==
  /\ Fault
  /\ pc = "prepare"
  /\ \/ /\ stages' = stages \ {cur}
        /\ fresh' = [fresh EXCEPT ![cur] = {}]
     \/ UNCHANGED <<stages, fresh>>
  /\ Return("aborted")
  /\ UNCHANGED <<database, contents, durable, backup, packages, crashes>>

\* Bug variant: what was moved away is not recorded in the stage's own item.
BackUpUnrecorded ==
  /\ pc = "backup"
  /\ LET t == TargetOf(cur, at)
     IN IF contents[t] = None
        THEN UNCHANGED <<contents, backup>>
        ELSE /\ backup' = [backup EXCEPT ![cur][at] = contents[t]]
             /\ contents' = [contents EXCEPT ![t] = None]
  /\ pc' = "install"
  /\ UNCHANGED <<database, stages, durable, fresh, packages, ctx, cur, game, at, touched,
                 failed, pending, errors, outcome, before, crashes, faults>>

\* activate: the old files, if any, are renamed to <stage>/backup ...
BackUp ==
  /\ pc = "backup"
  /\ LET t == TargetOf(cur, at)
     IN IF contents[t] = None
        THEN UNCHANGED <<contents, backup, touched>>
        ELSE /\ backup' = [backup EXCEPT ![cur][at] = contents[t]]
             /\ contents' = [contents EXCEPT ![t] = None]
             /\ touched' = touched \cup {at}
  /\ pc' = "install"
  /\ UNCHANGED <<database, stages, durable, fresh, packages, ctx, cur, game, at, failed,
                 pending, errors, outcome, before, crashes, faults>>

\* ... and the new ones, if the package has any, to the target.
Install ==
  /\ pc = "install"
  /\ IF HasNew(cur, at)
     THEN /\ contents' = [contents EXCEPT ![TargetOf(cur, at)] = cur]
          /\ fresh' = [fresh EXCEPT ![cur] = @ \ {at}]
          /\ touched' = touched \cup {at}
     ELSE UNCHANGED <<contents, fresh, touched>>
  /\ at' = "bundle"
  /\ pc' = IF at = "cover" THEN "backup" ELSE "commit"
  /\ UNCHANGED <<database, stages, durable, backup, packages, ctx, cur, game, failed,
                 pending, errors, outcome, before, crashes, faults>>

\* A rename of activate fails, or a statement of the transaction.
ImportFails ==
  /\ Fault
  /\ pc \in {"backup", "install", "commit"}
  /\ BeginRollback(cur, touched, "restored")
  /\ UNCHANGED <<database, volume, packages, pending, crashes>>

\* What the transaction writes: the row, its tracked assets, the receipt.
Record(g) ==
  LET n == slugOf[cur]
  IN /\ slug' = [slug EXCEPT ![g] = n]
     /\ tracked' = [tracked EXCEPT ![g] =
          (@ \ ({n} \X Kind)) \cup {TargetOf(cur, k) : k \in {j \in Kind : HasNew(cur, j)}}]
     /\ receipt' = [receipt EXCEPT ![g] = cur]

Commit ==
  /\ pc = "commit"
  /\ \E g \in game : Record(g)
  /\ pc' = "remove"
  /\ outcome' = "ok"
  /\ UNCHANGED <<volume, packages, ctx, cur, game, at, touched, failed, pending, errors,
                 before, crashes, faults>>

\* Commit returns an error: the transaction may or may not have happened.
CommitFails ==
  /\ Fault
  /\ pc = "commit"
  /\ (\E g \in game : Record(g)) \/ UNCHANGED database
  /\ GoTo("query")
  /\ UNCHANGED <<volume, packages, crashes>>

QueryReceipt ==
  /\ pc = "query"
  /\ IF Committed(cur)
     THEN /\ pc' = "remove"
          /\ outcome' = "ok"
          /\ UNCHANGED <<ctx, cur, game, at, touched, failed, errors, before>>
     ELSE BeginRollback(cur, touched, "restored")
  /\ UNCHANGED <<database, volume, packages, pending, crashes, faults>>

\* The outcome stays unknown; the stage is kept for the next start.
QueryFails ==
  /\ Fault
  /\ pc = "query"
  /\ Return("unknown")
  /\ UNCHANGED <<database, volume, packages, crashes>>

\* The import has committed but its game cannot be read back.
ReadBackFails ==
  /\ Fault
  /\ pc = "remove" /\ outcome = "ok"
  /\ outcome' = "unread"
  /\ UNCHANGED <<database, volume, packages, pc, ctx, cur, game, at, touched, failed,
                 pending, errors, before, crashes>>

----------------------------------------------------------------------------
(* importStage.rollback and importStage.finalize                           *)

\* The item in hand is done: the cover is next, or the rollback is at its end.
NextItem ==
  /\ at' = "cover"
  /\ pc' = IF at = "bundle" THEN "undo" ELSE "undone"

\* removeAll of the target, whatever it holds.
UndoTarget ==
  /\ pc = "undo"
  /\ IF at \in touched
     THEN /\ contents' = [contents EXCEPT ![TargetOf(cur, at)] = None]
          /\ pc' = "discard"
          /\ UNCHANGED at
     ELSE NextItem /\ UNCHANGED contents
  /\ UNCHANGED <<database, stages, durable, fresh, backup, packages, ctx, cur, game, touched,
                 failed, pending, errors, outcome, before, crashes, faults>>

DiscardNew ==
  /\ pc = "discard"
  /\ fresh' = [fresh EXCEPT ![cur] = @ \ {at}]
  /\ GoTo("restore")
  /\ UNCHANGED <<database, contents, stages, durable, backup, packages, crashes, faults>>

\* rename of the backup to the target, which fails when the target is not empty.
RestoreBackup ==
  /\ pc = "restore"
  /\ LET t == TargetOf(cur, at)
     IN IF backup[cur][at] # None /\ contents[t] = None
        THEN /\ contents' = [contents EXCEPT ![t] = backup[cur][at]]
             /\ backup' = [backup EXCEPT ![cur][at] = None]
        ELSE UNCHANGED <<contents, backup>>
  /\ failed' = IF backup'[cur][at] # None THEN failed \cup {"reported"} ELSE failed
  /\ NextItem
  /\ UNCHANGED <<database, stages, durable, fresh, packages, ctx, cur, game, touched,
                 pending, errors, outcome, before, crashes, faults>>

\* One of the three fails, or the Lstat before it, whose error is discarded
\* ("unseen"); the rollback goes on with the next.
RollbackStepFails ==
  /\ Fault
  /\ \E f \in {"reported", "unseen"} : failed' = failed \cup {f}
  /\ \/ /\ pc = "undo" /\ at \in touched /\ contents[TargetOf(cur, at)] # None
        /\ pc' = "discard" /\ UNCHANGED at
     \/ pc = "discard" /\ at \in fresh[cur] /\ pc' = "restore" /\ UNCHANGED at
     \/ pc = "restore" /\ backup[cur][at] # None /\ NextItem
  /\ UNCHANGED <<database, volume, packages, ctx, cur, game, touched, pending, errors,
                 outcome, before, crashes>>

RollbackDone ==
  /\ pc = "undone"
  /\ IF "reported" \in failed THEN StageDone(TRUE) ELSE GoTo("remove")
  /\ UNCHANGED <<database, volume, packages, crashes, faults>>

\* removeAll(stageRoot) unlinks install.json, new/ and backup/ in the order the
\* file system lists them, and the directory last.
RemoveManifest ==
  /\ pc = "remove"
  /\ cur \in durable
  /\ durable' = durable \ {cur}
  /\ UNCHANGED <<database, contents, stages, fresh, backup, packages, process, crashes, faults>>

RemoveNew ==
  /\ pc = "remove"
  /\ \E k \in fresh[cur] : fresh' = [fresh EXCEPT ![cur] = @ \ {k}]
  /\ UNCHANGED <<database, contents, stages, durable, backup, packages, process, crashes, faults>>

RemoveBackup ==
  /\ pc = "remove"
  /\ \E k \in Kind : backup[cur][k] # None /\ backup' = [backup EXCEPT ![cur][k] = None]
  /\ UNCHANGED <<database, contents, stages, durable, fresh, packages, process, crashes, faults>>

RemoveStageDir ==
  /\ pc = "remove"
  /\ cur \notin durable /\ fresh[cur] = {} /\ \A k \in Kind : backup[cur][k] = None
  /\ stages' = stages \ {cur}
  /\ StageDone(FALSE)
  /\ UNCHANGED <<database, contents, durable, fresh, backup, packages, crashes, faults>>

RemoveFails ==
  /\ Fault
  /\ pc = "remove"
  /\ StageDone(TRUE)
  /\ UNCHANGED <<database, volume, packages, crashes>>

----------------------------------------------------------------------------
(* recoverGameImports                                                      *)

\* Bug variant: every item of the manifest counts as touched.
FoundTouchedAll(i) == Kind

\* What loadImportStage takes for touched, from what it finds on the volume.
FoundTouched(i) ==
  {k \in Kind : \/ backup[i][k] # None
                \/ HasNew(i, k) /\ k \notin fresh[i] /\ contents[TargetOf(i, k)] # None}

\* Bug variant: a directory without a manifest is an error.
RecoverStageStrictly(i) ==
  /\ pc = "recover"
  /\ i \in pending
  /\ pending' = pending \ {i}
  /\ CASE i \notin durable ->
            /\ errors' = TRUE
            /\ UNCHANGED <<pc, ctx, cur, game, at, touched, failed, outcome, before>>
       [] i \in durable /\ ~Committed(i) ->
            BeginRollback(i, FoundTouched(i), outcome)
       [] OTHER ->
            /\ pc' = "remove"
            /\ cur' = i
            /\ UNCHANGED <<ctx, game, at, touched, failed, errors, outcome, before>>
  /\ UNCHANGED <<database, volume, packages, crashes, faults>>

\* One directory of the pass: removed if it has no manifest or its receipt is in
\* game_packages, rolled back otherwise.
RecoverStage(i) ==
  /\ pc = "recover"
  /\ i \in pending
  /\ pending' = pending \ {i}
  /\ IF i \in durable /\ ~Committed(i)
     THEN BeginRollback(i, FoundTouched(i), outcome)
     ELSE /\ pc' = "remove"
          /\ cur' = i
          /\ UNCHANGED <<ctx, game, at, touched, failed, errors, outcome, before>>
  /\ UNCHANGED <<database, volume, packages, crashes, faults>>

RecoverStageFails(i) ==
  /\ Fault
  /\ pc = "recover"
  /\ i \in pending
  /\ pending' = pending \ {i}
  /\ errors' = TRUE
  /\ UNCHANGED <<database, volume, packages, crashes, pc, ctx, cur, game, at, touched,
                 failed, outcome, before>>

RecoveryDone ==
  /\ pc = "recover"
  /\ pending = {}
  /\ GoTo(IF errors THEN "refused" ELSE "serving")
  /\ UNCHANGED <<database, volume, packages, crashes, faults>>

----------------------------------------------------------------------------
Work ==
  \/ WriteManifest \/ BackUp \/ Install \/ Commit \/ QueryReceipt
  \/ UndoTarget \/ DiscardNew \/ RestoreBackup \/ RollbackDone
  \/ RemoveManifest \/ RemoveNew \/ RemoveBackup \/ RemoveStageDir
  \/ \E i \in Import : RecoverStage(i)
  \/ RecoveryDone

Fail ==
  \/ PrepareFails \/ ImportFails \/ CommitFails \/ QueryFails \/ ReadBackFails
  \/ RollbackStepFails \/ RemoveFails
  \/ \E i \in Import : RecoverStageFails(i)

Request ==
  \/ \E g \in Game, n \in Slug : \E K \in SUBSET Kind : SaveGame(g, n, K)
  \/ \E g \in Game : \E N \in SUBSET Target : DeleteGame(g, N)
  \/ \E g \in Game, n \in Slug, s \in BOOLEAN : ImportGame(g, n, s)

Next == Start \/ Stop \/ Crash \/ Work \/ Fail \/ Request

\* Compose restarts a process that exited, and a goroutine that holds gameMu
\* keeps running.
Fairness == WF_vars(Start) /\ WF_vars(Work)

Spec == Init /\ [][Next]_vars /\ Fairness

----------------------------------------------------------------------------
(* Properties                                                              *)

\* The package that a game records is in place, each of its files.
HasItsPackage(g) ==
  \A k \in Kind : HasNew(receipt[g], k) => contents[TargetOf(receipt[g], k)] = receipt[g]

\* Every game that records a package has exactly that package's files.
FilesMatchReceipts == \A g \in Game : receipt[g] # None => HasItsPackage(g)

\* One interruption, wherever it falls, leaves files and receipts in agreement
\* whenever the server serves, over any number of ordinary restarts, imports,
\* renames and deletions before and after it: a crash between the two sides of an
\* import, in its recovery or in its cleanup, or one failed step ("a durable install
\* manifest allows startup recovery", game_import.go:58).  The one package that is
\* not promised its files was imported while the failed step's stage was still in
\* the journal of the same namespace; UndoSparesLaterImports is about that one.
OneInterruptionIsResolved ==
  crashes + faults <= 1 /\ pc = "serving" =>
    \A g \in Game : receipt[g] # None =>
      HasItsPackage(g) \/ (faults = 1 /\ receipt[g] \in crowded)

\* What ImportGame returns is what happened, to both targets at once: a game
\* means that the receipt is recorded and the package is in place; an error that
\* reports no failed restore means no receipt, and every target as it was before,
\* unless the rollback discarded the error of an Lstat.
ReturnsWhatHappened ==
  ctx = "import" /\ pc' = "serving" =>
    /\ outcome' = "ok" =>
         /\ \E g \in game : receipt'[g] = cur
         /\ \A k \in Kind : contents'[TargetOf(cur, k)] = IF HasNew(cur, k) THEN cur ELSE None
    /\ outcome' \in {"restored", "aborted"} =>
         /\ \A g \in Game : receipt'[g] # cur
         /\ contents' = before \/ "unseen" \in failed
HonestImport == [][ReturnsWhatHappened]_vars

\* A start that ends in serving has emptied .atri-imports.
NothingPending == pc = "recover" /\ pc' = "serving" => stages = {}
CleanStart == [][NothingPending]_vars

\* No interrupted import can keep the server down: once it is down it serves
\* again, because every state a rollback or a cleanup can stop in is one the next
\* recovery can finish.
ServesAgain == pc = "down" ~> pc = "serving"

\* "It is safe to call on every startup" (game_import.go:220): with crashes only,
\* recovery leaves every recorded package with its files.
RecoveryIsRepeatable == faults = 0 /\ pc = "serving" => FilesMatchReceipts

\* Files are installed "atomically with the catalog mutation" (game_import.go:19):
\* undoing an import never takes away the files of a later one that has committed.
LaterFilesStay ==
  \A x \in Target :
    pc = "undo" /\ contents[x] > cur /\ Committed(contents[x]) => contents'[x] = contents[x]
UndoSparesLaterImports == [][LaterFilesStay]_vars
=============================================================================

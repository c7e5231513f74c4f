---------------------------- MODULE DeletionStage ----------------------------
(***************************************************************************)
(* Permanent deletion of a game: the SQLite row, and the renames of its    *)
(* files into a journal directory .atri-trash/delete-<token>/ below the    *)
(* asset root (apps/api/internal/data/game_lifecycle.go).                  *)
(*                                                                         *)
(* One API process runs at a time.  gameMu serialises every operation      *)
(* below, so the state of the operation in progress is one record of       *)
(* volatile variables; Crash forgets them and keeps the database and the   *)
(* files.  A step is one system call on the files, or one statement or     *)
(* transaction on the database: the process may die between any two.       *)
(* Rows are written with BEGIN IMMEDIATE, so the reads of DeleteGame and   *)
(* its commit see the same rows.                                           *)
(***************************************************************************)
EXTENDS Naturals, FiniteSets

CONSTANTS Game,          \* game ids; newID never repeats one
          Cover, Bundle, \* managed paths that a cover_url, a launch_url can name
          Slug,
          OwnerSlug,     \* [Asset -> Slug]: whose namespace the path lies in
          Stage,         \* names of journal directories; a removed one is free again
          NoGame, NoSlug, NoStage,
          MaxCrashes, MaxFaults   \* bounds on the injected crashes and I/O or SQL errors

Asset == Cover \cup Bundle

ASSUME ConstantsAssumption ==
  /\ Slug # {} /\ NoSlug \notin Slug
  /\ OwnerSlug \in [Asset -> Slug]
  /\ NoGame \notin Game
  /\ NoStage \notin Stage
  /\ MaxCrashes \in Nat /\ MaxFaults \in Nat

VARIABLES
  \* SQLite: games, their urls and their game_assets rows
  row, slug, urls, tracked,
  \* asset volume
  original,    \* assets at their public path
  stages,      \* journal directories that exist
  durable,     \* those whose manifest.json has been renamed into place
  stageGame,   \* the game each manifest names
  items,       \* the assets each manifest lists
  staged,      \* the assets now below <stage>/files
  \* the API process
  pc,
  ctx,         \* who asked for the recovery or the rollback in progress
  victim, cur, todo, pending,
  failed,      \* items the rollback in progress could not restore
  errors,      \* stages the recovery pass in progress could not resolve
  outcome,     \* what the last DeleteGame returned
  \* injected failures so far
  crashes, faults

database == <<row, slug, urls, tracked>>
volume == <<original, stages, durable, stageGame, items, staged>>
process == <<pc, ctx, victim, cur, todo, pending, failed, errors, outcome>>
vars == <<database, volume, process, crashes, faults>>

Live == {g \in Game : row[g] = "live"}

\* At most one managed cover and one managed bundle can be named at a time.
AtMostOne(S) == {{}} \cup {{x} : x \in S}
Urls == {C \cup B : C \in AtMostOne(Cover), B \in AtMostOne(Bundle)}

\* Assets of U in the namespace of slug n (managedAssetOwnedBySlug).
OwnedBy(n, U) == {a \in U : OwnerSlug[a] = n}

SlugTaken(g, n) == \E h \in Live \ {g} : slug[h] = n

\* trackGameAssetsTx: INSERT OR IGNORE, never a delete.
TrackGameAssets(g, n, U) == tracked' = [tracked EXCEPT ![g] = @ \cup OwnedBy(n, U)]

\* Bug variant: forgets the games that name an asset they do not track.
ExclusiveByTracking(g) ==
  tracked[g] \ UNION {tracked[h] : h \in Live \ {g}}

\* The assets DeleteGame may take: tracked by g, named or tracked by no other.
Exclusive(g) ==
  tracked[g] \ UNION {urls[h] \cup tracked[h] : h \in Live \ {g}}

Fault == faults < MaxFaults /\ faults' = faults + 1

TypeOK ==
  /\ row \in [Game -> {"unborn", "live", "deleted"}]
  /\ slug \in [Game -> Slug \cup {NoSlug}]
  /\ urls \in [Game -> SUBSET Asset]
  /\ tracked \in [Game -> SUBSET Asset]
  /\ original \in SUBSET Asset
  /\ stages \in SUBSET Stage
  /\ durable \in SUBSET Stage
  /\ stageGame \in [Stage -> Game \cup {NoGame}]
  /\ items \in [Stage -> SUBSET Asset]
  /\ staged \in [Stage -> SUBSET Asset]
  /\ pc \in {"down", "refused", "recover", "rollback", "remove", "serving",
             "select", "mkdir", "manifest", "stage", "query"}
  /\ ctx \in {"startup", "predelete", "delete"}
  /\ victim \in Game \cup {NoGame}
  /\ cur \in Stage \cup {NoStage}
  /\ todo \in SUBSET Asset
  /\ pending \in SUBSET Stage
  /\ failed \in SUBSET Asset
  /\ errors \in SUBSET Stage
  /\ outcome \in {"none", "ok", "notFound", "aborted", "restored",
                  "restoreFailed", "unknown"}
  /\ crashes \in 0 .. MaxCrashes
  /\ faults \in 0 .. MaxFaults

Init ==
  /\ row = [g \in Game |-> "unborn"]
  /\ slug = [g \in Game |-> NoSlug]
  /\ urls = [g \in Game |-> {}]
  /\ tracked = [g \in Game |-> {}]
  /\ original = Asset
  /\ stages = {}
  /\ durable = {}
  /\ stageGame = [s \in Stage |-> NoGame]
  /\ items = [s \in Stage |-> {}]
  /\ staged = [s \in Stage |-> {}]
  /\ pc = "down"
  /\ ctx = "startup"
  /\ victim = NoGame
  /\ cur = NoStage
  /\ todo = {}
  /\ pending = {}
  /\ failed = {}
  /\ errors = {}
  /\ outcome = "none"
  /\ crashes = 0
  /\ faults = 0

----------------------------------------------------------------------------
(* Helpers of the process: each says where control goes, and forgets what  *)
(* the finished operation held.                                            *)

\* gameMu is released and DeleteGame has returned r.
Return(r) ==
  /\ pc' = "serving"
  /\ cur' = NoStage
  /\ todo' = {}
  /\ failed' = {}
  /\ outcome' = r
  /\ UNCHANGED <<ctx, victim, pending, errors>>

\* The operation goes on at label l.
GoTo(l) ==
  /\ pc' = l
  /\ UNCHANGED <<ctx, victim, cur, todo, pending, failed, errors, outcome>>

\* rollback() of the stage in hand, last item first; o is what DeleteGame will
\* return if every path is restored.
BeginRollback(s, o) ==
  /\ pc' = "rollback"
  /\ cur' = s
  /\ todo' = IF s = NoStage THEN {} ELSE items[s]
  /\ failed' = {}
  /\ outcome' = o
  /\ UNCHANGED <<ctx, victim, errors>>

\* A recovery pass over the directories now in .atri-trash.
BeginRecovery(c, g) ==
  /\ pc' = "recover"
  /\ ctx' = c
  /\ victim' = g
  /\ pending' = stages
  /\ errors' = {}
  /\ outcome' = "none"
  /\ UNCHANGED <<cur, todo, failed>>

\* Bug variant: the error of a stage is dropped from the joined result.
StageDoneLosingError(E) ==
  IF ctx = "delete"
  THEN Return(outcome)
  ELSE /\ pc' = "recover"
       /\ cur' = NoStage
       /\ todo' = {}
       /\ failed' = {}
       /\ UNCHANGED <<ctx, victim, pending, errors, outcome>>

\* rollback() or finalize() returns: to recoverManagedAssets, which joins its
\* error E and takes the next directory, or to DeleteGame, which returns.
StageDone(E) ==
  IF ctx = "delete"
  THEN Return(outcome)
  ELSE /\ pc' = "recover"
       /\ errors' = errors \cup E
       /\ cur' = NoStage
       /\ todo' = {}
       /\ failed' = {}
       /\ UNCHANGED <<ctx, victim, pending, outcome>>

----------------------------------------------------------------------------
(* The process and its restarts                                            *)

\* Bug variant: the server listens without recovering.
StartWithoutRecovery ==
  /\ pc \in {"down", "refused"}
  /\ GoTo("serving")
  /\ UNCHANGED <<database, volume, crashes, faults>>

\* cmd/server/main.go runs RecoverManagedAssets before it listens; Compose
\* restarts a process that exited.
Start ==
  /\ pc \in {"down", "refused"}
  /\ BeginRecovery("startup", NoGame)
  /\ UNCHANGED <<database, volume, crashes, faults>>

\* The process dies; an open transaction is rolled back by SQLite.
Crash ==
  /\ crashes < MaxCrashes
  /\ crashes' = crashes + 1
  /\ pc \notin {"down", "refused"}
  /\ pc' = "down"
  /\ ctx' = "startup"
  /\ victim' = NoGame
  /\ cur' = NoStage
  /\ todo' = {}
  /\ pending' = {}
  /\ failed' = {}
  /\ errors' = {}
  /\ outcome' = "none"
  /\ UNCHANGED <<database, volume, faults>>

----------------------------------------------------------------------------
(* Catalogue writes without an upload                                      *)

CreateGame(g, n, U) ==
  /\ pc = "serving"
  /\ row[g] = "unborn"
  /\ ~SlugTaken(g, n)
  /\ row' = [row EXCEPT ![g] = "live"]
  /\ slug' = [slug EXCEPT ![g] = n]
  /\ urls' = [urls EXCEPT ![g] = U]
  /\ TrackGameAssets(g, n, U)
  /\ UNCHANGED <<volume, process, crashes, faults>>

UpdateGame(g, n, U) ==
  /\ pc = "serving"
  /\ row[g] = "live"
  /\ ~SlugTaken(g, n)
  /\ slug' = [slug EXCEPT ![g] = n]
  /\ urls' = [urls EXCEPT ![g] = U]
  /\ TrackGameAssets(g, n, U)
  /\ UNCHANGED <<row, volume, process, crashes, faults>>

----------------------------------------------------------------------------
(* recoverManagedAssets                                                    *)

\* One directory of the pass: without a manifest it is an error; with one it
\* is rolled back while its game exists and finalized once it is gone.
RecoverStage(s) ==
  /\ pc = "recover"
  /\ s \in pending
  /\ pending' = pending \ {s}
  /\ IF s \notin durable
     THEN /\ errors' = errors \cup {s}
          /\ UNCHANGED <<pc, ctx, victim, cur, todo, failed, outcome>>
     ELSE IF row[stageGame[s]] = "live"
          THEN BeginRollback(s, outcome)
          ELSE /\ pc' = "remove"
               /\ cur' = s
               /\ UNCHANGED <<ctx, victim, todo, failed, errors, outcome>>
  /\ UNCHANGED <<database, volume, crashes, faults>>

\* The directory cannot be read, or the row cannot be queried: it stays.
RecoverStageFails(s) ==
  /\ Fault
  /\ pc = "recover"
  /\ s \in pending
  /\ pending' = pending \ {s}
  /\ errors' = errors \cup {s}
  /\ UNCHANGED <<database, volume, crashes, pc, ctx, victim, cur, todo, failed, outcome>>

RecoveryDone ==
  /\ pc = "recover"
  /\ pending = {}
  /\ CASE ctx = "startup" /\ errors # {}   -> GoTo("refused")
       [] ctx = "startup" /\ errors = {}   -> GoTo("serving")
       [] ctx = "predelete" /\ errors # {} -> Return("aborted")
       [] OTHER                            -> GoTo("select")
  /\ UNCHANGED <<database, volume, crashes, faults>>

----------------------------------------------------------------------------
(* assetStage.rollback and assetStage.finalize                             *)

RollbackItem(a) ==
  /\ pc = "rollback"
  /\ a \in todo
  /\ todo' = todo \ {a}
  /\ CASE a \in original /\ a \notin staged[cur] ->
            UNCHANGED <<original, staged, failed>>
       [] a \notin original /\ a \in staged[cur] ->
            /\ original' = original \cup {a}
            /\ staged' = [staged EXCEPT ![cur] = @ \ {a}]
            /\ UNCHANGED failed
       [] OTHER ->                     \* both exist, or both are missing
            /\ failed' = failed \cup {a}
            /\ UNCHANGED <<original, staged>>
  /\ UNCHANGED <<database, stages, durable, stageGame, items,
                 pc, ctx, victim, cur, pending, errors, outcome, crashes, faults>>

\* An Lstat, the MkdirAll or the Rename fails; the other items are still tried.
RollbackItemFails(a) ==
  /\ Fault
  /\ pc = "rollback"
  /\ a \in todo
  /\ todo' = todo \ {a}
  /\ failed' = failed \cup {a}
  /\ UNCHANGED <<database, volume, pc, ctx, victim, cur, pending, errors, outcome, crashes>>

\* Bug variant: the stage is removed although an item was not restored.
RollbackDoneRegardless ==
  /\ pc = "rollback"
  /\ todo = {}
  /\ GoTo("remove")
  /\ UNCHANGED <<database, volume, crashes, faults>>

RollbackDone ==
  /\ pc = "rollback"
  /\ todo = {}
  /\ IF failed # {}
     THEN IF ctx = "delete" THEN Return("restoreFailed") ELSE StageDone({cur})
     ELSE GoTo("remove")
  /\ UNCHANGED <<database, volume, crashes, faults>>

\* removeAll(trashRoot) unlinks what the directory holds in the order the file
\* system lists it, and the directory last.
RemoveStagedAsset(a) ==
  /\ pc = "remove"
  /\ cur # NoStage
  /\ a \in staged[cur]
  /\ staged' = [staged EXCEPT ![cur] = @ \ {a}]
  /\ UNCHANGED <<database, original, stages, durable, stageGame, items, process, crashes, faults>>

RemoveManifest ==
  /\ pc = "remove"
  /\ cur \in durable
  /\ durable' = durable \ {cur}
  /\ UNCHANGED <<database, original, stages, stageGame, items, staged, process, crashes, faults>>

RemoveStageDir ==
  /\ pc = "remove"
  /\ IF cur = NoStage
     THEN UNCHANGED <<stages, stageGame, items>>
     ELSE /\ staged[cur] = {} /\ cur \notin durable
          /\ stages' = stages \ {cur}
          /\ stageGame' = [stageGame EXCEPT ![cur] = NoGame]
          /\ items' = [items EXCEPT ![cur] = {}]
  /\ StageDone({})
  /\ UNCHANGED <<database, original, durable, staged, crashes, faults>>

\* removeAll stops with an error, whatever it has unlinked so far.
RemoveFails ==
  /\ Fault
  /\ pc = "remove"
  /\ cur # NoStage
  /\ StageDone({cur})
  /\ UNCHANGED <<database, volume, crashes>>

----------------------------------------------------------------------------
(* DeleteGame and stageManagedAssets                                       *)

\* Bug variant: a deletion does not clear what an earlier one left.
DeleteGameWithoutRecovery(g) ==
  /\ pc = "serving"
  /\ row[g] # "unborn"
  /\ pc' = "select"
  /\ ctx' = "predelete"
  /\ victim' = g
  /\ outcome' = "none"
  /\ UNCHANGED <<database, volume, crashes, faults, cur, todo, pending, failed, errors>>

\* gameMu is taken and interrupted deletions are recovered first.
DeleteGame(g) ==
  /\ pc = "serving"
  /\ row[g] # "unborn"
  /\ BeginRecovery("predelete", g)
  /\ UNCHANGED <<database, volume, crashes, faults>>

\* The transaction is open: read the row, its assets, and what others share.
SelectAssets ==
  /\ pc = "select"
  /\ IF row[victim] # "live"
     THEN Return("notFound")
     ELSE /\ todo' = Exclusive(victim) \cap original
          /\ pc' = IF todo' = {} THEN "stage" ELSE "mkdir"
          /\ ctx' = "delete"
          /\ UNCHANGED <<victim, cur, pending, failed, errors, outcome>>
  /\ UNCHANGED <<database, volume, crashes, faults>>

SelectFails ==
  /\ Fault
  /\ pc = "select"
  /\ Return("aborted")
  /\ UNCHANGED <<database, volume, crashes>>

NewStage(s) ==
  /\ stages' = stages \cup {s}
  /\ stageGame' = [stageGame EXCEPT ![s] = victim]
  /\ items' = [items EXCEPT ![s] = todo]
  /\ UNCHANGED <<original, durable, staged>>

\* Bug variant: the stage forgets its directory.
MakeStageUnnamed ==
  /\ pc = "mkdir"
  /\ \E s \in Stage \ stages : NewStage(s)
  /\ pc' = "manifest"
  /\ UNCHANGED <<database, ctx, victim, cur, todo, pending, failed, errors, outcome,
                 crashes, faults>>

MakeStage ==
  /\ pc = "mkdir"
  /\ \E s \in Stage \ stages : NewStage(s) /\ cur' = s
  /\ pc' = "manifest"
  /\ UNCHANGED <<database, ctx, victim, todo, pending, failed, errors, outcome, crashes, faults>>

\* MkdirAll fails: before it made the directory, or between it and files/.
MakeStageFails ==
  /\ Fault
  /\ pc = "mkdir"
  /\ UNCHANGED volume \/ \E s \in Stage \ stages : NewStage(s)
  /\ Return("aborted")
  /\ UNCHANGED <<database, crashes>>

\* manifest.json.tmp is written, synced and renamed to manifest.json.
WriteManifest ==
  /\ pc = "manifest"
  /\ durable' = durable \cup {cur}
  /\ GoTo("stage")
  /\ UNCHANGED <<database, original, stages, stageGame, items, staged, crashes, faults>>

WriteManifestFails ==
  /\ Fault
  /\ pc = "manifest"
  /\ pc' = "remove"
  /\ outcome' = "restored"
  /\ UNCHANGED <<database, volume, ctx, victim, cur, todo, pending, failed, errors, crashes>>

StageAsset(a) ==
  /\ pc = "stage"
  /\ a \in todo
  /\ todo' = todo \ {a}
  /\ original' = original \ {a}
  /\ staged' = [staged EXCEPT ![cur] = @ \cup {a}]
  /\ UNCHANGED <<database, stages, durable, stageGame, items, pc, ctx, victim, cur,
                 pending, failed, errors, outcome, crashes, faults>>

\* Bug variant: the stage is removed instead of rolled back.
StageFailsWithoutRollback ==
  /\ Fault
  /\ pc = "stage"
  /\ pc' = "remove"
  /\ outcome' = "restored"
  /\ UNCHANGED <<database, volume, ctx, victim, cur, todo, pending, failed, errors, crashes>>

\* A rename fails, or DELETE fails: every path renamed so far is restored.
StageFails ==
  /\ Fault
  /\ pc = "stage"
  /\ BeginRollback(cur, "restored")
  /\ UNCHANGED <<database, volume, pending, crashes>>

\* DELETE FROM games cascades to game_assets; the audit rows go with it.
DeleteRow(g) ==
  /\ row' = [row EXCEPT ![g] = "deleted"]
  /\ slug' = [slug EXCEPT ![g] = NoSlug]
  /\ urls' = [urls EXCEPT ![g] = {}]
  /\ tracked' = [tracked EXCEPT ![g] = {}]

CommitDelete ==
  /\ pc = "stage"
  /\ todo = {}
  /\ DeleteRow(victim)
  /\ pc' = "remove"
  /\ outcome' = "ok"
  /\ UNCHANGED <<volume, ctx, victim, cur, todo, pending, failed, errors, crashes, faults>>

\* Commit returns an error: the deletion may or may not have happened.
CommitFails ==
  /\ Fault
  /\ pc = "stage"
  /\ todo = {}
  /\ \/ DeleteRow(victim)
     \/ UNCHANGED database
  /\ GoTo("query")
  /\ UNCHANGED <<volume, crashes>>

\* Bug variant: a commit that returned an error is taken for a commit.
QueryOutcomeAssumed ==
  /\ pc = "query"
  /\ pc' = "remove"
  /\ outcome' = "ok"
  /\ UNCHANGED <<database, volume, ctx, victim, cur, todo, pending, failed, errors,
                 crashes, faults>>

QueryOutcome ==
  /\ pc = "query"
  /\ IF row[victim] = "live"
     THEN BeginRollback(cur, "restored") /\ UNCHANGED pending
     ELSE /\ pc' = "remove"
          /\ outcome' = "ok"
          /\ UNCHANGED <<ctx, victim, cur, todo, pending, failed, errors>>
  /\ UNCHANGED <<database, volume, crashes, faults>>

\* The outcome stays unknown, and the stage is kept for the next recovery.
QueryFails ==
  /\ Fault
  /\ pc = "query"
  /\ Return("unknown")
  /\ UNCHANGED <<database, volume, crashes>>

----------------------------------------------------------------------------
Recover ==
  \/ \E s \in Stage : RecoverStage(s)
  \/ RecoveryDone
  \/ \E a \in Asset : RollbackItem(a)
  \/ RollbackDone
  \/ \E a \in Asset : RemoveStagedAsset(a)
  \/ RemoveManifest
  \/ RemoveStageDir

Delete ==
  \/ SelectAssets
  \/ MakeStage
  \/ WriteManifest
  \/ \E a \in Asset : StageAsset(a)
  \/ CommitDelete
  \/ QueryOutcome

Fail ==
  \/ \E s \in Stage : RecoverStageFails(s)
  \/ \E a \in Asset : RollbackItemFails(a)
  \/ RemoveFails
  \/ SelectFails
  \/ MakeStageFails
  \/ WriteManifestFails
  \/ StageFails
  \/ CommitFails
  \/ QueryFails

Request ==
  \/ \E g \in Game, n \in Slug, U \in Urls : CreateGame(g, n, U) \/ UpdateGame(g, n, U)
  \/ \E g \in Game : DeleteGame(g)

Next == Start \/ Crash \/ Recover \/ Delete \/ Fail \/ Request

\* Compose restarts the process (restart: unless-stopped), and a goroutine that
\* is running a recovery or a deletion keeps running.
Fairness == WF_vars(Start) /\ WF_vars(Recover) /\ WF_vars(Delete)

Spec == Init /\ [][Next]_vars /\ Fairness

----------------------------------------------------------------------------
\* However deletions fail and the process dies, there is never a second stage
\* in .atri-trash: every deletion first clears what an earlier one left.
OneStage == \A s, t \in stages : s = t

----------------------------------------------------------------------------
(* The inductive invariant behind the safety properties, by parts          *)

Staging == {"manifest", "stage", "query"}

\* What is in .atri-trash, whatever the process is doing.
TrashInv ==
  /\ durable \subseteq stages
  /\ \A s \in Stage \ stages : staged[s] = {}
  /\ \A s \in stages :
       /\ stageGame[s] \in Game /\ row[stageGame[s]] # "unborn"
       /\ staged[s] \subseteq items[s]
       /\ staged[s] \cap original = {}
       /\ s \notin durable /\ row[stageGame[s]] = "live" => staged[s] = {}
  /\ OneStage

\* A stage may be rolled back only while its game lives; when no item is left
\* and none failed, all are restored.  It may be unlinked only once nothing of a
\* living game is in it.
UnwindInv ==
  /\ pc = "rollback" /\ cur = NoStage => todo = {}
  /\ pc = "rollback" /\ cur # NoStage =>
       /\ cur \in durable
       /\ row[stageGame[cur]] = "live"
       /\ staged[cur] \subseteq todo \cup failed
  /\ pc = "remove" /\ cur # NoStage =>
       /\ cur \in stages
       /\ row[stageGame[cur]] = "live" => staged[cur] = {}
  /\ pc \in {"rollback", "remove"} /\ ctx # "delete" => cur # NoStage

\* While a pass has met no error, the directories left are those still ahead of
\* it and the one in hand.
PassInv ==
  /\ pc = "recover" => ctx # "delete"
  /\ ctx # "delete" /\ errors = {} =>
       /\ pc = "recover" => stages \subseteq pending
       /\ pc \in {"rollback", "remove"} => stages \subseteq pending \cup {cur}
  /\ ctx = "predelete" /\ pc \in {"recover", "rollback", "remove", "select"} =>
       victim \in Game /\ row[victim] # "unborn"

\* What DeleteGame holds between its reads and the end of its transaction.
DeleteInv ==
  /\ pc \in {"down", "refused", "recover", "serving", "select", "mkdir"} => cur = NoStage
  /\ pc = "select" => stages = {} /\ ctx = "predelete"
  /\ pc = "mkdir" =>
       /\ stages = {} /\ ctx = "delete" /\ victim \in Live
       /\ todo = Exclusive(victim) \cap original
  /\ pc \in Staging =>
       /\ ctx = "delete" /\ victim \in Game
       /\ cur # NoStage => cur \in stages /\ stageGame[cur] = victim
       /\ stages \subseteq {cur}
  /\ pc = "manifest" => cur # NoStage /\ cur \notin durable /\ staged[cur] = {} /\ items[cur] = todo
  /\ pc \in {"stage", "query"} => IF cur = NoStage THEN todo = {} ELSE cur \in durable
  /\ pc \in {"manifest", "stage"} =>
       /\ row[victim] = "live"
       /\ todo = Exclusive(victim) \cap original
       /\ cur # NoStage => items[cur] = todo \cup staged[cur] /\ items[cur] \subseteq Exclusive(victim)
  /\ pc = "query" => row[victim] # "unborn"
  /\ pc \in {"rollback", "remove"} /\ ctx = "delete" /\ cur # NoStage => stageGame[cur] = victim

\* The value DeleteGame is about to return agrees with the row and the journal.
OutcomeInv ==
  /\ pc \in {"down", "refused", "select", "mkdir", "manifest", "stage", "query"} =>
       outcome \notin {"ok", "restored"}
  /\ pc = "recover" => outcome = "none"
  /\ pc \in {"rollback", "remove"} /\ ctx # "delete" => outcome = "none"
  /\ pc \in {"rollback", "remove"} /\ ctx = "delete" =>
       victim \in Game /\ outcome \in {"ok", "restored"} /\ stages \subseteq {cur}
  /\ pc = "rollback" /\ ctx = "delete" => outcome = "restored" /\ row[victim] = "live"
  /\ pc \in {"remove", "serving"} /\ outcome = "ok" => victim \in Game /\ row[victim] = "deleted"
  /\ pc \in {"remove", "serving"} /\ outcome = "restored" =>
       victim \in Live /\ \A s \in stages : staged[s] = {}

StageInv == TypeOK /\ TrashInv /\ UnwindInv /\ PassInv /\ DeleteInv /\ OutcomeInv

----------------------------------------------------------------------------
(* Properties                                                              *)

\* Assets that are public, or staged under a manifest that recovery will roll
\* back because the game it names still has its row.
Safe == original \cup
        UNION {staged[s] : s \in {t \in durable : row[stageGame[t]] = "live"}}

\* Deleting a game is atomic for its files: seen through recovery, a game and
\* the files only it uses go in the step that commits the DELETE, and no crash,
\* failed rename, failed unlink or unknown commit outcome takes any other file.
DeletionIsAtomic == INSTANCE AtomicDeletion WITH volume <- Safe
ImplementsAtomicDeletion == DeletionIsAtomic!Spec

\* A staged file is unlinked only after its game's row is gone (the commit is
\* the point of no return, game_lifecycle.go:327), and renamed back only while
\* the row is there: recovery never brings back the files of a deleted game.
RowDecides ==
  \A s \in Stage : \A a \in staged[s] \ staged'[s] :
    row[stageGame[s]] = IF a \in original' THEN "live" ELSE "deleted"
CommitDecides == [][RowDecides]_vars

\* What DeleteGame returns is what happened: nil only if the row is gone; an
\* error that says the files were restored only if the row is there and no file
\* of the game is left in the journal ("Database or staging failures restore
\* every renamed path", game_lifecycle.go:197).
HonestOutcome ==
  pc = "serving" =>
    /\ outcome = "ok" => row[victim] = "deleted"
    /\ outcome = "restored" =>
         /\ row[victim] = "live"
         /\ \A s \in Stage : stageGame[s] = victim => staged[s] = {}

\* A start that ends in serving has left nothing in .atri-trash and no file
\* away from its public path.
NothingPending ==
  pc = "recover" /\ ctx = "startup" /\ pc' = "serving" => stages = {} /\ Safe = original
CleanStart == [][NothingPending]_vars

\* Every interrupted deletion whose manifest is durable when the process is
\* down is eventually resolved, through any number of restarts.
InterruptedDeletionResolved ==
  \A s \in Stage : (pc = "down" /\ s \in durable) ~> (s \notin durable)

\* "RecoverManagedAssets resolves interrupted game deletions"
\* (game_lifecycle.go:128): with no I/O or SQL error, a start is never refused.
StartupNotRefused == faults = 0 => pc # "refused"
=============================================================================

------------------------------ MODULE GameCover ------------------------------
(***************************************************************************)
(* Uploaded covers: a content-hash file covers/<slug>/cover-<digest>.<ext> *)
(* is installed through a journal directory of .atri-cover-uploads/, named *)
(* by a row's cover_url, and unlinked once no row names it any more        *)
(* (apps/api/internal/data/game_cover.go).                                 *)
(*                                                                         *)
(* A Cover is such a path; its name fixes its content, so a path either is *)
(* present or is not.  Upload i is the i-th call that carries an image; it *)
(* names the call's receipt token and its journal directory.  gameMu       *)
(* serialises all operations.  NoCover stands for every cover_url that is  *)
(* no such path: an external one, or covers/<slug>/cover.<ext> of a        *)
(* package.                                                                *)
(***************************************************************************)
EXTENDS Naturals, FiniteSets

CONSTANTS Game, NoGame, Slug, NoSlug, Cover, NoCover,
          NamespaceOf,           \* [Cover -> Slug]: the covers/<slug>/ it lies in
          MaxUploads,            \* bound on the calls that carry an image
          MaxCrashes, MaxFaults  \* bounds on the injected crashes and errors

ASSUME ConstantsAssumption ==
  /\ NoGame \notin Game /\ NoSlug \notin Slug /\ NoCover \notin Cover
  /\ NamespaceOf \in [Cover -> Slug]
  /\ MaxUploads \in Nat /\ MaxCrashes \in Nat /\ MaxFaults \in Nat

Upload == 1 .. MaxUploads
None == 0

VARIABLES
  \* SQLite: games, game_assets (directories covers/<slug>), game_cover_receipts
  slug, coverUrl, tracked, receipt,
  \* history of the rows: the games that came to name a cover a kept stage may still
  \* take away, and those whose cover went with a directory they do not track
  crowded, overwritten,
  \* asset volume
  present, stages, durable, incoming,
  \* the manifest of each upload so far
  uploads, target, old, created,
  \* the API process
  pc, ctx, cur, game, name, drop, finalizing, pending, errors, outcome,
  before,       \* history: the covers present when the upload in progress began
  crashes, faults

database == <<slug, coverUrl, tracked, receipt, crowded, overwritten>>
volume == <<present, stages, durable, incoming>>
manifests == <<uploads, target, old, created>>
process == <<pc, ctx, cur, game, name, drop, finalizing, pending, errors, outcome, before>>
vars == <<database, volume, manifests, process, crashes, faults>>

Live == {g \in Game : slug[g] # NoSlug}
SlugTaken(g, n) == \E h \in Live \ {g} : slug[h] = n
Committed(i) == receipt[i] # NoGame
Fault == faults < MaxFaults /\ faults' = faults + 1

\* gameCoverPathReferencedByOther and gameCoverPathReferenced.
ReferencedByOther(c, g) == \E h \in Live \ {g} : coverUrl[h] = c
Referenced(c) == ReferencedByOther(c, NoGame)

TypeOK ==
  /\ slug \in [Game -> Slug \cup {NoSlug}]
  /\ coverUrl \in [Game -> Cover \cup {NoCover}]
  /\ tracked \in [Game -> SUBSET Slug]
  /\ receipt \in [Upload -> Game \cup {NoGame}]
  /\ present \in SUBSET Cover
  /\ stages \in SUBSET Upload
  /\ durable \in SUBSET stages
  /\ incoming \in SUBSET stages
  /\ uploads \in 0 .. MaxUploads
  /\ target \in [Upload -> Cover \cup {NoCover}]
  /\ old \in [Upload -> Cover \cup {NoCover}]
  /\ created \in [Upload -> BOOLEAN]
  /\ pc \in {"down", "refused", "recover", "serving", "cleanup", "prepare", "activate",
             "mutate", "resolve", "rollback", "target", "old", "remove", "receipt"}
  /\ ctx \in {"startup", "upload"}
  /\ cur \in Upload \cup {None}
  /\ game \in Game \cup {NoGame}
  /\ name \in Slug \cup {NoSlug}
  /\ drop \in Cover \cup {NoCover}
  /\ finalizing \in BOOLEAN
  /\ pending \in SUBSET Upload
  /\ errors \in BOOLEAN
  /\ outcome \in {"none", "ok", "unread", "aborted", "restored", "restoreFailed", "unknown"}
  /\ before \in SUBSET Cover
  /\ crowded \in SUBSET Game /\ overwritten \in SUBSET Game
  /\ crashes \in 0 .. MaxCrashes
  /\ faults \in 0 .. MaxFaults

Init ==
  /\ slug = [g \in Game |-> NoSlug]
  /\ coverUrl = [g \in Game |-> NoCover]
  /\ tracked = [g \in Game |-> {}]
  /\ receipt = [i \in Upload |-> NoGame]
  /\ present = {}
  /\ stages = {}
  /\ durable = {}
  /\ incoming = {}
  /\ uploads = 0
  /\ target = [i \in Upload |-> NoCover]
  /\ old = [i \in Upload |-> NoCover]
  /\ created = [i \in Upload |-> FALSE]
  /\ pc = "down"
  /\ ctx = "startup"
  /\ cur = None
  /\ game = NoGame
  /\ name = NoSlug
  /\ drop = NoCover
  /\ finalizing = FALSE
  /\ pending = {}
  /\ errors = FALSE
  /\ outcome = "none"
  /\ before = {}
  /\ crowded = {} /\ overwritten = {}
  /\ crashes = 0
  /\ faults = 0

----------------------------------------------------------------------------
(* Helpers of the process                                                  *)

Forget ==
  /\ cur' = None
  /\ game' = NoGame
  /\ name' = NoSlug
  /\ drop' = NoCover
  /\ finalizing' = FALSE
  /\ before' = {}

\* The operation returns r and releases gameMu.
Return(r) ==
  /\ pc' = "serving"
  /\ ctx' = "startup"
  /\ Forget
  /\ outcome' = r
  /\ UNCHANGED <<pending, errors>>

GoTo(l) ==
  /\ pc' = l
  /\ UNCHANGED <<ctx, cur, game, name, drop, finalizing, pending, errors, outcome, before>>

\* Bug variant: the error of one stage is not joined into the result.
StageDoneLosingError(E) ==
  IF ctx = "upload"
  THEN Return(IF E /\ outcome = "restored" THEN "restoreFailed" ELSE outcome)
  ELSE /\ pc' = "recover"
       /\ Forget
       /\ UNCHANGED <<ctx, pending, errors, outcome>>

\* The stage in hand is done with; E says whether with an error.
StageDone(E) ==
  IF ctx = "upload"
  THEN Return(IF E /\ outcome = "restored" THEN "restoreFailed" ELSE outcome)
  ELSE /\ pc' = "recover"
       /\ Forget
       /\ errors' = (errors \/ E)
       /\ UNCHANGED <<ctx, pending, outcome>>

----------------------------------------------------------------------------
(* The process and its restarts                                            *)

Start ==
  /\ pc \in {"down", "refused"}
  /\ pc' = "recover"
  /\ pending' = stages
  /\ errors' = FALSE
  /\ UNCHANGED <<database, volume, manifests, ctx, cur, game, name, drop, finalizing,
                 outcome, before, crashes, faults>>

\* SIGTERM while no request is being handled, as when the container is replaced:
\* Shutdown waits for the requests (one that outlasts it ends in a Crash).  It is no
\* interruption and is not counted; the next start recovers as every start does.
Stop ==
  /\ pc = "serving"
  /\ pc' = "down"
  /\ outcome' = "none"
  /\ UNCHANGED <<database, volume, manifests, ctx, cur, game, name, drop, finalizing, pending,
                 errors, before, crashes, faults>>

Crash ==
  /\ crashes < MaxCrashes
  /\ crashes' = crashes + 1
  /\ pc \notin {"down", "refused"}
  /\ pc' = "down"
  /\ ctx' = "startup"
  /\ Forget
  /\ pending' = {}
  /\ errors' = FALSE
  /\ outcome' = "none"
  /\ UNCHANGED <<database, volume, manifests, faults>>

----------------------------------------------------------------------------
(* The writers that carry no image                                         *)

\* A stage of an earlier call, kept in the journal, would unlink c if it were rolled
\* back, and neither is nor will be known to have recorded game g.
MayBeTaken(c, g) ==
  \E i \in durable \ {cur} : created[i] /\ target[i] = c /\ receipt[i] # g

\* What createGame and updateGame write: trackGameAssetsTx never deletes.
Write(g, n, c) ==
  /\ slug' = [slug EXCEPT ![g] = n]
  /\ coverUrl' = [coverUrl EXCEPT ![g] = c]
  /\ tracked' = [tracked EXCEPT ![g] = @ \cup ({n} \cap {NamespaceOf[d] : d \in Cover \cap {c}})]
  /\ crowded' = {h \in crowded : h # g \/ c \notin present} \cup {h \in {g} : MayBeTaken(c, g)}
  /\ overwritten' = {h \in overwritten : h # g \/ c \notin present}

\* CreateGame, or UpdateGameWithCoverCleanup: it names a cover that is there, of
\* this game or of another, or one that is not managed, or leaves the URL as it is.
SaveGame(g, n, c) ==
  /\ pc = "serving"
  /\ ~SlugTaken(g, n)
  /\ c \in present \cup {NoCover} \cup {coverUrl[d] : d \in Live \cap {g}}
  /\ Write(g, n, c)
  /\ IF coverUrl[g] \in {c, NoCover}
     THEN UNCHANGED <<pc, drop>>
     ELSE pc' = "cleanup" /\ drop' = coverUrl[g]
  /\ UNCHANGED <<receipt, volume, manifests, ctx, cur, game, name, finalizing, pending, errors,
                 outcome, before, crashes, faults>>

\* removeUnreferencedGameCover, after the commit.
CleanUp ==
  /\ pc = "cleanup"
  /\ present' = IF Referenced(drop) THEN present ELSE present \ {drop}
  /\ Return("ok")
  /\ UNCHANGED <<database, stages, durable, incoming, manifests, crashes, faults>>

\* Its error is ignored: the file stays.
CleanUpFails ==
  /\ Fault
  /\ pc = "cleanup"
  /\ Return("ok")
  /\ UNCHANGED <<database, volume, manifests, crashes>>

\* DeleteGame takes the cover directories only g tracks and no other game names;
\* the receipts go by cascade.
DeleteGame(g) ==
  /\ pc = "serving"
  /\ g \in Live
  /\ LET others == Live \ {g}
         gone == tracked[g] \ UNION {tracked[h] \cup {NamespaceOf[c] : c \in Cover \cap {coverUrl[h]}}
                                       : h \in others}
     IN present' = {c \in present : NamespaceOf[c] \notin gone}
  /\ slug' = [slug EXCEPT ![g] = NoSlug]
  /\ coverUrl' = [coverUrl EXCEPT ![g] = NoCover]
  /\ tracked' = [tracked EXCEPT ![g] = {}]
  /\ receipt' = [i \in Upload |-> IF receipt[i] = g THEN NoGame ELSE receipt[i]]
  /\ crowded' = crowded \ {g}
  /\ overwritten' = overwritten \ {g}
  /\ UNCHANGED <<stages, durable, incoming, manifests, process, crashes, faults>>

Lies(c, n) == c \in Cover /\ NamespaceOf[c] = n

\* What an import of slug n as game g does to the covers: the whole directory
\* covers/n is replaced by the package's.
ReplaceDirectory(g, n) ==
  /\ present' = {c \in present : ~Lies(c, n)}
  /\ slug' = [slug EXCEPT ![g] = n]
  /\ coverUrl' = [coverUrl EXCEPT ![g] = NoCover]
  /\ tracked' = [tracked EXCEPT ![g] = @ \cup {n}]
  /\ crowded' = crowded \ {g}
  /\ overwritten' = (overwritten \cup {h \in Live : Lies(coverUrl[h], n) /\ n \notin tracked[h]}) \ {g}
  /\ UNCHANGED <<receipt, stages, durable, incoming, manifests, process, crashes, faults>>

\* Bug variant: it is not asked whether another game tracks the directory.
ImportGameUnasked(g, n) ==
  /\ pc = "serving"
  /\ slug[g] \in {n, NoSlug} /\ ~SlugTaken(g, n)
  /\ ReplaceDirectory(g, n)

\* ImportGame of a package for slug n, as one step: its journal, failures and
\* recovery are module GameImport's.  No other game may track the directory; what
\* other rows name by URL is not asked.
ImportGame(g, n) ==
  /\ pc = "serving"
  /\ slug[g] \in {n, NoSlug} /\ ~SlugTaken(g, n)
  /\ \A h \in Game \ {g} : n \notin tracked[h]
  /\ ReplaceDirectory(g, n)

----------------------------------------------------------------------------
(* CreateGameWithCover and UpdateGameWithCover                             *)

\* exclusiveReplacedGameCover: what the update may unlink, if it is this game's alone.
Replaced(g, c) ==
  IF coverUrl[g] = c \/ ReferencedByOther(coverUrl[g], g) THEN NoCover ELSE coverUrl[g]

\* Bug variant: createdTarget is set whether or not the image was there already.
UploadCoverAlwaysCreated(g, n, c) ==
  /\ pc = "serving"
  /\ uploads < MaxUploads
  /\ NamespaceOf[c] = n
  /\ uploads' = uploads + 1
  /\ cur' = uploads'
  /\ target' = [target EXCEPT ![cur'] = c]
  /\ old' = [old EXCEPT ![cur'] = Replaced(g, c)]
  /\ created' = [created EXCEPT ![cur'] = TRUE]
  /\ stages' = stages \cup {cur'}
  /\ incoming' = incoming \cup {cur'}
  /\ pc' = "prepare"
  /\ ctx' = "upload"
  /\ game' = g
  /\ name' = n
  /\ before' = present
  /\ outcome' = "none"
  /\ UNCHANGED <<database, present, durable, drop, finalizing, pending, errors, crashes, faults>>

\* The image c of a game g with slug n, in the namespace of n.  MkdirTemp, and
\* the upload is renamed into the stage.
UploadCover(g, n, c) ==
  /\ pc = "serving"
  /\ uploads < MaxUploads
  /\ NamespaceOf[c] = n
  /\ uploads' = uploads + 1
  /\ cur' = uploads'
  /\ target' = [target EXCEPT ![cur'] = c]
  /\ old' = [old EXCEPT ![cur'] = Replaced(g, c)]
  /\ created' = [created EXCEPT ![cur'] = c \notin present]
  /\ stages' = stages \cup {cur'}
  /\ incoming' = incoming \cup {cur'}
  /\ pc' = "prepare"
  /\ ctx' = "upload"
  /\ game' = g
  /\ name' = n
  /\ before' = present
  /\ outcome' = "none"
  /\ UNCHANGED <<database, present, durable, drop, finalizing, pending, errors, crashes, faults>>

WriteManifest ==
  /\ pc = "prepare"
  /\ durable' = durable \cup {cur}
  /\ GoTo("activate")
  /\ UNCHANGED <<database, present, stages, incoming, manifests, crashes, faults>>

PrepareFails ==
  /\ Fault
  /\ pc = "prepare"
  /\ \/ stages' = stages \ {cur} /\ incoming' = incoming \ {cur}
     \/ UNCHANGED <<stages, incoming>>
  /\ Return("aborted")
  /\ UNCHANGED <<database, present, durable, manifests, crashes>>

\* activate: rename to the target, unless the same image is there already.
Installed ==
  IF created[cur]
  THEN present' = present \cup {target[cur]} /\ incoming' = incoming \ {cur}
  ELSE UNCHANGED <<present, incoming>>

Activate ==
  /\ pc = "activate"
  /\ Installed
  /\ GoTo("mutate")
  /\ UNCHANGED <<database, stages, durable, manifests, crashes, faults>>

BeginRollback ==
  /\ pc' = "rollback"
  /\ outcome' = IF ctx = "upload" THEN "restored" ELSE outcome
  /\ UNCHANGED <<ctx, game, name, drop, finalizing, errors, before>>

\* The rename fails, or what follows it (chmod, the digest check).
ActivateFails ==
  /\ Fault
  /\ pc = "activate"
  /\ Installed \/ UNCHANGED <<present, incoming>>
  /\ BeginRollback
  /\ UNCHANGED <<database, stages, durable, manifests, cur, pending, crashes>>

\* The transaction of createGame or updateGame, with the receipt.
Record ==
  /\ Write(game, name, target[cur])
  /\ receipt' = [receipt EXCEPT ![cur] = game]

\* It commits, and the game is read back.
Mutate ==
  /\ pc = "mutate"
  /\ ~SlugTaken(game, name)
  /\ Record
  /\ pc' = "target"
  /\ finalizing' = TRUE
  /\ outcome' = "ok"
  /\ UNCHANGED <<volume, manifests, ctx, cur, game, name, drop, pending, errors, before,
                 crashes, faults>>

\* UNIQUE(slug) rejects it.
MutateRejected ==
  /\ pc = "mutate"
  /\ SlugTaken(game, name)
  /\ GoTo("resolve")
  /\ UNCHANGED <<database, volume, manifests, crashes, faults>>

\* A statement, the commit or the read-back fails: the receipt will tell.
MutateFails ==
  /\ Fault
  /\ pc = "mutate"
  /\ (Record /\ ~SlugTaken(game, name)) \/ UNCHANGED database
  /\ GoTo("resolve")
  /\ UNCHANGED <<volume, manifests, crashes>>

ResolveReceipt ==
  /\ pc = "resolve"
  /\ IF Committed(cur)
     THEN /\ pc' = "target"
          /\ finalizing' = TRUE
          /\ outcome' = "ok"
          /\ UNCHANGED <<ctx, game, name, drop, errors, before>>
     ELSE BeginRollback
  /\ UNCHANGED <<database, volume, manifests, cur, pending, crashes, faults>>

\* The receipt cannot be read: the stage is kept for the next start.
ResolveFails ==
  /\ Fault
  /\ pc = "resolve"
  /\ Return("unknown")
  /\ UNCHANGED <<database, volume, manifests, crashes>>

\* The receipt is there but the game cannot be read back.
ReadBackFails ==
  /\ Fault
  /\ pc = "target" /\ outcome = "ok"
  /\ outcome' = "unread"
  /\ UNCHANGED <<database, volume, manifests, pc, ctx, cur, game, name, drop, finalizing,
                 pending, errors, before, crashes>>

----------------------------------------------------------------------------
(* gameCoverStage.rollback and finalizeGameCoverReceipt                    *)

\* Bug variant: createdTarget is not consulted.
RollbackTargetRegardless ==
  /\ pc = "rollback"
  /\ present' = present \ {target[cur]}
  /\ GoTo("remove")
  /\ UNCHANGED <<database, stages, durable, incoming, manifests, crashes, faults>>

\* rollback unlinks the target if this stage created it.
RollbackTarget ==
  /\ pc = "rollback"
  /\ present' = IF created[cur] THEN present \ {target[cur]} ELSE present
  /\ GoTo("remove")
  /\ UNCHANGED <<database, stages, durable, incoming, manifests, crashes, faults>>

\* finalize: the target must be there while a row names it; an installed one that
\* no row names any more is unlinked.
FinalizeTarget ==
  /\ pc = "target"
  /\ IF Referenced(target[cur])
     THEN /\ IF target[cur] \in present THEN GoTo("old") ELSE StageDone(TRUE)
          /\ UNCHANGED present
     ELSE /\ present' = IF created[cur] THEN present \ {target[cur]} ELSE present
          /\ GoTo("old")
  /\ UNCHANGED <<database, stages, durable, incoming, manifests, crashes, faults>>

\* The cover it replaced is unlinked if no row names it.
FinalizeOld ==
  /\ pc = "old"
  /\ present' = IF Referenced(old[cur]) THEN present ELSE present \ {old[cur]}
  /\ GoTo("remove")
  /\ UNCHANGED <<database, stages, durable, incoming, manifests, crashes, faults>>

\* Bug variant: the journal directory goes first, the manifest with nothing around it.
RemoveManifestWithStage ==
  /\ pc = "remove"
  /\ cur \in durable
  /\ stages' = stages \ {cur}
  /\ GoTo("remove")
  /\ UNCHANGED <<database, present, durable, incoming, manifests, crashes, faults>>

\* removeAll(stageRoot): install.json and incoming in any order, the directory last.
RemoveManifest ==
  /\ pc = "remove"
  /\ cur \in durable
  /\ durable' = durable \ {cur}
  /\ UNCHANGED <<database, present, stages, incoming, manifests, process, crashes, faults>>

RemoveIncoming ==
  /\ pc = "remove"
  /\ cur \in incoming
  /\ incoming' = incoming \ {cur}
  /\ UNCHANGED <<database, present, stages, durable, manifests, process, crashes, faults>>

RemoveStageDir ==
  /\ pc = "remove"
  /\ cur \notin durable \cup incoming
  /\ stages' = stages \ {cur}
  /\ IF finalizing THEN GoTo("receipt") ELSE StageDone(FALSE)
  /\ UNCHANGED <<database, present, durable, incoming, manifests, crashes, faults>>

DropReceipt ==
  /\ pc = "receipt"
  /\ receipt' = [receipt EXCEPT ![cur] = NoGame]
  /\ StageDone(FALSE)
  /\ UNCHANGED <<slug, coverUrl, tracked, crowded, overwritten, volume, manifests, crashes, faults>>

\* A query, an unlink or removeAll fails: rollback or finalize stops there.
ResolutionFails ==
  /\ Fault
  /\ pc \in {"rollback", "target", "old", "remove", "receipt"}
  /\ StageDone(TRUE)
  /\ UNCHANGED <<database, volume, manifests, crashes>>

----------------------------------------------------------------------------
(* RecoverGameCoverUploads                                                 *)

\* Bug variant: a stage without a manifest is an error like any other.
RecoverStageStrictly(i) ==
  /\ pc = "recover"
  /\ i \in pending
  /\ pending' = pending \ {i}
  /\ cur' = i
  /\ CASE i \notin durable ->
            /\ pc' = "recover"
            /\ errors' = TRUE
            /\ UNCHANGED <<ctx, game, name, drop, finalizing, outcome, before>>
       [] i \in durable /\ Committed(i) ->
            /\ pc' = "target"
            /\ finalizing' = TRUE
            /\ UNCHANGED <<ctx, game, name, drop, errors, outcome, before>>
       [] OTHER -> BeginRollback
  /\ UNCHANGED <<database, volume, manifests, crashes, faults>>

RecoverStage(i) ==
  /\ pc = "recover"
  /\ i \in pending
  /\ pending' = pending \ {i}
  /\ cur' = i
  /\ CASE i \notin durable ->
            /\ pc' = "remove"
            /\ UNCHANGED <<ctx, game, name, drop, finalizing, errors, outcome, before>>
       [] i \in durable /\ Committed(i) ->
            /\ pc' = "target"
            /\ finalizing' = TRUE
            /\ UNCHANGED <<ctx, game, name, drop, errors, outcome, before>>
       [] OTHER -> BeginRollback
  /\ UNCHANGED <<database, volume, manifests, crashes, faults>>

RecoverStageFails(i) ==
  /\ Fault
  /\ pc = "recover"
  /\ i \in pending
  /\ pending' = pending \ {i}
  /\ errors' = TRUE
  /\ UNCHANGED <<database, volume, manifests, pc, ctx, cur, game, name, drop, finalizing,
                 outcome, before, crashes>>

RecoveryDone ==
  /\ pc = "recover"
  /\ pending = {}
  /\ GoTo(IF errors THEN "refused" ELSE "serving")
  /\ UNCHANGED <<database, volume, manifests, crashes, faults>>

----------------------------------------------------------------------------
Work ==
  \/ CleanUp
  \/ WriteManifest \/ Activate \/ Mutate \/ MutateRejected \/ ResolveReceipt
  \/ RollbackTarget \/ FinalizeTarget \/ FinalizeOld
  \/ RemoveManifest \/ RemoveIncoming \/ RemoveStageDir \/ DropReceipt
  \/ \E i \in Upload : RecoverStage(i)
  \/ RecoveryDone

Fail ==
  \/ CleanUpFails \/ PrepareFails \/ ActivateFails \/ MutateFails \/ ResolveFails
  \/ ReadBackFails \/ ResolutionFails
  \/ \E i \in Upload : RecoverStageFails(i)

Request ==
  \/ \E g \in Game, n \in Slug : \E c \in Cover \cup {NoCover} : SaveGame(g, n, c)
  \/ \E g \in Game : DeleteGame(g)
  \/ \E g \in Game, n \in Slug : ImportGame(g, n)
  \/ \E g \in Game, n \in Slug, c \in Cover : UploadCover(g, n, c)

Next == Start \/ Stop \/ Crash \/ Work \/ Fail \/ Request

\* Compose restarts a process that exited, and a goroutine that holds gameMu
\* keeps running.
Fairness == WF_vars(Start) /\ WF_vars(Work)

Spec == Init /\ [][Next]_vars /\ Fairness

----------------------------------------------------------------------------
(* Properties                                                              *)

\* Every content-hash cover that a row names is on the volume, over any number of
\* crashes, failed steps and ordinary restarts, however covers are shared, replaced,
\* renamed and imported over ("only while it remains unreferenced", game_cover.go:121).
\* Two kinds of rows are not promised theirs: one that names a file of another game's
\* directory when an import, which does not ask for it, replaces that directory, and,
\* once a step has failed, one that came to name a file which a stage that was kept
\* in the journal had created (RecoverySparesNamedCovers is about that one).
NamedCoversArePresent ==
  \A g \in Live : coverUrl[g] # NoCover =>
    coverUrl[g] \in present \/ g \in overwritten \/ (faults > 0 /\ g \in crowded)

\* What an upload returns is what happened: a game means that its row names the
\* new cover and the cover is there; an error that reports no failed restore means
\* that the covers on the volume are those that were there before.
ReturnsWhatHappened ==
  ctx = "upload" /\ pc' = "serving" =>
    /\ outcome' = "ok" => coverUrl'[game] = target[cur] /\ target[cur] \in present'
    /\ outcome' \in {"restored", "aborted"} => present' = before /\ ~Committed(cur)
HonestUpload == [][ReturnsWhatHappened]_vars

\* A start that ends in serving has emptied .atri-cover-uploads.
NothingPending == pc = "recover" /\ pc' = "serving" => stages = {}
CleanStart == [][NothingPending]_vars

\* Crashes alone cannot keep the server down: while no step has failed, whatever
\* they interrupted - a recovery included - a start that serves follows.
ServesAgain == pc = "down" /\ faults = 0 ~> pc = "serving"

\* "A stage without one [a receipt] is rolled back" (game_cover.go:206), and a
\* cover is removed "only while it remains unreferenced" (game_cover.go:121): no
\* recovery takes away a cover that a row names.
NamedCoversStay ==
  \A c \in present \ present' : ctx = "startup" /\ cur # None => ~Referenced(c)
RecoverySparesNamedCovers == [][NamedCoversStay]_vars
=============================================================================

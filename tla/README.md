# Formal models of Atri Games

Atri Games is a catalogue and publishing platform for browser games: a Go API
(`src/apps/api`) over SQLite, a volume of static files that Caddy serves, an
optional MinIO mirror, and React front ends. These TLA+ modules model the parts
of the API in which several steps, actors or failures meet. The core is the code
that keeps the **files on the asset volume and the rows in SQLite in agreement**
although no transaction spans both. Around it stand the components that meet in the
database only, where the question is what a handler may still rely on of what it read before
its write.

Files are named below relative to `src/apps/api/`.

## 1. The system

### Components

| Component | State it keeps | Operations | What makes it correct |
|---|---|---|---|
| Permanent deletion, `internal/data/game_lifecycle.go` | row, `game_assets`, files, `.atri-trash/delete-*` with `manifest.json` | `DeleteGame`, `RecoverManagedAssets` | a game and the files only it uses go together or not at all; no other file goes; the answer is true; every interruption is resolved |
| Package installation, `internal/data/game_import.go` | `covers/<slug>`, `playables/<slug>`, `.atri-imports/install-*`, `game_packages.receipt_token` | `ImportGame`, `RecoverGameImports` | files and receipt agree whenever the server serves |
| Uploaded covers, `internal/data/game_cover.go` | content-hash files, `.atri-cover-uploads/*`, `game_cover_receipts`, `games.cover_url` | `CreateGameWithCover`, `UpdateGameWithCover`, `UpdateGameWithCoverCleanup`, `RecoverGameCoverUploads` | a cover that a row names stays on the volume |
| Server process, `cmd/server/main.go` | - | the three recoveries in turn, then listen; exit 1 on an error | never serves with work pending; can start again after a crash and after an ordinary shutdown |
| Catalogue writes, `internal/data/store.go` | `games`, `game_assets` | `CreateGame`, `UpdateGame` | a slug is unique; ownership of files is never forgotten |
| Review and publication, `game_lifecycle.go`, `httpapi/server.go` | `status`, `published_at`, events | `ApproveGame`, `UnpublishGame`, `approveGame` | one announcement for one publication |
| Version rollback, `httpapi/community.go` | `game_versions`, the row | `rollbackGame` | the row is not taken back to a removed cover |
| Matchmaking, `internal/data/game_platform.go` | `matchmaking_tickets` | `CreateMatchTicket`, `MatchTicketByID`, `CancelMatchTicket` | at most one waiting ticket of a pool; a final status stays final; the answer is the status |
| Player data, `game_platform.go` | `game_player_data` | `PutGameData`, `DeleteGameData` | quota of keys and bytes |
| Capability resolution, `game_platform.go` | - | `resolveGamePlatform` | a pure function of declared and default modes |
| Social, `game_social.go` | likes, shares, comments | `CreateGameComment`, `DeleteGameComment`, ... | no visible reply below a deleted root |
| Community, `community.go` | follows, blocks, feed, notifications | `FollowCreator`, `FollowGame`, `BlockUser`, `RecordGameCommunityEvent`, ... | a blocked pair does not follow |
| Moderation, `community.go` | reports, appeals, sanctions | `CreateReport`, `ResolveReport`, `CreateAppeal`, `ResolveAppeal` | one appeal of a report; a decision is taken once |
| Users, `store.go` | users, sessions, number sequence | `CreateUser`, `UpdateUserAccess`, `UpdateProfile` | numbers unique; one active administrator remains |
| Avatars, `avatar.go`, `httpapi/avatar.go` | avatar files, `avatar_url` | `InstallAvatar`, `RemoveManagedAvatar` | the url in the row names a file |
| Object mirror, `objectstore/minio.go` | MinIO objects | `Sync` | a synchronisation that nothing crossed leaves the files' digests; a startup repairs the rest |
| HTTP server and limits, `httpapi/server.go` | sessions, limiter windows | routing, `authenticate`, `windowLimiter` | no more than the limit in a window |
| Schema and seed, package validation, configuration | - | at start, or pure | - |
| SDK, runtime bootstrap, front ends, kit, demos | browser state | - | - |

`PROJECT.json` lists each with its status.

### How they interact

* One API process runs. `Store.gameMu` serialises `ImportGame`, `DeleteGame`,
  the cover operations, `CreateGame`, `UpdateGame` and the recoveries. Everything
  else meets only in SQLite (WAL, `_txlock=immediate`, eight connections): a write
  transaction excludes other write transactions, but a read before it does not.
* The three journals share the volume and the rows. `game_assets` says which paths
  a game owns; deletion, import and cover replacement read it, and every catalogue
  write adds to it.
* `RecoverGameImports`, `RecoverManagedAssets` and `RecoverGameCoverUploads` run at
  start, before the listener. An error of any of them ends the process, which
  Compose starts again (`docker-compose.yml`, `restart: unless-stopped`). A state that
  recovery refuses is therefore an outage until somebody repairs the volume.
* `DeleteGame` runs the deletion recovery again before it opens its transaction.
* Handlers call the store and then the object mirror, so the mirror follows late. They mirror the prefixes of the
  game's current slug only, and none when they return an error, so some changes wait for a later request or the next start.
* The process also ends in order (`SIGTERM`, `cmd/server/main.go:79-96`), and every start recovers. A stage that a failed
  step left behind therefore meets a recovery at the next redeploy, without any crash.

### What is hard

Crashes between a rename and a commit, in either order; a commit that returns an
error but took place; an error in the middle of a rollback; a recovery that is
itself interrupted; a journal that outlives its operation and is resolved after
other operations have reused its paths; ownership that changes between (shared
covers, renamed slugs). Outside the journals: reads before a lock or a transaction
that are used after it. `PROJECT.json` has 40 such hazards at their lines.

## 2. Modules

| Module | Role |
|---|---|
| `AtomicDeletion` | abstract specification: `Save` and `Delete` on rows, ownership and a set of safe files |
| `DeletionStage` | `DeleteGame` and `RecoverManagedAssets`, one action per system call or transaction |
| `DeletionStageProofs` | the inductive invariant, six consequences and the refinement, checked by TLAPS |
| `MCDeletionStage` | TLC instance: 2 games, 2 slugs, one cover and one bundle that both games may name |
| `GameImport` / `MCGameImport` | `ImportGame` and `RecoverGameImports` / instance |
| `GameImportProofs` | its inductive invariant and the four safety properties, checked by TLAPS |
| `GameCover` / `MCGameCover` | the cover operations and `RecoverGameCoverUploads` / instance |
| `GameCoverProofs` | its inductive invariant and the four safety properties, checked by TLAPS |
| `Matchmaking` / `MCMatchmaking` | join, poll and cancel on `matchmaking_tickets` with concurrent handlers / instance |
| `MatchmakingProofs` | its inductive invariant and seven safety properties, checked by TLAPS |
| `Publication` / `PublicationProofs` | the row of a game under imports, edits, rollbacks, approvals, unpublication, deletion / its proofs |
| `Accounts` | user numbers over startups of old volumes, roles and standing |
| `Avatars` | a user's avatar row and files |
| `UsersProofs` | proofs of `Accounts` and `Avatars` |
| `ObjectMirror` | the synchronisation of a prefix with MinIO, by handlers and at startup |
| `PlayerServices` | capabilities of a package, game tickets, stored player data and its quota |
| `MCCatalogue` | instance of these five |
| `CatalogueProofs` | proofs of `ObjectMirror` and `PlayerServices`, and of the composition of the five |
| `Community` | follows, blocks, announcements, notifications, feed |
| `Threads` | likes, shares, favourites, launches, comments |
| `Moderation` | reports, decisions, appeals |
| `MCSocial` | instance of these three |
| `SocialProofs` | proofs of these three and of their composition |

The journals' modules and `Publication` look at the same operations from two sides: the former
follow the files step by step and take the request as it is, the latter follows the requests and takes the
transaction with its files as one step, which is what the journals establish.

### Conventions shared by the three journals

* `pc` is where the holder of `gameMu` is; the variables grouped as `process` are
  its locals. `Crash` forgets them and keeps `database` and `volume`; it can fall
  between any two actions. An action is one rename, unlink or `removeAll` of an item,
  or one transaction (an open transaction is rolled back by SQLite at a crash, so its
  effects are those of its commit).
* In `GameImport` and `GameCover`, `Stop` is the ordinary end of the process while no request is being handled. It is no interruption:
  it is never counted, and any number of them fall anywhere between requests. `Start` recovers after it as after a crash. In
  `DeletionStage` a deletion runs the same pass itself before it begins, and a crash while serving is such a stop.
* Every action whose name ends in `Fails` is an I/O or SQL error at that step. A
  failing commit both happens and does not happen. Errors the code ignores
  (`_ = stage.finalize()`, discarded `Lstat` errors in a rollback) are ignored there too.
* A directory is removed by unlinking its contents in any order and itself last;
  a crash or an error can fall between.
* A manifest is written to a temporary file, synced and renamed: `durable` is the set
  of directories whose manifest is there. Its content is fixed when the directory is made.
* `outcome` is what the last request returned: `ok`; `unread` (committed, but the game
  could not be read back); `aborted` (nothing was done); `restored` (an error, and the
  files were put back); `restoreFailed`; `unknown` (the commit could not be confirmed).
* Definitions with "Bug variant" in their comment are in no specification. They are plausible
  faults (a dropped error, a missing reset, a guard left out), one for each property,
  and TLC finds the property violated when the variant replaces the original.

### `DeletionStage`

`Start` begins the recovery pass of `recoverManagedAssets`; `RecoverStage` takes one
directory of it. `RollbackItem`, `RollbackDone` are `rollback`, and `RemoveStagedAsset`,
`RemoveManifest`, `RemoveStageDir` are `removeAll`. `DeleteGame` runs the same pass
(`ctx = "predelete"`), then `SelectAssets` (row, tracked assets less what others track or
name), `MakeStage`, `WriteManifest`, `StageAsset` for each item, `CommitDelete`, and
after a failed commit `QueryOutcome`. `CreateGame` and `UpdateGame` change slugs, urls and
ownership in between. A managed asset is abstract; `OwnerSlug` says in whose namespace its
path lies, which decides whether saving a url tracks it.

### `GameImport`

Import *i* is the *i*-th call: it stands for the call's token, journal directory and files,
so a target `covers/<slug>` or `playables/<slug>` holds nothing or the files of one import.
`ImportGame` (namespace check, workspace, stage), `WriteManifest`, `BackUp` and `Install`
for each kind, `Commit`, `QueryReceipt`; `UndoTarget`, `DiscardNew`, `RestoreBackup` for each
item of a rollback, bundle first; `FoundTouched` is what `loadImportStage` infers from the
volume after a restart. `static` is a package without a bundle, whose old bundle
is moved away and not replaced. `DeleteGame` is the one step that `AtomicDeletion` allows it
to be, with the choice of files that another game names. `crowded` is a history variable: the imports that began while
the journal still held a stage of an earlier one in their namespace.

### `GameCover`

A cover's name is its content, so a path is present or not. `UploadCover` makes the
stage and decides `createdTarget` and the replaced cover; `Activate` installs the file,
`Mutate` is the transaction with the receipt, `ResolveReceipt` asks for the receipt after
any error. `RollbackTarget`; `FinalizeTarget`, `FinalizeOld`, `RemoveStageDir`,
`DropReceipt` are `finalizeGameCoverReceipt`. `SaveGame` then `CleanUp` is the path without an
image. `DeleteGame` and `ImportGame` take whole directories `covers/<slug>`, each in one step: the former asks who tracks
the directory and which rows name a file of it, the latter only who tracks it. A row may name a cover of a directory that
its game does not track, because a URL is tracked only in the namespace of the row's own slug. Two history variables say which
rows are exposed to what the code does not ask: `overwritten`, the rows whose cover went with a directory they do not track,
and `crowded`, the rows that came to name a cover which a stage kept in the journal has created.

### `Matchmaking`

`CreateMatchTicket` is one step, because its transaction takes SQLite's write lock when it begins
(`_txlock=immediate`): the sweep of expired tickets, the two DELETEs, the INSERT with the
unique index on waiting tickets, and the pairing. Its time is that of the sweep. The read-back that ends it
(`ReadBack`) and a poll (`Poll`) are the same code, `Read` and then `Settle`; `CancelMatchTicket` is
followed by `Recheck` when it changed no row. Handlers interleave between these. A room is named by the ticket that opened
it. `room`, `owner` and `pool` are kept when a row is removed, so that properties can speak of it; `told` records
the answers on which a client stops waiting. `now` counts in units of the tickets' lifetime; `Tick`
can happen between any two steps. At most one ticket of a pool waits, so `ORDER BY created_at` never has to choose.
`Position` and errors of single statements are left out, and so is the status of the game, which the
handlers check before they call the store.

### How the modules of handlers are cut

A handler of the API is a sequence of SQL statements and transactions, and everything else is local. A
transaction, and a statement outside of one, is one action. A transaction takes the write lock when it begins, so
its reads are as good as its writes. A handler that reads in one statement and writes in another
becomes a request: a record of what it has read (`visit`, `call`, `job`, `clerk`, `order`, `request`,
`sync`), written by the action of the read and used by that of the write, with any steps of others in between.
A statement that fails ends the handler with an error. Where this leaves something undone that a property
speaks of, it is an action (`NotificationFails`, `GiveUp`, `Unanswered`, `WriteUploadFails`, `Retry`, `Abandon`); otherwise it has the effects of
a request that is never continued.

Several properties are true *unless* a request was overtaken in between. A history variable (`overtaken`,
`late`, `hushed`, `shut`, `misnamed`, `littered`, `adrift`, `crossed`) says exactly which request or row that is; no
action's guard reads one.

### `Publication`

`BeginImport`/`BeginMyImport`, `BeginEdit`, `BeginRollback` and `BeginApprove` are the reads of `importGame`,
`importMyGame`, `updateMyGame`, `rollbackGame` and `approveGame` before `gameMu`; `End...` is the store call under it.
`Put` is the row that a write leaves, with the `published_at` of its CASE. `Stale(g)` are the requests whose
reading a write of `g` has made wrong. `Announce` is `recordPublishedGameEvent` as seen from here.
`cover` stands for all URLs of the row. An import or an approval that has committed reads the row back; if that fails the
request is `Unanswered`: the row is as it committed it, the handler answers an error and announces nothing.

### `Accounts`, `Avatars`

`MigrateAndSeed(new)` is the one startup transaction: seed, `backfillUserNumbers` (rebuild or fill up), the
sequence; it starts from any volume that an older version can have left. `BeginUpdateUser` is
`authenticate` and the self-lockout check of `updateUser`, `EndUpdateUser` the single UPDATE that counts administrators
itself.

In `Avatars` the row is read by `authenticate` (`BeginUpload`, `BeginProfileEdit`), then `avatarMu` is taken:
`Install`, `WriteUpload`, `WriteEdit`, `RemoveReplaced`. The file that is removed is the one of the row
that was read before the lock.

### `ObjectMirror`, `PlayerServices`

`ObjectMirror` follows one prefix. `Collect`, then `Digest`, `StatObject`, `Open` and `PutObject` for each file (`putIfChanged`), `List` and
`RemoveObsolete` for each object are `Client.Sync`. An object is a body and the digest recorded with it; `StatObject` compares
digests, and what `PutObject` stores was read after the digest was taken. `Change` is a request that will mirror the prefix;
`ChangeUnmirrored` one that will not: an update that unlinks a cover below the game's former slug, a deletion of such a directory, an
error return after files have changed. `Retry` is an error, after which `syncGameObjects` begins again, and `Abandon` the end of the last attempt; attempts
are not counted, since nothing depends on how many there are. `Startup` is the reconciliation before the server listens. Contents are of one size, so
a file that outgrew the size taken with its digest counts as different from the digest, as the truncated body is.

`Identity`, `Provider`, `Namespace`, `Matches`, `Scopes` and `RequiresLogin` are `resolveGamePlatform` over all declared and older
fields. `Authorize` is `requireGameTicket` with `authorizedGamePlatform`; `CountData` and `PutGameData` are the two halves of one
transaction, cut so that the write lock it depends on is visible.

### `Community`, `Threads`, `Moderation`

`FollowCreator` and `BlockCreator` are transactions; `FollowGame` (three statements), `NotifyComment` (a loop of
two statements) and `recordPublishedGameEvent` are requests. `Feed` and `Shown` are the SELECTs whose
conditions hide what a block separates.

In `Threads` a request arrives at a slug (`Arrive`, `Resolve` = `publishedGameID`), reads the comment it is about
(`Check`) and writes (`Mark`, `Write`, `Delete`, `Heart`). A comment that goes with its game is `gone`; foreign keys refuse
rows about what is gone.

In `Moderation` a decision is numbered and stands for its explanation. `DecideReport`, `RereadReport`,
`NotifyReporter` are the three statements of `ResolveReport`; `ReadForAppeal`, `AskForAppeal`, `InsertAppeal` those of
`CreateAppeal`.

### Composition of components that share nothing

`MCSocial` and `MCCatalogue` hold components none of whose variables another reads or writes. A
step of one neither enables, disables nor changes a step of another, and every property they check speaks of one
component. So each behaviour runs one component, chosen in the initial state (`part`), and a
violation in an interleaving of several would show in the projection to one. What crosses between components
(a game unpublished or deleted, an account suspended, files changed) is an action of the component it
reaches, with the effect that the other component's transaction has on its rows.
`SocialRunsComponents` and `CatalogueRunsComponents` prove that a behaviour of the composition is one of
each component, so what is proved of a component holds in the composition.

## 3. Runs

| Run | Instance | Distinct states | Shows |
|---|---|---|---|
| `deletion` | 2 games, 2 slugs, 2 assets, 2 stage names, 2 crashes, 2 errors | 521,067 | `ImplementsAtomicDeletion`, `CommitDecides`, `HonestOutcome`, `OneStage`, `CleanStart`, `InterruptedDeletionResolved`, and that `StageInv` is an invariant |
| `import` | 1 game, 1 slug, 2 imports, 2 crashes, 2 errors | 158,766 | `HonestImport`, `CleanStart`, `OneInterruptionIsResolved`, `ServesAgain` |
| `import_namespaces` | 2 games, 2 slugs, 2 imports, 1 crash, 1 error; symmetry | 1,702,333 | `OneInterruptionIsResolved` when games are renamed, deleted and slugs reused |
| `cover` | 2 games, 2 slugs, 2 covers of one namespace, 2 uploads, 2 crashes, 1 error | 1,939,959 | `NamedCoversArePresent`, `HonestUpload`, `CleanStart`, `ServesAgain` |
| `matchmaking` | 3 players, 1 game, 2 pools, 2 handlers, 3 tickets, 2 ticks; symmetry | 980,751 | the properties below |
| `social` | a creator and a player who may be suspended, one game; a moderator and a player, 3 comments; 2 reports, 3 decisions, 2 appeals; 2 requests at a time; symmetry | 1,521,557 | `CommunityInv`, `BlockHolds`, `ThreadInv`, `QuietWhileHidden`, `AppealInv`, `EveryDecisionIsTold` |
| `catalogue` | 1 owner and the platform, 2 games, 2 slugs; 3 accounts, numbers to 7; 2 images, 3 sessions; 2 files, 2 contents, 2 synchronisations; 3 keys, 2 packages; 2 requests at a time; symmetry | 602,850 | `AtomicUnlessOvertaken`, `OwnersDoNotPublish`, `AccountsInv`, `AvatarInv`, `MirrorInv`, `PlayerDataInv` |
| `deletion_wedge`, `import_repeated`, `import_superseded`, `cover_retry`, `match_poll` | as small as the counterexample | - | disagreements between the code and its comments, section 6 |

What the properties say:

* `ImplementsAtomicDeletion`: let `Safe` be the files that are public or staged under a
  manifest that recovery will roll back. Every step of the journal is, on the rows and
  `Safe`, a catalogue write, the deletion of a game with exactly the files only it uses,
  or nothing.
* `StageInv` describes the journal, and allows a directory without a manifest: that such a directory refuses every start is said by
  `StartupNotRefused` alone (`deletion_wedge`).
* `CommitDecides`: a staged file is unlinked only when the row is gone and comes back
  only while it is there.
* `HonestOutcome`, `HonestImport`, `HonestUpload`: what the request returned is what happened,
  to the row and to all the files. Nothing is claimed of `unknown` and `restoreFailed`, which
  the code uses to say it does not know, and `HonestImport` claims nothing of the files when the rollback
  discarded the error of an `Lstat` (`pathExists`, the error dropped).
* `OneInterruptionIsResolved`: after one crash or one failed step, wherever it falls, and any number of ordinary restarts
  before and after it, every game that records a package has that package's files whenever the server serves. One package is
  excepted: one that was imported while the stage of a failed cleanup was still in the journal of its namespace
  (`crowded`), which the next start, planned or not, destroys (`import_superseded`). With two interruptions the property is false
  (`import_repeated`).
* `NamedCoversArePresent`: in every state, over any number of crashes, errors and restarts, a content-hash cover that a row
  names is on the volume. Two kinds of rows are excepted: those that name a file of another game's directory when an import replaces
  the directory (`overwritten`), and, once a step has failed, those that came to name a file which a
  stage still in the journal had created (`crowded`, `cover_retry`).
* `CleanStart`: a start that ends in serving has emptied the journal.
* `NobodyWaitsBeside`: two players never wait in one pool, whatever else happens around
  their joins. `RoomsArePairs`: a room joins exactly two players of one pool.
  `CancelledStaysOut`: who was told that the ticket is cancelled is in no room.
  `FinalIsFinal`, `PairedOnlyInTime`: an end is not overwritten, and an overdue ticket is not paired.
  `OneTicketOfAPlayer`: the table cannot grow by cancelling and joining again.
* `CommunityInv`: a block keeps two persons apart in what is stored (no follow of each other) and in what is
  shown (feed, notifications), although a request that raced with it may leave a game follow or a notification
  behind; a follow has its notification; an announced update had its publication announced.
  `BlockHolds`: such a leftover comes only from a request that began before the block.
* `ThreadInv`: discussions are one level deep; replies go with their root, except one that was already
  under way when the root was deleted (which stays visible below it); nothing outlives its game.
  `QuietWhileHidden`: a request that arrives after a game was hidden writes nothing while it stays so.
* `AppealInv`: one appeal of a report, against a verdict that was given, and only an accepted appeal reopens a
  report. `EveryDecisionIsTold`: with any number of decisions of one report at once, each is
  told once, with its own verdict.
* `AtomicUnlessOvertaken`: an import, edit, rollback or approval does what it would have done had it read under
  `gameMu`, unless another request changed what it had read. It excepts just the interleavings in which a write is lost, so
  it does not catch those: it says that there are no others, and `OwnersDoNotPublish` that even in them no request of an
  owner makes anything public. "Announces" means that the handler goes on to announce; one whose read-back fails does not.
* `AccountsInv`: after the first migration numbers are distinct, positive and below the sequence, which stays in range, so
  that no later start is refused for them; an active administrator remains however administrators demote each other.
* `AvatarInv`: outside the lock the managed avatar in the row is installed, although requests remove files they read
  of before the lock; nothing else is left behind, unless a request was overtaken, failed or cut short.
* `MirrorInv`: when nothing is under way, the objects record the digests of exactly the files of the volume, and have their contents
  but for files that changed between digest and opening (`crossed`). Excepted (`adrift`) is a prefix whose last
  synchronisation was crossed by a change or by a crossed one, failed or was cut short, or that was changed since then by a request
  which mirrors nothing. A startup is never crossed, so it leaves the right digests, whatever was there before; not
  always the right contents, since a synchronisation trusts a digest that matches.
* `PlayerDataInv`: the quotas hold under concurrent writers; a row is only ever written with a ticket of the game
  it belongs to, even when the slug has a new game; a refreshed ticket is never wider than the first; the
  hints in the catalogue agree with what a ticket can do, for every manifest.
* `InterruptedDeletionResolved`, `ServesAgain`: liveness, below.

**Bounds.** Two games are the fewest that share a file, rename into each other's slug,
or keep a file from a deletion. Two assets are the fewest that leave a stage partly
done. Two crashes let a recovery be interrupted and repeated; the second error
in `deletion` and `import` lets a rollback fail after a failed commit, or leaves a failed
commit unconfirmed. Two imports or uploads are an old package or cover and one that replaces it.
Crashes and errors are bounded
in `Crash` and `Fault` only, ordinary restarts not at all; `MaxImports` and `MaxUploads` bound the calls. Three tickets let a
player rejoin beside a pair, two handlers let any two requests race, and two ticks pass both a
lifetime and the retention; the proofs cover any number. In `social` and `catalogue` two requests are the fewest
that race, and three sessions let a third overtake two that have read; two persons are the two sides of a block; three comments are a root
and two replies; three decisions let a report be decided, reopened and decided by two at once; numbers to 7 leave
three accounts room for a rebuild (which needs twice their number) and for running out. `Publication` runs twice: two requests about one slug, and one
request at a time about two. So does `ObjectMirror`: two synchronisations that cross each other about one file at a time, and one at a
time, crossed by changes, about two files; two contents are what a digest can be wrong about. `MaxRows`, `MaxIds`, `MaxTickets` and the like bound what accumulates and nothing
else; TLAPS proves the properties of all eight modules without them. Both runs stop when their bounds are
reached, so deadlock is not checked in them: no handler waits for another there but for a lock whose
holder can always go on. A reused stage name
in `DeletionStage` stands for a fresh random one, as a removed directory leaves nothing.

**Fairness.** Weak fairness of `Start`: Compose restarts a process that exited. Weak
fairness of the steps of a recovery or a request in progress: the goroutine that holds
`gameMu` waits for nothing but the file system and SQLite. Requests, crashes and errors
have no fairness. Errors are finitely many in a behaviour, so liveness says: once
errors cease, the restarts that follow resolve what was interrupted. `InterruptedDeletionResolved` speaks of
stages whose manifest is durable, since others are never resolved (`deletion_wedge`).
`ServesAgain` of `GameCover` assumes that no step has failed, since a failed step can lead to a
refusal for ever (the second half of the `cover_retry` finding). The modules of handlers state no fairness: their
requests come from clients, and nothing in them has to happen. Deadlock is checked in every run of the journals and of
`Matchmaking` (exceptions above).

## 4. Proofs

Every invariant and every action property that a run checks is also a theorem, for every value of the
constants, from the named assumption of its module alone.

### The journals

`DeletionStageProofs` proves, for every set of games, assets, slugs and stage names and every bound on
crashes and errors, from `ConstantsAssumption` alone:

| Theorem | Statement |
|---|---|
| `StageInvariant` | `Spec => []StageInv` |
| `TypeCorrect`, `NeverTwoStages`, `OutcomeIsHonest` | `TypeOK`, `OneStage`, `HonestOutcome` |
| `UnlinkOnlyAfterCommit`, `StartLeavesNothing` | `CommitDecides`, `CleanStart` |
| `DeletionImplementsAtomic` | `Spec => ImplementsAtomicDeletion` |

None of the properties is inductive. `OneStage` holds because a deletion starts only after a
pass that left nothing, so the invariant must say what a pass has left to see. `StageInv` adds:

* `TrashInv`: a manifest names a game that was born; a staged file is listed and not
  public; a directory without a manifest holds nothing of a living game (this is why unlinking
  a manifest before the files is harmless).
* `UnwindInv`: a rollback runs only for a living game, and what is still staged is ahead of it
  or has failed; a directory is unlinked only when nothing of a living game is in it.
* `PassInv`: while a pass has met no error, the directories left are those ahead
  of it and the one in hand.
* `DeleteInv`: between its reads and its commit a deletion holds exactly the files that are its
  game's alone; they are public, or staged by it.
* `OutcomeInv`: the value about to be returned agrees with the row and the journal.

`NextStageInv` has one step for each action. The refinement proof shows that renames move files
within `Safe` (`FilesMove`), that making and removing directories and manifests leaves it
(`JournalMoves`), that the commit takes exactly the exclusive files (`CommitTakes`), and
that catalogue writes keep it (`SaveKeeps`).

`GameImportProofs` and `GameCoverProofs` prove, for any games, slugs, covers and any number of calls, crashes and
errors:

| Theorem | `GameImportProofs` | `GameCoverProofs` |
|---|---|---|
| the inductive invariant | `ImportInvariant`: `Spec => []ImportInv` | `CoverInvariant`: `Spec => []CoverInv` |
| `TypeCorrect` | `TypeOK` | `TypeOK` |
| `InterruptionResolved`, `CoversPresent` | `OneInterruptionIsResolved` | `NamedCoversArePresent` |
| `StartLeavesNothing` | `CleanStart` | `CleanStart` |
| `ImportIsHonest`, `UploadIsHonest` | `HonestImport` | `HonestUpload` |

A property about one interruption has to be carried by an invariant about all steps before and after it.
For an import this is `ForwardInv`: up to the commit each kind is `Waiting`, `Moved` or `Swapped`, as the place in
the code says. A rollback is described by where it ends and not by where it is: `Undone` is what is left of the volume
when the touched items are put back. `Outlook`, the ending of the rollback in hand, does not change with any of
its steps, and is what was there before the import (`UndoInv`). After a crash the touched items are not known and
`loadImportStage` infers them; `Found` is the ending that follows from this inference. `Calm` says that
after one interruption the volume, or what the due or running rollback makes of it, agrees with the receipts. A second
interruption falsifies exactly this step: what was inferred from a volume that is already half restored is
wrong (`import_repeated`). If the interruption was a failed step, its stage may stay in the journal while the server serves, and `KeptApart`
says that it is the only one and lies in no namespace of a package that is promised its files (`Apart`): a later import there is
`crowded` (`CrowdInv`). This is what an ordinary restart needs, since its recovery rolls that stage back.
`UndisturbedInv` bounds what crashes alone leave: only the stage of the request in progress. `RowInv` (a receipt's targets
are tracked) is why a deletion or a rename in between does not take a target from under a receipt.

For covers the property holds after any number of interruptions, so the invariant counts none. `UploadInv`
says that `created` means the file was not there before, so no promised row named it. `KeptInv` carries that on: a stage with a
manifest, kept or in progress, which would unlink its cover in a rollback, `Spares` every row but the excepted ones and the one
its receipt records; a row that comes to name the cover later becomes `crowded` in the same write. `CoversInv` is the property
with these exceptions, and `FaultlessInv` that `crowded` stays empty until a step fails: crashes and restarts alone
leave no stage while the server serves.

In both, `CleanInv` (a pass without an error has all directories ahead of it) yields `CleanStart`. The lemmas are cut by
component of the invariant (`TypeStep`, `PlaceStep`, `ForwardStep`, `UndoStep`, `KeptStep`, `CoversStep`, ...), each with a step
for each action, since most actions disturb one or two of them.

### Matchmaking

`MatchmakingProofs` proves, for any players, pools, handlers, lifetimes and number of tickets,
`MatchInvariant` (`Spec => []MatchInv`) and from it `TypeCorrect`, `NobodyIsLeftBeside`, `TableDoesNotGrow`, `RoomsJoinTwo`,
`CancelOrPair`, `EndsAreFinal` and `NobodyPairedLate`. `MatchInv` is the conjunction of the state
properties with `BornInv` (tickets are issued in order; no room is named by a ticket to come), `ToldInv`
(a ticket reported cancelled is finished, so no join can take it) and `HandlerInv`. The join is the hard step
(`CreateKeeps`): since one ticket at most waited in the pool, it is the one found, and nobody waits
afterwards. Every other step only ends or removes tickets (`EndKeeps`).

### The modules of handlers

The modules of handlers are proved in the same way, each from its own assumption on the constants and for every
value of them, any number of concurrent requests included. Each `...IInv` says what a request knows between its read and its
write; that is what makes it inductive.

| Module | Theorems | What the invariant adds |
|---|---|---|
| `PublicationProofs` | `PublicationInvariant`, `PublicationTypeCorrect`, `PublicationCorrect` (`PublicationInv`: dates go with the status, slugs are unique), `AtomicOrOvertaken`, `OwnersStayPrivate` | `UpToDate(k)`: what a request that is not in `overtaken` has read is still so (`WriteKeepsOthers`: a write that makes it wrong marks it) |
| `UsersProofs`: `Accounts` | `AccountsInvariant`, `AccountsTypeCorrect`, `AccountsCorrect`, `NumbersStay` (`NumbersAreStable`: a number is never changed or given again) | accounts are `1 .. n`; nothing has changed before the first migration. `BackfillNumbers` is the lemma on the backfill; that a rebuilt list starts with 1 is the pigeonhole argument of `FirstIsOne` |
| `UsersProofs`: `Avatars` | `AvatarsInvariant`, `AvatarsTypeCorrect`, `AvatarsCorrect` | `InstalledOK`, `WrittenOK`: what the one request inside the lock owes the files |
| `SocialProofs`: `Community` | `CommunityInvariant`, `CommunityTypeCorrect`, `CommunityCorrect`, `BlocksHold` | `Learnt`: a request that is shut out from somebody has not passed its question for a block |
| `SocialProofs`: `Threads` | `ThreadsInvariant`, `ThreadsTypeCorrect`, `ThreadsCorrect`, `HiddenGamesAreQuiet` | `CallOK`: game and place in the thread of a comment that was read do not change; `PostOK`: comments are born in order and gone with their game |
| `SocialProofs`: `Moderation` | `ModerationInvariant`, `ModerationTypeCorrect`, `AppealsAreSound`, `DecisionsAreTold` | `JobOK`: one request tells of a decision, and what it reads is not older; a report carries its last decision |
| `CatalogueProofs`: `ObjectMirror` | `MirrorInvariant`, `MirrorTypeCorrect`, `MirrorCorrect` | `Undisturbed`: a synchronisation that nothing has crossed has listed what the volume holds, and object and file agree in their digest wherever it has been; all handlers at work agree on whether that is so (`HandlersInv`), which is why a disturbed one cannot undo the work of an undisturbed one. `DigestInv`: a file that has not changed since its digest still has it when it is put, so that body and digest differ only in `crossed` files |
| `CatalogueProofs`: `PlayerServices` | `ServicesInvariant`, `ServicesTypeCorrect`, `PlayerDataIsSound` | `CountedInv`: a transaction that has counted holds the lock alone, and what it counted is so when it writes. `TotalAfterWrite` and `KeysAfterWrite` are the lemmas on the two counts: a write changes the total by the difference of the values, and the keys by one at most |
| `SocialProofs`, `CatalogueProofs`: the compositions | `SocialRunsComponents`, `SocialTypeCorrect`, `CatalogueRunsComponents`, `CatalogueTypeCorrect` | nothing: a step of the composition is a step of one component and leaves the others alone |

`TotalOf` counts the bytes that are stored, each at its place in a value, as the cardinality of a set. This is the
SUM of the query, said so that the theorems on finite sets apply to it.

Only model-checked: the liveness properties `InterruptedDeletionResolved` and `ServesAgain`, since the prover has
neither fairness nor ENABLED. The invariants that make the proofs inductive were checked by TLC
on the instances of section 3 before they were proved; `StageInv` is checked in the run `deletion`, the others would
add nothing to the properties they imply.

## 5. Not modelled

* Loss of power. SQLite runs with `synchronous(NORMAL)` and directories are not synced:
  a machine that stops may forget a commit after the journal was removed. The models stop
  the process only.
* Links, ownership and permissions on the volume, the containment checks on paths and
  the validation of packages and images: they decide whether a request is accepted.
* In `GameCover` an import is one step. Its journal, failures and recovery are in `GameImport`; that a rollback of an import
  brings the covers of the directory back, and may do so long after (`import_superseded`), is not combined with uploads.
* In `GameCover`, rows that name another game's package cover `covers/<slug>/cover.<ext>`: `NoCover` stands for every URL that is
  no content-hash cover. An import replaces that file too.
* Other prefixes than the one `ObjectMirror` follows, and the size of objects.
* An `Lstat` error inside `loadImportStage`, which the code discards and which could change what
  it takes for touched.
* Uploads and archives that are not yet in a stage; recovery only removes them.
* A raw failure of the recovery to list the journal directory: the start is refused
  before anything is touched, as after any other error.
* The order of the three recoveries over one volume: each journal's module has its own startup.
* Texts: titles, tags, profiles and display names (an avatar upload writes back the display name it read with the
  authentication, so that an edit in between is lost), the rows of `game_versions` and which version a rollback takes, audit
  rows and `read_at`, which guard nothing.
* Creation of tables, added columns and the other backfills of `MigrateAndSeed`: single idempotent statements.
* The window limiter, sessions and cookies, routing and encoding of `httpapi/server.go`.
* `gamepkg` (pure validation of an archive in a private directory), configuration, the SDK and bootstrap in
  the browser, the front ends, the game kit and the demos.

## 6. Findings

* `deletion_wedge`: a process that dies between `MkdirAll` and the manifest leaves a directory
  without a manifest. The deletion recovery counts it as an error, so the server never starts
  again; the two other journals remove such a directory.
* `import_repeated`: a rollback interrupted after it restored the old files is run again, takes
  the restored files for installed ones and removes them.
* `import_superseded`: a cleanup that failed silently after its commit leaves a stage; the next
  import of the game overwrites the receipt, and the next start, an ordinary redeploy included, rolls the first import back over
  the second. One failed step is enough.
* `cover_retry`: the stage of an upload of unknown outcome is rolled back at the next ordinary restart, after another row
  has come to name the same file; the file goes. If the stage of that later upload is still there, its
  finalize then finds its target missing, and every start is refused.
* `match_poll`: a poll reads `waiting`, a join pairs the ticket, its time passes, and the poll answers
  `expired` although its update changed no row. The player leaves and the partner waits in the room. The test
  that says otherwise is sequential, and polls within the ticket's lifetime.

Seen while modelling, without a run of its own: `rollback` of an import drops the error of its
`Lstat` calls (`game_import.go:448`, `:453`, `:458`, `:463`). If the `Lstat` of a backup fails, the rollback
goes on to remove the stage, and the old files with it, and reports no failed restore.
It takes an earlier failure to start a rollback, so `OneInterruptionIsResolved` is not concerned;
`HonestImport` excepts it by name.

An import replaces the whole directory `covers/<slug>` after asking `game_assets` who tracks it (`game_import.go:101`), but not which
rows name its files, as `DeleteGame` and the replacement of a cover do. A content-hash cover there that another game names by URL
is gone without any failure, although `docs/GAME_INTEGRATION.md:221` says that the resources of other games are not affected. If the stage
of that game's upload was kept in the journal, its finalize then misses its target (`game_cover.go:574`) and every later start is refused.
`NamedCoversArePresent` excepts these rows by name (`overwritten`), and without the exception TLC finds it violated with no crash
and no error.

Of the handlers' modules, as the code stands and within what their properties say:

* `importMyGame` asks who holds the slug before `gameMu` (`httpapi/server.go:1178`) and `ImportGame` does not look at the
  owner again. If the slug changes hands in between, the user's draft replaces the other's game.
  `AtomicUnlessOvertaken` excepts it as overtaken; `OwnersDoNotPublish` is what remains.
* `approveGame` decides what to announce before the lock (`server.go:1292`, `:1302`): overtaken, two approvals announce one
  publication twice, or a publication is not announced. Nor is one whose row cannot be read back after the commit
  (`data/game_lifecycle.go:125`): the request answers an error, and approving again announces nothing.
* A reply can stay visible below a root that was deleted while it was written (`data/game_social.go:85`), and a game follow or
  a comment's notification can appear just after a block (`data/community.go:174`); both are hidden or harmless
  where they are read, which `CommunityInv` says.
* Two opposite decisions of one report at once: the reporter is told both, and the first notification may carry the
  explanation of the second (`data/community.go:656`).
* `authorizedGamePlatform` (`server.go:569`) speaks of the package's declaration and checks the ticket's scopes only; after a new
  import an old ticket keeps its scopes until it is refreshed. `refreshGameTicket` answers the package's scopes
  (`server.go:458`), which may be more than the refreshed ticket has.
* A file that changes between its digest and its being opened (`objectstore/minio.go:229-241`), and changes back, has an object with the
  wrong content under the right digest. Every later synchronisation skips it, that of a startup too, which
  `httpapi/object_storage.go:11` calls a full reconciliation. `MirrorInv` excepts these files by name (`crossed`).
* A join that is repeated because its answer was lost deletes the player's matched ticket (`data/game_platform.go:443`) while the
  partner waits in the room. No source says what should happen; `RoomsArePairs` shows that the partner's row keeps its room.
* `ApproveGame` of a game that is already published reads it on a second connection while its own transaction holds the
  write lock (`data/game_lifecycle.go:109`). With WAL the read does not wait for a lock, but if the seven other connections wait
  for this one's, it waits for them until `busy_timeout` (5 s) fails one.

## 7. Plan

Left, in order:

1. `Startup`: the three recoveries over one volume, a deletion stage that is kept while an
   import installs the same path.
2. An abstract specification of installation (files and receipt change together) that
   `GameImport` implements while at most one interruption falls, and the combination of its journal with that of the covers.
3. `windowLimiter` as a function checked against a reference, and the rows of `game_versions`.

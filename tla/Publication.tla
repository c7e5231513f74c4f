----------------------------- MODULE Publication -----------------------------
(***************************************************************************)
(* The life of a game's row as its requests change it                      *)
(* (apps/api/internal/httpapi/server.go, httpapi/community.go,             *)
(* data/store.go, data/game_lifecycle.go, data/game_import.go).            *)
(*                                                                         *)
(* Every write of a game is one transaction under gameMu.  Five handlers   *)
(* read the row before they take the lock and use what they read after it: *)
(* the imports (who holds the slug), updateMyGame (the slug), rollbackGame *)
(* (slug, cover and launch URL) and approveGame (whether it publishes).    *)
(* They are clerks here: a read, then the write.                           *)
(*                                                                         *)
(* The files behind a row are the subject of DeletionStage, GameImport and *)
(* GameCover; cover stands for all the URLs of a row, an External one or   *)
(* one below the directories of a slug.                                    *)
(***************************************************************************)
EXTENDS Naturals

CONSTANTS Uploader,     \* users with a catalogue of their own
          Platform,     \* holds the games without owner_user_id
          Slug, External,
          MaxGames,     \* bound: games ever created; ids are never used again
          Clerk,        \* requests that can run at the same time
          NoSlug

ASSUME PublicationAssumption ==
  /\ MaxGames \in Nat
  /\ Platform \notin Uploader
  /\ External \notin Slug /\ NoSlug \notin Slug /\ NoSlug # External

Game == 1 .. MaxGames
NoGame == 0
Status == {"draft", "review", "published", "hidden"}

VARIABLES
  status,     \* games.status; "new" before the row exists, "gone" after
  holder,     \* owner_user_id
  slug,       \* UNIQUE
  cover,
  dated,      \* published_at is set
  tracks,     \* slugs below whose directories game_assets has rows of the game
  clerk,      \* what each request is doing and has read
  overtaken   \* history: clerks whose reading another request has made stale

publicationRows == <<status, holder, slug, cover, dated, tracks>>
publicationVars == <<publicationRows, clerk, overtaken>>

AtDesk == [op |-> "idle", who |-> Platform, game |-> NoGame, slug |-> NoSlug,
           cover |-> External, yes |-> FALSE]

PublicationTypeOK ==
  /\ status \in [Game -> Status \cup {"new", "gone"}]
  /\ holder \in [Game -> Uploader \cup {Platform}]
  /\ slug \in [Game -> Slug \cup {NoSlug}]
  /\ cover \in [Game -> Slug \cup {External}]
  /\ dated \in [Game -> BOOLEAN]
  /\ tracks \in [Game -> SUBSET Slug]
  /\ clerk \in [Clerk -> [op : {"idle", "import", "edit", "rollback", "approve", "announce",
                                "unanswered"},
                          who : Uploader \cup {Platform}, game : Game \cup {NoGame},
                          slug : Slug \cup {NoSlug}, cover : Slug \cup {External},
                          yes : BOOLEAN]]
  /\ overtaken \in SUBSET Clerk

PublicationInit ==
  /\ status = [g \in Game |-> "new"]
  /\ holder = [g \in Game |-> Platform]
  /\ slug = [g \in Game |-> NoSlug]
  /\ cover = [g \in Game |-> External]
  /\ dated = [g \in Game |-> FALSE]
  /\ tracks = [g \in Game |-> {}]
  /\ clerk = [k \in Clerk |-> AtDesk]
  /\ overtaken = {}

----------------------------------------------------------------------------
Live(g) == status[g] \in Status
OwnedBy(g, u) == Live(g) /\ holder[g] = u
Fresh(g) == status[g] = "new" /\ \A h \in Game : h < g => status[h] # "new"
SlugFree(s, g) == \A h \in Game \ {g} : slug[h] # s

\* published_at=CASE ...: a first publication dates the game, draft and review
\* clear the date, hidden keeps it.
PublishedAt(st, d) == st = "published" \/ (st = "hidden" /\ d)

\* The columns a write of game g sets; trackGameAssetsTx adds what is its own.
Put(g, s, st, c) ==
  /\ slug' = [slug EXCEPT ![g] = s]
  /\ status' = [status EXCEPT ![g] = st]
  /\ cover' = [cover EXCEPT ![g] = c]
  /\ dated' = [dated EXCEPT ![g] = PublishedAt(st, @)]
  /\ tracks' = [tracks EXCEPT ![g] = @ \cup ({c} \cap {s})]

\* What other requests have read of g and g no longer is: an import has read who
\* holds a slug, the others the row of an id.
Stale(g) ==
  {k \in Clerk :
     \/ /\ clerk[k].op \notin {"import", "announce"} /\ clerk[k].game = g
        /\ <<status[g], slug[g], cover[g]>> # <<status'[g], slug'[g], cover'[g]>>
     \/ /\ clerk[k].op = "import" /\ slug[g] # slug'[g]
        /\ clerk[k].slug \in {slug[g], slug'[g]}}

\* A request that reads nothing beforehand has written g.
Written(g) == overtaken' = overtaken \cup Stale(g) /\ UNCHANGED clerk

Read(k, what) ==
  /\ clerk[k] = AtDesk
  /\ clerk' = [clerk EXCEPT ![k] = what]
  /\ UNCHANGED <<publicationRows, overtaken>>

\* Clerk k has written g and goes on with `next'.
Finish(k, g, next) ==
  /\ clerk' = [clerk EXCEPT ![k] = next]
  /\ overtaken' = (overtaken \cup Stale(g)) \ {k}

\* An answer with an error: the lock, a file, the database or a check refuses.
Refused(k) ==
  /\ clerk' = [clerk EXCEPT ![k] = AtDesk]
  /\ overtaken' = overtaken \ {k}
  /\ UNCHANGED publicationRows

Announcing(g, st) ==
  IF st = "published" THEN [AtDesk EXCEPT !.op = "announce", !.game = g] ELSE AtDesk

\* The row cannot be read back after the commit: the answer is an error, and
\* nothing is announced.
Unanswered == [AtDesk EXCEPT !.op = "unanswered"]

----------------------------------------------------------------------------
(* Requests that read nothing before they write                            *)

\* createGame, by an administrator; two URLs are possible for the cover.  This and
\* updateGame announce what they publish, as imports do (Announcing); the row they
\* announce is the one they wrote, so that it has no step of its own here.
CreateGame(g, s, st, c) ==
  /\ Fresh(g) /\ SlugFree(s, g)
  /\ Put(g, s, st, c)
  /\ UNCHANGED holder
  /\ Written(g)

\* updateGame, by an administrator, who may rename the game.
UpdateGame(g, s, st, c) ==
  /\ Live(g) /\ SlugFree(s, g)
  /\ Put(g, s, st, c)
  /\ UNCHANGED holder
  /\ Written(g)

UnpublishGame(g) ==
  /\ Live(g) /\ status[g] # "hidden"
  /\ status' = [status EXCEPT ![g] = "hidden"]
  /\ UNCHANGED <<holder, slug, cover, dated, tracks>>
  /\ Written(g)

\* deleteGame and deleteMyGame; the owner of an id never changes, so that the
\* check before the lock (GameOwnedBy) holds in it as well.
DeleteGame(g, u) ==
  /\ OwnedBy(g, u) \/ (Live(g) /\ u = Platform)
  /\ status' = [status EXCEPT ![g] = "gone"]
  /\ holder' = [holder EXCEPT ![g] = Platform]
  /\ slug' = [slug EXCEPT ![g] = NoSlug]
  /\ cover' = [cover EXCEPT ![g] = External]
  /\ dated' = [dated EXCEPT ![g] = FALSE]
  /\ tracks' = [tracks EXCEPT ![g] = {}]
  /\ Written(g)

----------------------------------------------------------------------------
(* Imports                                                                 *)

\* importGame: an existing game is replaced when the form says so; who is
\* Platform, and yes is the replacement that ImportGame is asked for.
BeginImport(k, s, replace) ==
  /\ (\E g \in Game : slug[g] = s) => replace
  /\ Read(k, [AtDesk EXCEPT !.op = "import", !.slug = s, !.yes = replace])

\* Bug variant: whoever holds the slug.
AnyHolder(u, s) == TRUE

\* A user may import where the slug is free or their own.
MayImport(u, s) == \A g \in Game : slug[g] = s => holder[g] = u

\* importMyGame: replaces what the user was found to hold.
BeginMyImport(k, u, s) ==
  /\ MayImport(u, s)
  /\ Read(k, [AtDesk EXCEPT !.op = "import", !.who = u, !.slug = s,
                            !.yes = \E g \in Game : slug[g] = s])

\* ImportGame: the owner of an existing row is kept, and not looked at.  The
\* cover of a package is below its slug; ErrAssetShared when another game still
\* tracks files there.
EndImport(k, g, st) ==
  LET u == clerk[k].who
      s == clerk[k].slug IN
  /\ clerk[k].op = "import"
  /\ u # Platform => st = "draft"
  /\ IF \E h \in Game : slug[h] = s THEN slug[g] = s /\ clerk[k].yes ELSE Fresh(g)
  /\ \A h \in Game \ {g} : s \notin tracks[h]
  /\ Put(g, s, st, s)
  /\ holder' = IF Live(g) THEN holder ELSE [holder EXCEPT ![g] = u]
  /\ \E next \in {Announcing(g, st), Unanswered} : Finish(k, g, next)

----------------------------------------------------------------------------
(* An owner's edit, a rollback, an approval                                *)

\* updateMyGame reads the slug of the user's game ...
BeginEdit(k, u, g) ==
  /\ OwnedBy(g, u)
  /\ Read(k, [AtDesk EXCEPT !.op = "edit", !.who = u, !.game = g, !.slug = slug[g]])

\* Bug variant: an owner's edit leaves the status alone.
EditInPlace(k, c) ==
  LET g == clerk[k].game IN
  /\ clerk[k].op = "edit"
  /\ Live(g) /\ SlugFree(clerk[k].slug, g)
  /\ Put(g, clerk[k].slug, status[g], c)
  /\ UNCHANGED holder
  /\ Finish(k, g, AtDesk)

\* ... and writes it back; the game goes to review.
EndEdit(k, c) ==
  LET g == clerk[k].game IN
  /\ clerk[k].op = "edit"
  /\ Live(g) /\ SlugFree(clerk[k].slug, g)
  /\ Put(g, clerk[k].slug, "review", c)
  /\ UNCHANGED holder
  /\ Finish(k, g, AtDesk)

\* rollbackGame, by the owner or an administrator: reads the row, then one of its
\* versions ...
BeginRollback(k, u, g) ==
  /\ OwnedBy(g, u) \/ (Live(g) /\ u = Platform)
  /\ Read(k, [AtDesk EXCEPT !.op = "rollback", !.who = u, !.game = g,
                            !.slug = slug[g], !.cover = cover[g]])

\* ... and writes the row with the version's text and the slug and URLs read.
EndRollback(k) ==
  LET g == clerk[k].game IN
  /\ clerk[k].op = "rollback"
  /\ Live(g) /\ SlugFree(clerk[k].slug, g)
  /\ Put(g, clerk[k].slug, "review", clerk[k].cover)
  /\ UNCHANGED holder
  /\ Finish(k, g, AtDesk)

\* approveGame reads whether there is something to announce ...
BeginApprove(k, g) ==
  /\ Live(g)
  /\ Read(k, [AtDesk EXCEPT !.op = "approve", !.game = g, !.yes = status[g] # "published"])

\* ... and ApproveGame publishes a game in review, and is content with a
\* published one.
EndApprove(k) ==
  LET g == clerk[k].game IN
  /\ clerk[k].op = "approve"
  /\ status[g] \in {"review", "published"}
  /\ status' = [status EXCEPT ![g] = "published"]
  /\ dated' = [dated EXCEPT ![g] = TRUE]
  /\ UNCHANGED <<holder, slug, cover, tracks>>
  /\ \E next \in {IF clerk[k].yes THEN Announcing(g, "published") ELSE AtDesk, Unanswered} :
       Finish(k, g, next)

\* recordPublishedGameEvent and NotifyGameOwner (module Community); nothing asks
\* whether the game is still published.
Announce(k) ==
  /\ clerk[k].op = "announce"
  /\ clerk' = [clerk EXCEPT ![k] = AtDesk]
  /\ UNCHANGED <<publicationRows, overtaken>>

GiveUp(k) ==
  clerk[k].op \in {"import", "edit", "rollback", "approve", "unanswered"} /\ Refused(k)

PublicationNext ==
  \/ \E g \in Game, s \in Slug, st \in Status : \E c \in {External, s} :
       CreateGame(g, s, st, c)
  \/ \E g \in Game, s \in Slug, st \in Status : \E c \in {External, s, cover[g]} :
       UpdateGame(g, s, st, c)
  \/ \E g \in Game : UnpublishGame(g)
  \/ \E g \in Game, u \in Uploader \cup {Platform} : DeleteGame(g, u)
  \/ \E k \in Clerk, s \in Slug, replace \in BOOLEAN : BeginImport(k, s, replace)
  \/ \E k \in Clerk, u \in Uploader, s \in Slug : BeginMyImport(k, u, s)
  \/ \E k \in Clerk, g \in Game, st \in Status : EndImport(k, g, st)
  \/ \E k \in Clerk, u \in Uploader, g \in Game : BeginEdit(k, u, g)
  \/ \E k \in Clerk : \E c \in {External, clerk[k].slug} \cap (Slug \cup {External}) :
       EndEdit(k, c)
  \/ \E k \in Clerk, u \in Uploader \cup {Platform}, g \in Game : BeginRollback(k, u, g)
  \/ \E k \in Clerk : EndRollback(k) \/ EndApprove(k) \/ Announce(k) \/ GiveUp(k)
  \/ \E k \in Clerk, g \in Game : BeginApprove(k, g)

PublicationSpec == PublicationInit /\ [][PublicationNext]_publicationVars

----------------------------------------------------------------------------
(* Properties                                                              *)

\* A published game has a date and a game in review or in draft has none, so that
\* a second publication is dated anew; no two games share a slug.
PublicationInv ==
  /\ \A g \in Game : /\ status[g] = "published" => dated[g]
                     /\ status[g] \in {"draft", "review", "new", "gone"} => ~dated[g]
                     /\ Live(g) <=> slug[g] # NoSlug
  /\ \A g, h \in Game : slug[g] = slug[h] /\ Live(g) => g = h

\* What clerk k has just done is what its reading allowed.
Sound(k) ==
  LET c == clerk[k]
      changed(g) == <<status[g], slug[g], cover[g]>> # <<status'[g], slug'[g], cover'[g]>> IN
  /\ c.op = "import" =>
       \A g \in Game : changed(g) =>
         /\ Live(g) => c.yes /\ (c.who # Platform => holder[g] = c.who)
         /\ holder'[g] = holder[g] \/ status[g] = "new"
  /\ c.op \in {"edit", "rollback"} => slug' = slug
  /\ c.op = "rollback" => cover' = cover
  /\ c.op = "approve" =>
       /\ clerk'[k].op = "announce" => status' # status
       /\ status' # status => clerk'[k].op \in {"announce", "unanswered"}

\* A request whose reading nobody has made stale behaves as if it had read under
\* the lock: a user's import writes no game of others, an edit and a rollback
\* leave the slug alone and a rollback the cover, and an approval goes on to announce
\* what it publishes and nothing else, unless the row cannot be read back.
SoundUnlessOvertaken ==
  \A k \in Clerk \ overtaken : clerk[k] # AtDesk /\ clerk'[k] # clerk[k] => Sound(k)

AtomicUnlessOvertaken == [][SoundUnlessOvertaken]_publicationVars

\* Whatever overtakes it, a request of an owner leaves the game it writes in
\* draft or in review: only administrators make anything public.
OwnerPublishesNothing ==
  \A k \in Clerk : clerk[k].who # Platform /\ clerk'[k] # clerk[k] =>
    \A g \in Game : status'[g] = "published" =>
      status[g] = "published" /\ slug'[g] = slug[g] /\ cover'[g] = cover[g]

OwnersDoNotPublish == [][OwnerPublishesNothing]_publicationVars
=============================================================================

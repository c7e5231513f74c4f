-------------------------- MODULE PublicationProofs ---------------------------
(***************************************************************************)
(* What TLAPS proves of Publication, for any users, slugs, games and       *)
(* concurrent requests: the row of a game stays in order, what is read     *)
(* before the lock is only wrong for a request that was overtaken, and     *)
(* owners publish nothing.                                                 *)
(***************************************************************************)
EXTENDS Publication, TLAPS

Work == [op : {"idle", "import", "edit", "rollback", "approve", "announce", "unanswered"},
         who : Uploader \cup {Platform}, game : Game \cup {NoGame},
         slug : Slug \cup {NoSlug}, cover : Slug \cup {External}, yes : BOOLEAN]

Kinds(k) ==
  /\ clerk[k].op \in {"import", "edit", "rollback"} => clerk[k].slug \in Slug
  /\ clerk[k].op \in {"edit", "rollback", "approve"} => clerk[k].game \in Game
  /\ clerk[k].op \in {"approve", "announce"} => clerk[k].who = Platform

\* What a request has read is still so.
UpToDate(k) ==
  LET c == clerk[k] IN
  /\ c.op = "import" => \A g \in Game : slug[g] = c.slug =>
       c.yes /\ (c.who # Platform => holder[g] = c.who)
  /\ c.op \in {"edit", "rollback"} => slug[c.game] = c.slug
  /\ c.op = "rollback" => cover[c.game] = c.cover
  /\ c.op = "approve" => (c.yes <=> status[c.game] # "published")

ClerkOK(k) == Kinds(k) /\ (k \notin overtaken => UpToDate(k))

PublicationIInv ==
  /\ PublicationTypeOK
  /\ PublicationInv
  /\ \A k \in Clerk : ClerkOK(k)

LEMMA DeskFacts == /\ AtDesk \in Work /\ AtDesk.op = "idle"
                   /\ \A g \in Game, st \in Status :
                        LET a == Announcing(g, st) IN
                        a \in Work /\ a.op \in {"idle", "announce"} /\ a.who = Platform
                   /\ Unanswered \in Work /\ Unanswered.op = "unanswered"
                   /\ Unanswered.who = Platform
BY DEF AtDesk, Work, Announcing, Unanswered

LEMMA PublicationInitIInv == PublicationInit => PublicationIInv
<1> SUFFICES ASSUME PublicationInit PROVE PublicationIInv
  OBVIOUS
<1>1. \A k \in Clerk : ClerkOK(k)
  BY DEF PublicationInit, ClerkOK, Kinds, UpToDate, AtDesk
<1>2. PublicationTypeOK
  BY DeskFacts DEF PublicationInit, PublicationTypeOK, Work
<1>3. PublicationInv
  BY DEF PublicationInit, PublicationInv, Live, Status
<1> QED
  BY <1>1, <1>2, <1>3 DEF PublicationIInv

----------------------------------------------------------------------------
(* The rows                                                                *)

Rows == /\ status \in [Game -> Status \cup {"new", "gone"}]
        /\ holder \in [Game -> Uploader \cup {Platform}]
        /\ slug \in [Game -> Slug \cup {NoSlug}]
        /\ cover \in [Game -> Slug \cup {External}]
        /\ dated \in [Game -> BOOLEAN]
        /\ tracks \in [Game -> SUBSET Slug]

LEMMA PutFacts ==
  ASSUME PublicationIInv, NEW g \in Game, NEW s \in Slug, NEW st \in Status, NEW c \in Slug \cup {External},
         Put(g, s, st, c), holder' \in [Game -> Uploader \cup {Platform}]
  PROVE  /\ Rows'
         /\ status'[g] = st /\ slug'[g] = s /\ cover'[g] = c
         /\ dated'[g] = PublishedAt(st, dated[g])
         /\ \A h \in Game \ {g} : /\ status'[h] = status[h] /\ slug'[h] = slug[h]
                                  /\ cover'[h] = cover[h] /\ dated'[h] = dated[h]
<1>1. PublishedAt(st, dated[g]) \in BOOLEAN
  BY DEF PublishedAt
<1>2. ({c} \cap {s}) \in SUBSET Slug
  OBVIOUS
<1> QED
  BY <1>1, <1>2 DEF PublicationIInv, PublicationTypeOK, Put, Rows

LEMMA PutKeepsInv ==
  ASSUME PublicationIInv, NEW g \in Game, NEW s \in Slug, NEW st \in Status, NEW c \in Slug \cup {External},
         Put(g, s, st, c), holder' \in [Game -> Uploader \cup {Platform}], SlugFree(s, g)
  PROVE  PublicationInv'
<1> USE DEF PublicationIInv
<1>1. ASSUME NEW h \in Game
      PROVE  /\ status'[h] = "published" => dated'[h]
             /\ status'[h] \in {"draft", "review", "new", "gone"} => ~dated'[h]
             /\ status'[h] \in Status <=> slug'[h] # NoSlug
  <2>1. CASE h = g
    <3>1. /\ status'[h] = st /\ slug'[h] = s /\ dated'[h] = PublishedAt(st, dated[h])
          /\ s # NoSlug
      BY <2>1, PutFacts, PublicationAssumption
    <3>2. CASE st = "published"
      BY <3>1, <3>2 DEF PublishedAt, Status
    <3>3. CASE st = "hidden"
      BY <3>1, <3>3 DEF Status
    <3>4. CASE st \in {"draft", "review"}
      <4>1. dated'[h] = FALSE
        BY <3>1, <3>4 DEF PublishedAt
      <4> QED
        BY <3>1, <3>4, <4>1 DEF Status
    <3> QED
      BY <3>2, <3>3, <3>4 DEF Status
  <2>2. CASE h # g
    BY <2>2, PutFacts DEF PublicationInv, Live
  <2> QED
    BY <2>1, <2>2
<1>2. ASSUME NEW h \in Game, NEW i \in Game, slug'[h] = slug'[i], status'[h] \in Status
      PROVE  h = i
  <2>1. /\ slug'[g] = s
        /\ \A j \in Game \ {g} : /\ slug'[j] = slug[j] /\ slug[j] # s
                                 /\ status'[j] = status[j]
    BY PutFacts DEF SlugFree
  <2> QED
    BY <1>2, <2>1 DEF PublicationInv, Live
<1> QED
  BY <1>1, <1>2 DEF PublicationInv, Live

----------------------------------------------------------------------------
(* The requests                                                            *)

\* Another request has written row g: k's reading of it is marked when it is stale.
LEMMA WriteKeepsOthers ==
  ASSUME PublicationIInv, NEW g \in Game, NEW k \in Clerk, clerk'[k] = clerk[k],
         k \in overtaken \cup Stale(g) => k \in overtaken',
         \A h \in Game \ {g} : /\ status'[h] = status[h] /\ slug'[h] = slug[h]
                               /\ cover'[h] = cover[h] /\ holder'[h] = holder[h],
         holder'[g] = holder[g] \/ slug'[g] # slug[g]
  PROVE  ClerkOK(k)'
<1> USE DEF PublicationIInv
<1>1. Kinds(k)'
  BY DEF ClerkOK, Kinds
<1>2. ASSUME k \notin overtaken' PROVE UpToDate(k)'
  <2>1. UpToDate(k) /\ Kinds(k) /\ k \notin Stale(g)
    BY <1>2 DEF ClerkOK
  <2>2. ASSUME clerk[k].op = "import", NEW h \in Game, slug'[h] = clerk[k].slug
        PROVE  clerk[k].yes /\ (clerk[k].who # Platform => holder'[h] = clerk[k].who)
    <3>1. slug[h] = slug'[h] /\ holder'[h] = holder[h]
      BY <2>1, <2>2 DEF Stale
    <3> QED
      BY <3>1, <2>1, <2>2 DEF UpToDate
  <2>3. ASSUME clerk[k].op \in {"edit", "rollback", "approve"}
        PROVE  /\ status'[clerk[k].game] = status[clerk[k].game]
               /\ slug'[clerk[k].game] = slug[clerk[k].game]
               /\ cover'[clerk[k].game] = cover[clerk[k].game]
    BY <2>1, <2>3 DEF Stale, Kinds
  <2> QED
    BY <2>1, <2>2, <2>3 DEF UpToDate
<1> QED
  BY <1>1, <1>2 DEF ClerkOK

\* A write by a request that had read nothing.
LEMMA WrittenKeeps ==
  ASSUME PublicationIInv, NEW g \in Game, Written(g), Rows', PublicationInv',
         \A h \in Game \ {g} : /\ status'[h] = status[h] /\ slug'[h] = slug[h]
                               /\ cover'[h] = cover[h] /\ holder'[h] = holder[h],
         holder'[g] = holder[g] \/ slug'[g] # slug[g]
  PROVE  PublicationIInv'
<1>1. ASSUME NEW k \in Clerk PROVE ClerkOK(k)'
  BY WriteKeepsOthers DEF Written
<1>2. PublicationTypeOK'
  BY DEF Rows, Written, Stale, PublicationIInv, PublicationTypeOK
<1> QED
  BY <1>1, <1>2 DEF PublicationIInv

\* A write by clerk k, who goes home or on to announce it.
LEMMA FinishKeeps ==
  ASSUME PublicationIInv, NEW g \in Game, NEW k \in Clerk, NEW next \in Work, Finish(k, g, next),
         next.op \in {"idle", "announce", "unanswered"}, next.who = Platform, Rows', PublicationInv',
         \A h \in Game \ {g} : /\ status'[h] = status[h] /\ slug'[h] = slug[h]
                               /\ cover'[h] = cover[h] /\ holder'[h] = holder[h],
         holder'[g] = holder[g] \/ slug'[g] # slug[g]
  PROVE  PublicationIInv'
<1>1. clerk' \in [Clerk -> Work] /\ clerk'[k] = next
  BY DEF PublicationIInv, PublicationTypeOK, Work, Finish
<1>2. ASSUME NEW j \in Clerk, j # k PROVE ClerkOK(j)'
  <2>1. clerk'[j] = clerk[j] /\ (j \in overtaken \cup Stale(g) => j \in overtaken')
    BY <1>2 DEF Finish, PublicationIInv, PublicationTypeOK
  <2> QED
    BY <2>1, WriteKeepsOthers
<1>3. ClerkOK(k)'
  BY <1>1 DEF ClerkOK, Kinds, UpToDate
<1>4. PublicationTypeOK'
  BY <1>1 DEF Rows, Finish, Stale, PublicationIInv, PublicationTypeOK, Work
<1> QED
  BY <1>2, <1>3, <1>4 DEF PublicationIInv

\* Clerk k reads, or goes home, and no row changes.
LEMMA ClerkMoves ==
  ASSUME PublicationIInv, NEW k \in Clerk, NEW next \in Work, clerk' = [clerk EXCEPT ![k] = next],
         overtaken' = overtaken \/ overtaken' = overtaken \ {k}, UNCHANGED publicationRows,
         ClerkOK(k)'
  PROVE  PublicationIInv'
<1> USE DEF PublicationIInv, publicationRows
<1>1. clerk' \in [Clerk -> Work] /\ \A j \in Clerk \ {k} : clerk'[j] = clerk[j]
  BY DEF PublicationTypeOK, Work
<1>2. PublicationTypeOK'
  BY <1>1 DEF PublicationTypeOK, Work
<1>3. PublicationInv'
  BY DEF PublicationInv, Live
<1>4. ASSUME NEW j \in Clerk, j # k PROVE ClerkOK(j)'
  <2>1. clerk'[j] = clerk[j] /\ (j \in overtaken <=> j \in overtaken')
    BY <1>1, <1>4
  <2> QED
    BY <2>1 DEF ClerkOK, Kinds, UpToDate
<1> QED
  BY <1>2, <1>3, <1>4

----------------------------------------------------------------------------
(* The steps                                                               *)

LEMMA AdminKeeps ==
  ASSUME PublicationIInv, NEW g \in Game, NEW s \in Slug, NEW st \in Status,
         NEW c \in Slug \cup {External}, CreateGame(g, s, st, c) \/ UpdateGame(g, s, st, c)
  PROVE  PublicationIInv'
<1>1. /\ Put(g, s, st, c) /\ SlugFree(s, g) /\ holder' = holder /\ Written(g)
      /\ holder' \in [Game -> Uploader \cup {Platform}]
  BY DEF CreateGame, UpdateGame, PublicationIInv, PublicationTypeOK
<1>2. Rows' /\ \A h \in Game \ {g} : /\ status'[h] = status[h] /\ slug'[h] = slug[h]
                                     /\ cover'[h] = cover[h]
  BY <1>1, PutFacts
<1>3. PublicationInv'
  BY <1>1, PutKeepsInv
<1> QED
  BY <1>1, <1>2, <1>3, WrittenKeeps

LEMMA UnpublishKeeps == ASSUME PublicationIInv, NEW g \in Game, UnpublishGame(g) PROVE PublicationIInv'
<1>1. /\ Rows' /\ \A h \in Game \ {g} : status'[h] = status[h]
      /\ status'[g] = "hidden" /\ Live(g)
      /\ UNCHANGED <<holder, slug, cover, dated, tracks>>
  BY DEF UnpublishGame, PublicationIInv, PublicationTypeOK, Rows, Status
<1>2. PublicationInv'
  BY <1>1 DEF PublicationIInv, PublicationInv, Live, Status
<1> QED
  BY <1>1, <1>2, WrittenKeeps DEF UnpublishGame

LEMMA DeleteKeeps ==
  ASSUME PublicationIInv, NEW g \in Game, NEW u \in Uploader \cup {Platform}, DeleteGame(g, u)
  PROVE  PublicationIInv'
<1> USE DEF PublicationIInv
<1>1. Rows' /\ Written(g)
  BY DEF DeleteGame, PublicationTypeOK, Rows
<1>2. \A h \in Game \ {g} : /\ status'[h] = status[h] /\ slug'[h] = slug[h]
                            /\ cover'[h] = cover[h] /\ holder'[h] = holder[h]
                            /\ dated'[h] = dated[h]
  BY DEF DeleteGame, PublicationTypeOK
<1>3. /\ status'[g] = "gone" /\ slug'[g] = NoSlug /\ dated'[g] = FALSE
      /\ slug[g] # NoSlug
  BY DEF DeleteGame, PublicationTypeOK, OwnedBy, PublicationInv
<1>4. PublicationInv'
  BY <1>2, <1>3 DEF PublicationInv, Live, Status
<1> QED
  BY <1>1, <1>2, <1>3, <1>4, WrittenKeeps

\* A clerk who reads is up to date.
LEMMA ReadKeeps ==
  ASSUME PublicationIInv, NEW k \in Clerk, NEW next \in Work, Read(k, next),
         next.op \in {"import", "edit", "rollback"} => next.slug \in Slug,
         next.op \in {"edit", "rollback", "approve"} => next.game \in Game,
         next.op \in {"approve", "announce"} => next.who = Platform,
         next.op = "import" => \A g \in Game : slug[g] = next.slug =>
           next.yes /\ (next.who # Platform => holder[g] = next.who),
         next.op \in {"edit", "rollback"} => slug[next.game] = next.slug,
         next.op = "rollback" => cover[next.game] = next.cover,
         next.op = "approve" => (next.yes <=> status[next.game] # "published")
  PROVE  PublicationIInv'
<1>1. clerk'[k] = next
  BY DEF Read, PublicationIInv, PublicationTypeOK
<1>2. ClerkOK(k)'
  BY <1>1 DEF Read, publicationRows, ClerkOK, Kinds, UpToDate
<1> QED
  BY <1>2, ClerkMoves DEF Read

LEMMA BeginImportKeeps ==
  ASSUME PublicationIInv, NEW k \in Clerk, NEW s \in Slug,
         \/ \E replace \in BOOLEAN : BeginImport(k, s, replace)
         \/ \E u \in Uploader : BeginMyImport(k, u, s)
  PROVE  PublicationIInv'
<1>1. CASE \E replace \in BOOLEAN : BeginImport(k, s, replace)
  <2>1. PICK replace \in BOOLEAN : BeginImport(k, s, replace)
    BY <1>1
  <2>2. PICK next : next = [AtDesk EXCEPT !.op = "import", !.slug = s, !.yes = replace]
    OBVIOUS
  <2>3. /\ next \in Work /\ next.op = "import" /\ next.slug = s /\ next.who = Platform
        /\ next.yes = replace /\ Read(k, next)
    BY <2>1, <2>2 DEF AtDesk, Work, BeginImport
  <2>4. \A g \in Game : slug[g] = s => replace
    BY <2>1 DEF BeginImport
  <2> QED
    BY <2>3, <2>4, ReadKeeps
<1>2. CASE \E u \in Uploader : BeginMyImport(k, u, s)
  <2>1. PICK u \in Uploader : BeginMyImport(k, u, s)
    BY <1>2
  <2>2. PICK next : next = [AtDesk EXCEPT !.op = "import", !.who = u, !.slug = s,
                                          !.yes = \E g \in Game : slug[g] = s]
    OBVIOUS
  <2>3. /\ next \in Work /\ next.op = "import" /\ next.slug = s /\ next.who = u
        /\ next.yes = (\E g \in Game : slug[g] = s) /\ Read(k, next)
    BY <2>1, <2>2 DEF AtDesk, Work, BeginMyImport
  <2>4. \A g \in Game : slug[g] = s => holder[g] = u
    BY <2>1 DEF BeginMyImport, MayImport
  <2> QED
    BY <2>3, <2>4, ReadKeeps
<1> QED
  BY <1>1, <1>2

\* A live game has a slug.
LEMMA LiveHasSlug == ASSUME PublicationIInv, NEW g \in Game, Live(g) PROVE slug[g] \in Slug
BY DEF PublicationIInv, PublicationInv, PublicationTypeOK

LEMMA BeginEditKeeps ==
  ASSUME PublicationIInv, NEW k \in Clerk, NEW u \in Uploader \cup {Platform}, NEW g \in Game,
         BeginEdit(k, u, g) \/ BeginRollback(k, u, g) \/ BeginApprove(k, g)
  PROVE  PublicationIInv'
<1>0. slug[g] \in Slug /\ cover[g] \in Slug \cup {External}
  BY LiveHasSlug
     DEF BeginEdit, BeginRollback, BeginApprove, OwnedBy, PublicationIInv, PublicationTypeOK
<1>1. CASE BeginEdit(k, u, g)
  <2>1. PICK next : next = [AtDesk EXCEPT !.op = "edit", !.who = u, !.game = g, !.slug = slug[g]]
    OBVIOUS
  <2>2. /\ next \in Work /\ next.op = "edit" /\ next.slug = slug[g] /\ next.game = g
        /\ Read(k, next)
    BY <1>0, <1>1, <2>1 DEF AtDesk, Work, BeginEdit
  <2> QED
    BY <1>0, <2>2, ReadKeeps
<1>2. CASE BeginRollback(k, u, g)
  <2>1. PICK next : next = [AtDesk EXCEPT !.op = "rollback", !.who = u, !.game = g,
                                          !.slug = slug[g], !.cover = cover[g]]
    OBVIOUS
  <2>2. /\ next \in Work /\ next.op = "rollback" /\ next.slug = slug[g] /\ next.game = g
        /\ next.cover = cover[g] /\ Read(k, next)
    BY <1>0, <1>2, <2>1 DEF AtDesk, Work, BeginRollback
  <2> QED
    BY <1>0, <2>2, ReadKeeps
<1>3. CASE BeginApprove(k, g)
  <2>1. PICK next : next = [AtDesk EXCEPT !.op = "approve", !.game = g,
                                          !.yes = status[g] # "published"]
    OBVIOUS
  <2>2. /\ next \in Work /\ next.op = "approve" /\ next.game = g /\ next.who = Platform
        /\ next.yes = (status[g] # "published") /\ Read(k, next)
    BY <1>3, <2>1 DEF AtDesk, Work, BeginApprove
  <2> QED
    BY <2>2, ReadKeeps
<1> QED
  BY <1>1, <1>2, <1>3

\* Where an import writes, nobody else holds the slug.
LEMMA EndImportFacts ==
  ASSUME PublicationIInv, NEW k \in Clerk, NEW g \in Game, NEW st \in Status, EndImport(k, g, st)
  PROVE  /\ clerk[k].slug \in Slug /\ SlugFree(clerk[k].slug, g)
         /\ slug[g] = clerk[k].slug \/ Fresh(g)
         /\ Live(g) => slug[g] = clerk[k].slug
         /\ slug[g] = clerk[k].slug => clerk[k].yes
         /\ holder' \in [Game -> Uploader \cup {Platform}]
         /\ Live(g) => holder' = holder
         /\ \A h \in Game \ {g} : holder'[h] = holder[h]
<1> USE DEF PublicationIInv
<1>1. clerk[k].slug \in Slug /\ clerk[k].who \in Uploader \cup {Platform}
  BY DEF EndImport, ClerkOK, Kinds, PublicationTypeOK
<1>2. /\ slug[g] = clerk[k].slug \/ Fresh(g)
      /\ slug[g] = clerk[k].slug => clerk[k].yes
  BY DEF EndImport
<1>3. /\ holder' = IF Live(g) THEN holder ELSE [holder EXCEPT ![g] = clerk[k].who]
      /\ holder' \in [Game -> Uploader \cup {Platform}]
  BY <1>1 DEF EndImport, PublicationTypeOK
<1>4. Live(g) => slug[g] = clerk[k].slug
  BY <1>2 DEF Fresh, Live, Status
<1>5. SlugFree(clerk[k].slug, g)
  <2> SUFFICES ASSUME NEW h \in Game \ {g}, slug[h] = clerk[k].slug PROVE FALSE
    BY DEF SlugFree
  <2>1. slug[g] = slug[h]
    BY DEF EndImport
  <2>2. Live(h)
    BY <1>1, PublicationAssumption DEF PublicationInv
  <2> QED
    BY <2>1, <2>2 DEF PublicationInv
<1>6. \A h \in Game \ {g} : holder'[h] = holder[h]
  BY <1>3 DEF PublicationTypeOK
<1> QED
  BY <1>1, <1>2, <1>3, <1>4, <1>5, <1>6

LEMMA EndImportKeeps ==
  ASSUME PublicationIInv, NEW k \in Clerk, NEW g \in Game, NEW st \in Status, EndImport(k, g, st)
  PROVE  PublicationIInv'
<1>1. PICK s \in Slug : s = clerk[k].slug /\ Put(g, s, st, s) /\ SlugFree(s, g)
  BY EndImportFacts DEF EndImport
<1>2. Rows' /\ slug'[g] = s
      /\ \A h \in Game \ {g} : /\ status'[h] = status[h] /\ slug'[h] = slug[h]
                               /\ cover'[h] = cover[h]
  BY <1>1, EndImportFacts, PutFacts
<1>3. PublicationInv'
  BY <1>1, EndImportFacts, PutKeepsInv
<1>4. holder'[g] = holder[g] \/ slug'[g] # slug[g]
  <2>1. CASE Live(g)
    BY <2>1, EndImportFacts
  <2>2. CASE ~Live(g)
    <3>1. slug[g] = NoSlug
      BY <2>2 DEF PublicationIInv, PublicationInv
    <3> QED
      BY <3>1, <1>2, PublicationAssumption
  <2> QED
    BY <2>1, <2>2
<1>5. PICK next \in {Announcing(g, st), Unanswered} : Finish(k, g, next)
  BY DEF EndImport
<1>6. next \in Work /\ next.op \in {"idle", "announce", "unanswered"} /\ next.who = Platform
  BY DeskFacts
<1> QED
  BY <1>2, <1>3, <1>4, <1>5, <1>6, EndImportFacts, FinishKeeps

LEMMA EndEditKeeps ==
  ASSUME PublicationIInv, NEW k \in Clerk,
         \/ \E c \in {External, clerk[k].slug} \cap (Slug \cup {External}) : EndEdit(k, c)
         \/ EndRollback(k)
  PROVE  PublicationIInv'
<1>1. PICK g \in Game, s \in Slug, c \in Slug \cup {External} :
        /\ g = clerk[k].game /\ Put(g, s, "review", c) /\ SlugFree(s, g)
        /\ Finish(k, g, AtDesk)
  BY DEF EndEdit, EndRollback, PublicationIInv, ClerkOK, Kinds, PublicationTypeOK
<1>2. holder' = holder /\ holder' \in [Game -> Uploader \cup {Platform}] /\ "review" \in Status
  BY DEF EndEdit, EndRollback, PublicationIInv, PublicationTypeOK, Status
<1>3. Rows' /\ \A h \in Game \ {g} : /\ status'[h] = status[h] /\ slug'[h] = slug[h]
                                     /\ cover'[h] = cover[h]
  BY <1>1, <1>2, PutFacts
<1>4. PublicationInv'
  BY <1>1, <1>2, PutKeepsInv
<1>5. AtDesk \in Work /\ AtDesk.op = "idle" /\ AtDesk.who = Platform
  BY DeskFacts DEF AtDesk
<1> QED
  BY <1>1, <1>2, <1>3, <1>4, <1>5, FinishKeeps

LEMMA EndApproveKeeps == ASSUME PublicationIInv, NEW k \in Clerk, EndApprove(k) PROVE PublicationIInv'
<1> USE DEF PublicationIInv
<1>1. PICK g \in Game : g = clerk[k].game
  BY DEF EndApprove, ClerkOK, Kinds
<1>2. /\ status[g] \in {"review", "published"}
      /\ status' = [status EXCEPT ![g] = "published"]
      /\ dated' = [dated EXCEPT ![g] = TRUE]
      /\ UNCHANGED <<holder, slug, cover, tracks>>
  BY <1>1 DEF EndApprove
<1>3. Rows' /\ \A h \in Game \ {g} : status'[h] = status[h]
  BY <1>2 DEF PublicationTypeOK, Rows, Status
<1>4. PublicationInv'
  BY <1>2 DEF PublicationInv, Live, Status, PublicationTypeOK
<1>5. PICK next : /\ next \in Work /\ next.op \in {"idle", "announce", "unanswered"}
                  /\ next.who = Platform
                  /\ Finish(k, g, next)
  <2>1. PICK next \in {Announcing(g, "published"), AtDesk, Unanswered} : Finish(k, g, next)
    BY <1>1 DEF EndApprove
  <2>2. AtDesk.who = Platform
    BY DEF AtDesk
  <2> QED
    BY <2>1, <2>2, DeskFacts DEF Status
<1> QED
  BY <1>2, <1>3, <1>4, <1>5, FinishKeeps

LEMMA HomeKeeps == ASSUME PublicationIInv, NEW k \in Clerk, Announce(k) \/ GiveUp(k) PROVE PublicationIInv'
<1>1. clerk'[k] = AtDesk /\ clerk' = [clerk EXCEPT ![k] = AtDesk]
  BY DEF Announce, GiveUp, Refused, PublicationIInv, PublicationTypeOK
<1>2. ClerkOK(k)'
  BY <1>1, DeskFacts DEF ClerkOK, Kinds, UpToDate
<1> QED
  BY <1>1, <1>2, DeskFacts, ClerkMoves DEF Announce, GiveUp, Refused

LEMMA PublicationNextIInv == PublicationIInv /\ [PublicationNext]_publicationVars => PublicationIInv'
<1> SUFFICES ASSUME PublicationIInv, [PublicationNext]_publicationVars PROVE PublicationIInv'
  OBVIOUS
<1>1. CASE UNCHANGED publicationVars
  BY <1>1 DEF publicationVars, publicationRows, PublicationIInv, PublicationTypeOK, PublicationInv, Live,
              ClerkOK, Kinds, UpToDate
<1>2. ASSUME NEW g \in Game, NEW s \in Slug, NEW st \in Status,
             \/ \E c \in {External, s} : CreateGame(g, s, st, c)
             \/ \E c \in {External, s, cover[g]} : UpdateGame(g, s, st, c)
      PROVE  PublicationIInv'
  <2>1. cover[g] \in Slug \cup {External}
    BY DEF PublicationIInv, PublicationTypeOK
  <2> QED
    BY <1>2, <2>1, AdminKeeps
<1>3. ASSUME NEW g \in Game, UnpublishGame(g) PROVE PublicationIInv'
  BY <1>3, UnpublishKeeps
<1>4. ASSUME NEW g \in Game, NEW u \in Uploader \cup {Platform}, DeleteGame(g, u) PROVE PublicationIInv'
  BY <1>4, DeleteKeeps
<1>5. ASSUME NEW k \in Clerk, NEW s \in Slug,
             \/ \E replace \in BOOLEAN : BeginImport(k, s, replace)
             \/ \E u \in Uploader : BeginMyImport(k, u, s)
      PROVE  PublicationIInv'
  BY <1>5, BeginImportKeeps
<1>6. ASSUME NEW k \in Clerk, NEW g \in Game, NEW st \in Status, EndImport(k, g, st) PROVE PublicationIInv'
  BY <1>6, EndImportKeeps
<1>7. ASSUME NEW k \in Clerk, NEW u \in Uploader \cup {Platform}, NEW g \in Game,
             BeginEdit(k, u, g) \/ BeginRollback(k, u, g) \/ BeginApprove(k, g)
      PROVE  PublicationIInv'
  BY <1>7, BeginEditKeeps
<1>8. ASSUME NEW k \in Clerk,
             \/ \E c \in {External, clerk[k].slug} \cap (Slug \cup {External}) : EndEdit(k, c)
             \/ EndRollback(k)
      PROVE  PublicationIInv'
  BY <1>8, EndEditKeeps
<1>9. ASSUME NEW k \in Clerk, EndApprove(k) \/ Announce(k) \/ GiveUp(k) PROVE PublicationIInv'
  BY <1>9, EndApproveKeeps, HomeKeeps
<1> QED
  BY <1>1, <1>2, <1>3, <1>4, <1>5, <1>6, <1>7, <1>8, <1>9 DEF PublicationNext

----------------------------------------------------------------------------
(* What a request may do                                                   *)

\* Who goes on has ended an operation of its own.
LEMMA OwnStep ==
  ASSUME PublicationIInv, PublicationNext, NEW k \in Clerk, clerk[k] # AtDesk, clerk'[k] # clerk[k]
  PROVE  \/ \E g \in Game, st \in Status : EndImport(k, g, st)
         \/ \E c \in Slug \cup {External} : EndEdit(k, c)
         \/ EndRollback(k) \/ EndApprove(k)
         \/ (Announce(k) \/ GiveUp(k)) /\ UNCHANGED publicationRows
<1> USE DEF PublicationIInv
<1>1. ASSUME NEW g \in Game, Written(g) PROVE FALSE
  BY <1>1 DEF Written
<1>2. ASSUME NEW j \in Clerk, NEW what, Read(j, what) PROVE FALSE
  BY <1>2 DEF Read, PublicationTypeOK
<1>3. ASSUME NEW j \in Clerk, j # k, NEW next, clerk' = [clerk EXCEPT ![j] = next] PROVE FALSE
  BY <1>3 DEF PublicationTypeOK
<1>4. ASSUME NEW g \in Game, NEW s \in Slug, NEW st \in Status,
             \/ \E c \in {External, s} : CreateGame(g, s, st, c)
             \/ \E c \in {External, s, cover[g]} : UpdateGame(g, s, st, c)
      PROVE  FALSE
  BY <1>1, <1>4 DEF CreateGame, UpdateGame
<1>5. ASSUME NEW g \in Game, NEW u \in Uploader \cup {Platform},
             UnpublishGame(g) \/ DeleteGame(g, u)
      PROVE  FALSE
  BY <1>1, <1>5 DEF UnpublishGame, DeleteGame
<1>6. ASSUME NEW j \in Clerk, NEW s \in Slug,
             \/ \E replace \in BOOLEAN : BeginImport(j, s, replace)
             \/ \E u \in Uploader : BeginMyImport(j, u, s)
      PROVE  FALSE
  BY <1>2, <1>6 DEF BeginImport, BeginMyImport
<1>7. ASSUME NEW j \in Clerk, NEW u \in Uploader \cup {Platform}, NEW g \in Game,
             BeginEdit(j, u, g) \/ BeginRollback(j, u, g) \/ BeginApprove(j, g)
      PROVE  FALSE
  BY <1>2, <1>7 DEF BeginEdit, BeginRollback, BeginApprove
<1>8. ASSUME NEW j \in Clerk, NEW g \in Game, NEW st \in Status, EndImport(j, g, st)
      PROVE  j = k
  BY <1>3, <1>8 DEF EndImport, Finish
<1>9. ASSUME NEW j \in Clerk,
             \E c \in {External, clerk[j].slug} \cap (Slug \cup {External}) : EndEdit(j, c)
      PROVE  j = k
  BY <1>3, <1>9 DEF EndEdit, Finish
<1>10. ASSUME NEW j \in Clerk, EndRollback(j) \/ EndApprove(j) \/ Announce(j) \/ GiveUp(j)
       PROVE  j = k
  BY <1>3, <1>10 DEF EndRollback, EndApprove, Announce, GiveUp, Refused, Finish
<1>11. Announce(k) \/ GiveUp(k) => UNCHANGED publicationRows
  BY DEF Announce, GiveUp, Refused
<1> QED
  BY <1>4, <1>5, <1>6, <1>7, <1>8, <1>9, <1>10, <1>11 DEF PublicationNext

LEMMA OwnersStep ==
  ASSUME PublicationIInv, PublicationNext, NEW k \in Clerk, clerk[k].who # Platform, clerk'[k] # clerk[k],
         NEW g \in Game, status'[g] = "published"
  PROVE  status[g] = "published" /\ slug'[g] = slug[g] /\ cover'[g] = cover[g]
<1> USE DEF PublicationIInv
<1>0. clerk[k] # AtDesk
  BY DEF AtDesk
<1>1. ASSUME NEW h \in Game, NEW s \in Slug, NEW st \in {"draft", "review"},
             NEW c \in Slug \cup {External}, Put(h, s, st, c)
      PROVE  status[g] = "published" /\ slug'[g] = slug[g] /\ cover'[g] = cover[g]
  BY <1>1 DEF Put, PublicationTypeOK
<1>2. ASSUME NEW h \in Game, NEW st \in Status, EndImport(k, h, st)
      PROVE  status[g] = "published" /\ slug'[g] = slug[g] /\ cover'[g] = cover[g]
  <2>1. PICK s \in Slug : s = clerk[k].slug /\ Put(h, s, st, s) /\ st = "draft"
    BY <1>2, EndImportFacts DEF EndImport
  <2> QED
    BY <1>1, <2>1
<1>3. ASSUME (\E c \in Slug \cup {External} : EndEdit(k, c)) \/ EndRollback(k)
      PROVE  status[g] = "published" /\ slug'[g] = slug[g] /\ cover'[g] = cover[g]
  <2>1. PICK h \in Game, s \in Slug, c \in Slug \cup {External} : Put(h, s, "review", c)
    BY <1>3 DEF EndEdit, EndRollback, ClerkOK, Kinds, PublicationTypeOK
  <2> QED
    BY <1>1, <2>1
<1>4. ~EndApprove(k)
  BY DEF EndApprove, ClerkOK, Kinds
<1> QED
  BY <1>0, <1>2, <1>3, <1>4, OwnStep DEF publicationRows

LEMMA SoundStep ==
  ASSUME PublicationIInv, PublicationNext, NEW k \in Clerk \ overtaken, clerk[k] # AtDesk,
         clerk'[k] # clerk[k]
  PROVE  Sound(k)
<1> USE DEF PublicationIInv
<1>0. Kinds(k) /\ UpToDate(k)
  BY DEF ClerkOK
<1>1. ASSUME NEW g \in Game, NEW st \in Status, EndImport(k, g, st) PROVE Sound(k)
  <2>1. PICK s \in Slug : s = clerk[k].slug /\ Put(g, s, st, s)
    BY <1>1, EndImportFacts DEF EndImport
  <2>2. \A h \in Game \ {g} : /\ status'[h] = status[h] /\ slug'[h] = slug[h]
                              /\ cover'[h] = cover[h]
    BY <1>1, <2>1, EndImportFacts, PutFacts
  <2>3. Live(g) => clerk[k].yes /\ (clerk[k].who # Platform => holder[g] = clerk[k].who)
    BY <1>0, <1>1, EndImportFacts DEF UpToDate, EndImport
  <2>4. holder'[g] = holder[g] \/ status[g] = "new"
    BY <1>1, EndImportFacts, PublicationAssumption DEF Fresh, PublicationInv
  <2>5. clerk[k].op = "import"
    BY <1>1 DEF EndImport
  <2> QED
    BY <2>2, <2>3, <2>4, <2>5 DEF Sound
<1>2. ASSUME NEW c \in Slug \cup {External}, EndEdit(k, c) PROVE Sound(k)
  <2>1. clerk[k].op = "edit" /\ slug' = [slug EXCEPT ![clerk[k].game] = clerk[k].slug]
    BY <1>2 DEF EndEdit, Put
  <2>2. slug' = slug
    BY <1>0, <2>1 DEF UpToDate, PublicationTypeOK
  <2> QED
    BY <2>1, <2>2 DEF Sound
<1>3. ASSUME EndRollback(k) PROVE Sound(k)
  <2>1. /\ clerk[k].op = "rollback" /\ slug' = [slug EXCEPT ![clerk[k].game] = clerk[k].slug]
        /\ cover' = [cover EXCEPT ![clerk[k].game] = clerk[k].cover]
    BY <1>3 DEF EndRollback, Put
  <2>2. slug' = slug /\ cover' = cover
    BY <1>0, <2>1 DEF UpToDate, PublicationTypeOK
  <2> QED
    BY <2>1, <2>2 DEF Sound
<1>4. ASSUME EndApprove(k) PROVE Sound(k)
  <2>1. PICK g \in Game : g = clerk[k].game
    BY <1>4 DEF EndApprove, ClerkOK, Kinds
  <2>2. /\ clerk[k].op = "approve" /\ status' = [status EXCEPT ![g] = "published"]
        /\ clerk'[k] \in {IF clerk[k].yes THEN Announcing(g, "published") ELSE AtDesk,
                           Unanswered}
    BY <1>4, <2>1 DEF EndApprove, Finish, PublicationTypeOK
  <2>3. clerk[k].yes <=> status[g] # "published"
    BY <1>0, <2>1, <2>2 DEF UpToDate
  <2>4. /\ clerk'[k].op = "announce" => clerk[k].yes
        /\ clerk[k].yes => clerk'[k].op \in {"announce", "unanswered"}
    <3>1. /\ Announcing(g, "published").op = "announce" /\ AtDesk.op = "idle"
          /\ Unanswered.op = "unanswered"
      BY DEF Announcing, Unanswered, AtDesk
    <3> QED BY <2>2, <3>1
  <2>5. status' # status <=> status[g] # "published"
    BY <2>2 DEF PublicationTypeOK
  <2> QED
    BY <2>2, <2>3, <2>4, <2>5 DEF Sound
<1>5. ASSUME Announce(k) \/ GiveUp(k), UNCHANGED publicationRows PROVE Sound(k)
  <2>1. clerk'[k] = AtDesk
    BY <1>5 DEF Announce, GiveUp, Refused, PublicationTypeOK
  <2> QED
    BY <1>5, <2>1 DEF Sound, publicationRows, AtDesk
<1> QED
  BY <1>1, <1>2, <1>3, <1>4, <1>5, OwnStep

----------------------------------------------------------------------------
(* Theorems                                                                *)

\* The invariant that carries the rest: the reading of a request that was not overtaken
\* is still right.
THEOREM PublicationInvariant == PublicationSpec => []PublicationIInv
<1>1. PublicationInit => PublicationIInv
  BY PublicationInitIInv
<1>2. PublicationIInv /\ [PublicationNext]_publicationVars => PublicationIInv'
  BY PublicationNextIInv
<1> QED
  BY <1>1, <1>2, PTL DEF PublicationSpec

\* The rows and the requests have their types.
THEOREM PublicationTypeCorrect == PublicationSpec => []PublicationTypeOK
<1>1. PublicationIInv => PublicationTypeOK
  BY DEF PublicationIInv
<1> QED
  BY <1>1, PublicationInvariant, PTL

\* Dates go with the status, and no two games share a slug.
THEOREM PublicationCorrect == PublicationSpec => []PublicationInv
<1>1. PublicationIInv => PublicationInv
  BY DEF PublicationIInv
<1> QED
  BY <1>1, PublicationInvariant, PTL

\* The handlers that read before they take gameMu behave as if they had read under it,
\* unless another request made what they read stale in between.
THEOREM AtomicOrOvertaken == PublicationSpec => AtomicUnlessOvertaken
<1>1. PublicationIInv /\ [PublicationNext]_publicationVars => [SoundUnlessOvertaken]_publicationVars
  BY SoundStep DEF SoundUnlessOvertaken
<1> QED
  BY <1>1, PublicationInvariant, PTL DEF PublicationSpec, AtomicUnlessOvertaken

\* No request of an owner makes anything public, not even one that was overtaken
\* (importMyGame, updateMyGame, rollbackGame).
THEOREM OwnersStayPrivate == PublicationSpec => OwnersDoNotPublish
<1>1. PublicationIInv /\ [PublicationNext]_publicationVars => [OwnerPublishesNothing]_publicationVars
  BY OwnersStep DEF OwnerPublishesNothing
<1> QED
  BY <1>1, PublicationInvariant, PTL DEF PublicationSpec, OwnersDoNotPublish
=============================================================================

--------------------------- MODULE PlayerServices ----------------------------
(***************************************************************************)
(* Capabilities of a package, game tickets and stored player data          *)
(* (apps/api/internal/data/game_platform.go, httpapi/server.go).           *)
(*                                                                         *)
(* A game's manifest resolves to a set of capabilities; a logged-in player *)
(* gets a ticket with their scopes, and every request with a ticket reads  *)
(* the game again before it writes.  PutGameData counts and writes         *)
(* in one IMMEDIATE transaction.  Meanwhile the game may be hidden, given  *)
(* another package, or deleted and its slug taken by a new game.           *)
(*                                                                         *)
(* The model follows one slug and one player: rows are those of a game's   *)
(* id and a user's id, and no statement looks at others.                   *)
(***************************************************************************)
EXTENDS Naturals, FiniteSets

CONSTANTS DataKey, NoKey,
          MaxKeys, MaxValue, MaxTotal,   \* maxGameDataKeys, ...Bytes, ...TotalBytes
          Package,                       \* the packages that are imported here
          MaxIds,                        \* bound: games that hold the slug in turn
          MaxTickets,                    \* bound: tickets valid at a time
          Client                         \* requests that can run at the same time

ASSUME PlayerServicesAssumption ==
  {MaxKeys, MaxValue, MaxTotal, MaxIds, MaxTickets} \subseteq Nat

----------------------------------------------------------------------------
(* resolveGamePlatform                                                     *)

\* A game without a package keeps the hints of its row and gives no tickets.
Kind == {"static", "external"}
Scope == {"identity", "storage", "matchmaking"}

\* services.* of a manifest ("other" is a value the code does not know), and the
\* fields of the older platform object, which all have a default.
Manifest == [identity : {"absent", "none", "optional", "required", "other"},
             storage : {"absent", "none", "sqlite", "other"},
             namespace : {"player-game", "player", "game", "other"},
             matchmaking : {"absent", "off", "on"},
             oldLogin : BOOLEAN, oldStorage : {"", "none", "sqlite"}, oldMatch : BOOLEAN]

Identity(m) ==
  IF m.identity = "absent" THEN (IF m.oldLogin THEN "required" ELSE "none")
  ELSE IF m.identity = "other" THEN "none" ELSE m.identity

\* SQLite is what a static package gets without asking.
Provider(m) ==
  IF m.storage = "absent" THEN (IF m.oldStorage = "none" THEN "none" ELSE "sqlite")
  ELSE IF m.storage = "other" THEN "sqlite" ELSE m.storage

\* A scope is only read from a declared storage.
Namespace(m) == IF m.storage = "absent" \/ m.namespace = "other" THEN "player-game"
                ELSE m.namespace

Matches(m) == m.matchmaking = "on" \/ (m.matchmaking = "absent" /\ m.oldMatch)

\* Scopes: only what the package has asked for.
Scopes(k, m) ==
  IF k # "static" THEN {}
  ELSE {s \in Scope :
         \/ s = "identity" /\ Identity(m) # "none"
         \/ s = "storage" /\ Provider(m) = "sqlite"
              /\ (m.storage # "absent" \/ m.oldStorage # "")
         \/ s = "matchmaking" /\ Matches(m)}

RequiresLogin(k, m) ==
  /\ k = "static"
  /\ \/ Identity(m) = "required"
     \/ "storage" \in Scopes(k, m) /\ Namespace(m) # "game"
     \/ "matchmaking" \in Scopes(k, m)

\* PutGameData and DeleteGameData: the provider, then dataScopeUser.
Storable(k, m) == k = "static" /\ Provider(m) = "sqlite" /\ Namespace(m) # "game"

----------------------------------------------------------------------------
VARIABLES
  id,        \* the game that has the slug, 0 when there is none
  package,   \* its kind and manifest
  public,    \* it is published
  used,      \* ids given so far
  tickets,   \* valid tickets: game, scopes, and the scopes of the first of a chain
  rows,      \* game_player_data of game and player: size of each value, 0 for none
  author,    \* history: the game of the ticket that a row was written with
  call,      \* what each request is doing
  writer     \* the write lock of the database

servicesVars == <<id, package, public, used, tickets, rows, author, call, writer>>

Waiting == [at |-> "none", op |-> "none", game |-> 0, key |-> NoKey, size |-> 0, yes |-> FALSE]

Ticket == [game : 1 .. MaxIds, scopes : SUBSET Scope, first : SUBSET Scope]

ServicesTypeOK ==
  /\ id \in 0 .. MaxIds /\ used \in 0 .. MaxIds
  /\ package \in Package
  /\ public \in BOOLEAN
  /\ tickets \in SUBSET Ticket
  /\ rows \in [DataKey -> 0 .. MaxValue]
  /\ author \in [DataKey -> 0 .. MaxIds]
  /\ call \in [Client -> [at : {"none", "authorized", "counted"},
                          op : {"none", "put", "delete"}, game : 0 .. MaxIds,
                          key : DataKey \cup {NoKey}, size : 0 .. MaxValue, yes : BOOLEAN]]
  /\ writer \in BOOLEAN

ServicesInit ==
  /\ id = 0 /\ used = 0
  /\ package \in Package /\ public = FALSE
  /\ tickets = {}
  /\ rows = [k \in DataKey |-> 0] /\ author = [k \in DataKey |-> 0]
  /\ call = [c \in Client |-> Waiting]
  /\ writer = FALSE

Granted == Scopes(package.kind, package.manifest)

\* Bug variant: PutGameData counts before its transaction.
NoLock == TRUE

WriterFree == ~writer

----------------------------------------------------------------------------
(* Other components: imports, publication, deletion                        *)

Import(p) ==
  /\ WriterFree
  /\ package' = p
  /\ \/ id # 0 /\ UNCHANGED <<id, used>>
     \/ id = 0 /\ used < MaxIds /\ id' = used + 1 /\ used' = used + 1
  /\ public' \in BOOLEAN
  /\ UNCHANGED <<tickets, rows, author, call, writer>>

\* ON DELETE CASCADE
DeleteHolder ==
  /\ WriterFree /\ id # 0
  /\ id' = 0 /\ public' = FALSE
  /\ rows' = [k \in DataKey |-> 0] /\ author' = [k \in DataKey |-> 0]
  /\ UNCHANGED <<package, used, tickets, call, writer>>

Expire(t) ==
  /\ tickets' = tickets \ {t}
  /\ UNCHANGED <<id, package, public, used, rows, author, call, writer>>

----------------------------------------------------------------------------
(* Tickets                                                                 *)

Issue(t) == /\ tickets' = tickets \cup {t}
            /\ Cardinality(tickets') <= MaxTickets

\* gameTicket: SessionAllowed.
GameTicket ==
  /\ public /\ Granted # {}
  /\ Issue([game |-> id, scopes |-> Granted, first |-> Granted])
  /\ UNCHANGED <<id, package, public, used, rows, author, call, writer>>

\* requireGameTicket and authorizedGamePlatform: the ticket is for the game that
\* is published now under the slug.  The game is read twice, the second reading
\* counts; the scope that is needed is looked for in the ticket alone.
Honoured(t) == public /\ t.game = id

Authorize(c, t, what, k, n) ==
  /\ call[c] = Waiting
  /\ Honoured(t) /\ "storage" \in t.scopes
  /\ call' = [call EXCEPT ![c] = [at |-> "authorized", op |-> what, game |-> id, key |-> k,
                                  size |-> n, yes |-> Storable(package.kind, package.manifest)]]
  /\ UNCHANGED <<id, package, public, used, tickets, rows, author, writer>>

\* refreshGameTicket: what the ticket has and the package still asks for.
RefreshGameTicket(t) ==
  /\ Honoured(t)
  /\ Issue([t EXCEPT !.scopes = @ \cap Granted])
  /\ UNCHANGED <<id, package, public, used, rows, author, call, writer>>

----------------------------------------------------------------------------
(* Data                                                                    *)

\* The rows that the transaction of request r sees.
Sees(r) == [k \in DataKey |-> IF r.game = id THEN rows[k] ELSE 0]

\* SUM of the lengths: how many bytes there are, each at its place in a value.
BytesOf(f) == {b \in DataKey \X (1 .. MaxValue) : b[2] <= f[b[1]]}
TotalOf(f) == Cardinality(BytesOf(f))

HasRoom(f, k, n) ==
  /\ f[k] # 0 \/ Cardinality({j \in DataKey : f[j] # 0}) < MaxKeys
  /\ TotalOf(f) - f[k] + n <= MaxTotal

\* BEGIN IMMEDIATE and the two counts of PutGameData.
CountData(c) ==
  LET r == call[c] IN
  /\ r.at = "authorized" /\ r.op = "put" /\ r.yes
  /\ WriterFree /\ writer' = TRUE
  /\ call' = [call EXCEPT ![c].at = "counted", ![c].yes = HasRoom(Sees(r), r.key, r.size)]
  /\ UNCHANGED <<id, package, public, used, tickets, rows, author>>

\* ErrGameStorageQuota, or the INSERT ... ON CONFLICT and the COMMIT; the foreign
\* key refuses a game that is gone.
PutGameData(c) ==
  LET r == call[c] IN
  /\ r.at = "counted"
  /\ IF r.yes /\ r.game = id
     THEN rows' = [rows EXCEPT ![r.key] = r.size] /\ author' = [author EXCEPT ![r.key] = r.game]
     ELSE UNCHANGED <<rows, author>>
  /\ writer' = FALSE
  /\ call' = [call EXCEPT ![c] = Waiting]
  /\ UNCHANGED <<id, package, public, used, tickets>>

DeleteGameData(c) ==
  LET r == call[c] IN
  /\ r.at = "authorized" /\ r.op = "delete" /\ r.yes
  /\ WriterFree
  /\ IF r.game = id
     THEN rows' = [rows EXCEPT ![r.key] = 0] /\ author' = [author EXCEPT ![r.key] = 0]
     ELSE UNCHANGED <<rows, author>>
  /\ call' = [call EXCEPT ![c] = Waiting]
  /\ UNCHANGED <<id, package, public, used, tickets, writer>>

\* ErrGameStorageDisabled
StorageDisabled(c) ==
  /\ call[c].at = "authorized" /\ ~call[c].yes
  /\ call' = [call EXCEPT ![c] = Waiting]
  /\ UNCHANGED <<id, package, public, used, tickets, rows, author, writer>>

ServicesNext ==
  \/ \E p \in Package : Import(p)
  \/ DeleteHolder \/ GameTicket
  \/ \E t \in tickets : Expire(t) \/ RefreshGameTicket(t)
  \/ \E c \in Client, t \in tickets, k \in DataKey :
       \/ \E n \in 1 .. MaxValue : Authorize(c, t, "put", k, n)
       \/ Authorize(c, t, "delete", k, 0)
  \/ \E c \in Client : \/ CountData(c) \/ PutGameData(c) \/ DeleteGameData(c)
                       \/ StorageDisabled(c)

ServicesSpec == ServicesInit /\ [][ServicesNext]_servicesVars

----------------------------------------------------------------------------
(* Properties                                                              *)

\* However many requests write at once, a player's data in a game keeps within
\* the number of keys and of bytes.
QuotaHolds ==
  /\ Cardinality({k \in DataKey : rows[k] # 0}) <= MaxKeys
  /\ TotalOf(rows) <= MaxTotal

\* Nothing of a deleted game comes back with its slug: every row was written with
\* a ticket of the game it belongs to, though a request may have been authorised
\* before the game was deleted and another took the slug.
DataFollowsGame == \A k \in DataKey : rows[k] # 0 => author[k] = id /\ id # 0

\* Refreshing a ticket never gives more than the player was first given, whatever
\* packages have been imported since.
RefreshNeverWidens == \A t \in tickets : t.scopes \subseteq t.first

\* What the catalogue tells a visitor agrees with what a ticket can do: only a
\* static package gives tickets, and one that stores data of a player or matches
\* players is shown as requiring a login.
HintsMatchServices ==
  \A k \in Kind, m \in Manifest :
    /\ Scopes(k, m) # {} => k = "static"
    /\ "storage" \in Scopes(k, m) /\ Storable(k, m) => RequiresLogin(k, m)
    /\ "matchmaking" \in Scopes(k, m) => RequiresLogin(k, m)
    /\ RequiresLogin(k, m) => Scopes(k, m) # {}

PlayerDataInv == QuotaHolds /\ DataFollowsGame /\ RefreshNeverWidens /\ HintsMatchServices
=============================================================================

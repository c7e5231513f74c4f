----------------------------- MODULE Matchmaking -----------------------------
(***************************************************************************)
(* Pairing players of a game: the matchmaking_tickets table and the three  *)
(* requests on it, join, poll and cancel                                   *)
(* (apps/api/internal/data/game_platform.go).                              *)
(*                                                                         *)
(* A join is one IMMEDIATE transaction, so one step, at the time its sweep *)
(* reads.  Polls and cancels are single statements in autocommit: a poll   *)
(* reads and then may update, a cancel updates and then may read, and any  *)
(* other request may come in between.  A client knows only tickets of its  *)
(* own (the WHERE clauses compare user_id), so a request is on a ticket.   *)
(***************************************************************************)
EXTENDS Naturals

CONSTANTS Player, Game,
          Pool,                 \* a game with a mode and a region
          GameOf,               \* [Pool -> Game]
          NoPlayer, NoPool,
          Request,              \* handlers that can run at the same time
          TTL, Retention,       \* lifetime of a waiting ticket, of a finished one
          MaxTickets, MaxTime   \* bounds on joins and on the clock

ASSUME ConstantsAssumption ==
  /\ GameOf \in [Pool -> Game]
  /\ NoPlayer \notin Player /\ NoPool \notin Pool
  /\ TTL \in Nat \ {0} /\ Retention \in Nat
  /\ MaxTickets \in Nat /\ MaxTime \in Nat

Ticket == 1 .. MaxTickets        \* in the order of their creation
None == 0                        \* no ticket, no room
Terminal == {"matched", "cancelled", "expired"}
Left == {"cancelled", "expired"} \* answers on which a client stops waiting

VARIABLES
  \* SQLite: the games that exist and matchmaking_tickets
  live, status, owner, pool, expires, updated,
  room,       \* match_id: the ticket whose join opened it; kept when the row goes
  issued,
  \* the handlers
  stage, subject,
  now,
  told        \* history: the answers of Left given about each ticket

rows == <<live, status, owner, pool, expires, updated, room, issued>>
handlers == <<stage, subject>>
vars == <<rows, handlers, now, told>>

TypeOK ==
  /\ live \in SUBSET Game
  /\ status \in [Ticket -> {"unborn", "waiting", "gone"} \cup Terminal]
  /\ owner \in [Ticket -> Player \cup {NoPlayer}]
  /\ pool \in [Ticket -> Pool \cup {NoPool}]
  /\ expires \in [Ticket -> Nat]
  /\ updated \in [Ticket -> Nat]
  /\ room \in [Ticket -> Ticket \cup {None}]
  /\ issued \in 0 .. MaxTickets
  /\ stage \in [Request -> {"idle", "read", "settle", "recheck"}]
  /\ subject \in [Request -> Ticket \cup {None}]
  /\ now \in 0 .. MaxTime
  /\ told \in [Ticket -> SUBSET Left]

Init ==
  /\ live = Game
  /\ status = [t \in Ticket |-> "unborn"]
  /\ owner = [t \in Ticket |-> NoPlayer]
  /\ pool = [t \in Ticket |-> NoPool]
  /\ expires = [t \in Ticket |-> 0]
  /\ updated = [t \in Ticket |-> 0]
  /\ room = [t \in Ticket |-> None]
  /\ issued = 0
  /\ stage = [r \in Request |-> "idle"]
  /\ subject = [r \in Request |-> None]
  /\ now = 0
  /\ told = [t \in Ticket |-> {}]

----------------------------------------------------------------------------
(* The statements of CreateMatchTicket                                     *)

Due(t) == status[t] = "waiting" /\ expires[t] <= now

\* Bug variant: nothing is swept.
NotSwept == status

\* Bug variant: a status that the CHECK of the table and the clients do not know.
SweptToTimeout == [t \in Ticket |-> IF Due(t) THEN "timeout" ELSE status[t]]

\* UPDATE ... SET status='expired' WHERE status='waiting' AND expires_at<=now.
Swept == [t \in Ticket |-> IF Due(t) THEN "expired" ELSE status[t]]
Stamped == [t \in Ticket |-> IF Due(t) THEN now ELSE updated[t]]

Present(S, t) == S[t] \in {"waiting"} \cup Terminal

\* t is a row of player p in the game of pool q.
RowOf(S, t, p, q) == Present(S, t) /\ owner[t] = p /\ GameOf[pool[t]] = GameOf[q]

\* Bug variant: a player's finished tickets stay until they are a day old.
KeptForADay(p, q) ==
  [t \in Ticket |->
     IF Swept[t] \in Terminal /\ Stamped[t] + Retention < now THEN "gone" ELSE Swept[t]]

\* What the two DELETEs leave: finished tickets go when they are old, and those
\* of p in this game at once.
Kept(p, q) ==
  [t \in Ticket |->
     IF Swept[t] \in Terminal /\ (Stamped[t] + Retention < now \/ RowOf(Swept, t, p, q))
     THEN "gone" ELSE Swept[t]]

\* Bug variant: only tickets of an earlier second are looked at.
EarlierCandidates(p, q) ==
  {t \in Ticket : /\ Kept(p, q)[t] = "waiting" /\ owner[t] # p /\ pool[t] = q
                  /\ expires[t] < now + TTL}

\* Bug variant: the region and mode are not compared.
CandidatesOfAnyPool(p, q) ==
  {t \in Ticket : Kept(p, q)[t] = "waiting" /\ owner[t] # p}

\* Who can be paired with p; ORDER BY created_at,id LIMIT 1 takes one of them.
Candidates(p, q) ==
  {t \in Ticket : Kept(p, q)[t] = "waiting" /\ owner[t] # p /\ pool[t] = q}

----------------------------------------------------------------------------
(* CreateMatchTicket, and the read-back that ends it                       *)

\* The partial unique index on (game_id,user_id) rejects the INSERT and with it
\* the transaction, unless p has no waiting ticket in this game.
MayWait(p, q) == \A t \in Ticket : Kept(p, q)[t] = "waiting" => ~RowOf(Swept, t, p, q)

Insert(p, q) ==
  /\ issued' = issued + 1
  /\ owner' = [owner EXCEPT ![issued'] = p]
  /\ pool' = [pool EXCEPT ![issued'] = q]
  /\ expires' = [expires EXCEPT ![issued'] = now + TTL]

\* The new ticket waits, or it and another get a room.
WaitOrPair(p, q) ==
  \/ /\ Candidates(p, q) = {}
     /\ status' = [Kept(p, q) EXCEPT ![issued'] = "waiting"]
     /\ updated' = [Stamped EXCEPT ![issued'] = now]
     /\ UNCHANGED room
  \/ \E t \in Candidates(p, q) :
       /\ status' = [Kept(p, q) EXCEPT ![issued'] = "matched", ![t] = "matched"]
       /\ updated' = [Stamped EXCEPT ![issued'] = now, ![t] = now]
       /\ room' = [room EXCEPT ![issued'] = issued', ![t] = issued']

CreateMatchTicket(r, p, q) ==
  /\ stage[r] = "idle"
  /\ issued < MaxTickets
  /\ GameOf[q] \in live
  /\ MayWait(p, q)
  /\ Insert(p, q)
  /\ WaitOrPair(p, q)
  /\ stage' = [stage EXCEPT ![r] = "read"]
  /\ subject' = [subject EXCEPT ![r] = issued']
  /\ UNCHANGED <<live, now, told>>

----------------------------------------------------------------------------
(* MatchTicketByID                                                         *)

\* The handler answers a about ticket t.
Answer(r, t, a) ==
  /\ stage' = [stage EXCEPT ![r] = "idle"]
  /\ subject' = [subject EXCEPT ![r] = None]
  /\ told' = [told EXCEPT ![t] = @ \cup (a \cap Left)]

\* SELECT: a waiting ticket is looked at once more, any other status is the answer.
Read(r, t) ==
  /\ IF status[t] = "waiting"
     THEN /\ stage' = [stage EXCEPT ![r] = "settle"]
          /\ subject' = [subject EXCEPT ![r] = t]
          /\ UNCHANGED told
     ELSE Answer(r, t, {status[t]})
  /\ UNCHANGED <<rows, now>>

Poll(r, t) == stage[r] = "idle" /\ Read(r, t)

ReadBack(r) == stage[r] = "read" /\ Read(r, subject[r])

\* Bug variant: the update does not ask again whether the ticket is waiting.
SettleBlindly(r) ==
  /\ stage[r] = "settle"
  /\ LET t == subject[r]
     IN IF expires[t] <= now
        THEN /\ status' = [status EXCEPT ![t] = IF @ = "gone" THEN @ ELSE "expired"]
             /\ updated' = [updated EXCEPT ![t] = now]
             /\ Answer(r, t, {"expired"})
        ELSE Answer(r, t, {"waiting"}) /\ UNCHANGED <<status, updated>>
  /\ UNCHANGED <<live, owner, pool, expires, room, issued, now>>

\* It was waiting: past its time it is marked expired, if it is waiting still,
\* and the answer is "expired" either way.
Settle(r) ==
  /\ stage[r] = "settle"
  /\ LET t == subject[r]
     IN IF expires[t] <= now
        THEN /\ status' = [status EXCEPT ![t] = IF @ = "waiting" THEN "expired" ELSE @]
             /\ updated' = [updated EXCEPT ![t] = IF status[t] = "waiting" THEN now ELSE @]
             /\ Answer(r, t, {"expired"})
        ELSE Answer(r, t, {"waiting"}) /\ UNCHANGED <<status, updated>>
  /\ UNCHANGED <<live, owner, pool, expires, room, issued, now>>

----------------------------------------------------------------------------
(* CancelMatchTicket                                                       *)

\* Bug variant: the ticket is cancelled whatever its status.
CancelBlindly(r, t) ==
  /\ stage[r] = "idle"
  /\ IF status[t] \in {"waiting", "matched"}
     THEN /\ status' = [status EXCEPT ![t] = "cancelled"]
          /\ updated' = [updated EXCEPT ![t] = now]
          /\ Answer(r, t, {"cancelled"})
     ELSE /\ stage' = [stage EXCEPT ![r] = "recheck"]
          /\ subject' = [subject EXCEPT ![r] = t]
          /\ UNCHANGED <<status, updated, told>>
  /\ UNCHANGED <<live, owner, pool, expires, room, issued, now>>

\* UPDATE ... WHERE status='waiting'; nil is the answer if it changed a row.
CancelMatchTicket(r, t) ==
  /\ stage[r] = "idle"
  /\ IF status[t] = "waiting"
     THEN /\ status' = [status EXCEPT ![t] = "cancelled"]
          /\ updated' = [updated EXCEPT ![t] = now]
          /\ Answer(r, t, {"cancelled"})
     ELSE /\ stage' = [stage EXCEPT ![r] = "recheck"]
          /\ subject' = [subject EXCEPT ![r] = t]
          /\ UNCHANGED <<status, updated, told>>
  /\ UNCHANGED <<live, owner, pool, expires, room, issued, now>>

\* Otherwise the row is read: nil again if the ticket has been cancelled or has
\* expired, an error if it was matched or is gone.
Recheck(r) ==
  /\ stage[r] = "recheck"
  /\ LET t == subject[r]
     IN Answer(r, t, IF status[t] \in {"cancelled", "expired"} THEN {"cancelled"} ELSE {})
  /\ UNCHANGED <<rows, now>>

----------------------------------------------------------------------------
\* DeleteGame: tickets go by cascade.
DeleteGame(g) ==
  /\ g \in live
  /\ live' = live \ {g}
  /\ status' = [t \in Ticket |-> IF status[t] # "unborn" /\ GameOf[pool[t]] = g
                                 THEN "gone" ELSE status[t]]
  /\ UNCHANGED <<owner, pool, expires, updated, room, issued, handlers, now, told>>

Tick ==
  /\ now < MaxTime
  /\ now' = now + 1
  /\ UNCHANGED <<rows, handlers, told>>

Handle(r) ==
  \/ \E p \in Player, q \in Pool : CreateMatchTicket(r, p, q)
  \/ \E t \in Ticket : Poll(r, t) \/ CancelMatchTicket(r, t)
  \/ ReadBack(r)
  \/ Settle(r)
  \/ Recheck(r)

Next ==
  \/ \E r \in Request : Handle(r)
  \/ \E g \in Game : DeleteGame(g)
  \/ Tick

Spec == Init /\ [][Next]_vars

----------------------------------------------------------------------------
(* Properties                                                              *)

\* Two players never wait beside each other: a pool has at most one waiting
\* ticket, whatever expires, is cancelled, rejoins or is removed.
NobodyWaitsBeside ==
  \A t, u \in Ticket :
    status[t] = "waiting" /\ status[u] = "waiting" /\ pool[t] = pool[u] => t = u

\* "A player only needs the current/most recent ticket" (game_platform.go:440):
\* the table holds at most one row of a player in a game, so leaving and joining
\* again cannot make it grow.
OneTicketOfAPlayer ==
  \A t, u \in Ticket :
    Present(status, t) /\ Present(status, u) /\ owner[t] = owner[u]
      /\ GameOf[pool[t]] = GameOf[pool[u]] => t = u

\* A room joins exactly two tickets, of two players, in one pool, and neither is
\* anything but matched as long as its row is there.
Pair(t, u) ==
  /\ t # u
  /\ room[u] = room[t]
  /\ owner[u] # owner[t]
  /\ pool[u] = pool[t]
  /\ \A v \in Ticket \ {t, u} : room[v] # room[t]
RoomsArePairs ==
  \A t \in Ticket : room[t] # None =>
    status[t] \in {"matched", "gone"} /\ \E u \in Ticket : Pair(t, u)

\* A player who was told that the ticket is cancelled is in no room, then or
\* later: a cancel and a join that take the same ticket cannot both succeed.
CancelledStaysOut == \A t \in Ticket : "cancelled" \in told[t] => room[t] = None

\* Nobody is paired with a ticket whose time is up.
PairedInTime ==
  \A t \in Ticket : room'[t] # room[t] /\ status[t] = "waiting" => now < expires[t]
PairedOnlyInTime == [][PairedInTime]_vars

\* What ends a ticket is final: it is never changed again, only removed.
EndsOnce ==
  \A t \in Ticket : status[t] \in Terminal \cup {"gone"} =>
    status'[t] \in {status[t], "gone"} /\ room'[t] = room[t]
FinalIsFinal == [][EndsOnce]_vars

\* Once two joins have met, the first player's poll finds the match
\* (game_platform_test.go:80): a ticket that is in a room is not reported expired.
MatchedNotToldExpired == \A t \in Ticket : "expired" \in told[t] => room[t] = None

----------------------------------------------------------------------------
(* The inductive invariant behind the safety properties                    *)

\* Tickets are issued in order, each to a player and for a pool.
BornInv ==
  \A t \in Ticket :
    /\ status[t] = "unborn" <=> t > issued
    /\ t <= issued => owner[t] \in Player /\ pool[t] \in Pool
    /\ room[t] <= issued

\* A client that was told of a cancellation holds a ticket that cannot be paired.
ToldInv ==
  \A t \in Ticket : "cancelled" \in told[t] => status[t] \in {"cancelled", "expired", "gone"}

\* A handler in the middle of a request has a ticket in hand.
HandlerInv == \A r \in Request : stage[r] # "idle" => subject[r] \in Ticket

MatchInv ==
  /\ TypeOK /\ BornInv /\ ToldInv /\ HandlerInv
  /\ NobodyWaitsBeside /\ OneTicketOfAPlayer /\ RoomsArePairs /\ CancelledStaysOut
=============================================================================

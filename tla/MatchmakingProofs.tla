-------------------------- MODULE MatchmakingProofs --------------------------
(***************************************************************************)
(* What TLAPS proves of Matchmaking, for every set of players, games,      *)
(* pools and concurrent handlers, any lifetime and retention, and any      *)
(* number of tickets and clock ticks: MatchInv is inductive, and with it   *)
(* the safety properties hold.                                             *)
(***************************************************************************)
EXTENDS Matchmaking, TLAPS

LEMMA InitMatchInv == Init => MatchInv
BY ConstantsAssumption
   DEF Init, MatchInv, TypeOK, BornInv, ToldInv, HandlerInv, NobodyWaitsBeside,
       OneTicketOfAPlayer, RoomsArePairs, CancelledStaysOut, Present, Ticket, None,
       Terminal, Left

\* What the sweep and the two deletions of a join do to a ticket.
LEMMA KeptFacts ==
  ASSUME TypeOK, NEW p \in Player, NEW q \in Pool, NEW t \in Ticket
  PROVE  /\ Kept(p, q) \in [Ticket -> {"unborn", "waiting", "gone"} \cup Terminal]
         /\ Kept(p, q)[t] = "unborn" <=> status[t] = "unborn"
         /\ Kept(p, q)[t] = "waiting" => status[t] = "waiting" /\ now < expires[t]
         /\ status[t] \in {"matched", "gone"} => Kept(p, q)[t] \in {status[t], "gone"}
         /\ status[t] \in {"cancelled", "expired"} => Kept(p, q)[t] \in {status[t], "gone"}
         /\ Present(Kept(p, q), t) => Present(status, t)
         /\ Present(Kept(p, q), t) /\ RowOf(status, t, p, q) => Kept(p, q)[t] = "waiting"
         /\ RowOf(Swept, t, p, q) <=> RowOf(status, t, p, q)
<1> DEFINE K == Kept(p, q)
<1>1. status[t] \in {"unborn", "waiting", "gone"} \cup Terminal /\ expires[t] \in Nat /\ now \in Nat
  BY ConstantsAssumption DEF TypeOK
<1>2. Swept[t] = IF status[t] = "waiting" /\ expires[t] <= now THEN "expired" ELSE status[t]
  BY DEF Swept, Due
<1>3. RowOf(Swept, t, p, q) <=> RowOf(status, t, p, q)
  BY <1>1, <1>2 DEF RowOf, Present, Terminal
<1>4. \A u \in Ticket : Swept[u] \in {"unborn", "waiting", "gone"} \cup Terminal
  BY DEF Swept, Due, TypeOK, Terminal
<1>5. K \in [Ticket -> {"unborn", "waiting", "gone"} \cup Terminal]
  BY <1>4 DEF Kept
<1>6. K[t] = IF Swept[t] \in Terminal /\ (Stamped[t] + Retention < now \/ RowOf(Swept, t, p, q))
             THEN "gone" ELSE Swept[t]
  BY DEF Kept
<1> HIDE DEF K
<1>7. /\ K[t] = "unborn" <=> status[t] = "unborn"
      /\ K[t] = "waiting" => status[t] = "waiting" /\ now < expires[t]
      /\ status[t] \in {"matched", "gone"} => K[t] \in {status[t], "gone"}
      /\ status[t] \in {"cancelled", "expired"} => K[t] \in {status[t], "gone"}
      /\ Present(K, t) => Present(status, t)
  BY <1>1, <1>2, <1>6 DEF Terminal, Present
<1>8. Present(K, t) /\ RowOf(status, t, p, q) => K[t] = "waiting"
  BY <1>1, <1>2, <1>3, <1>6 DEF Terminal, Present
<1> QED
  BY <1>3, <1>5, <1>7, <1>8 DEF K

\* A join keeps the invariant: with at most one waiting ticket in the pool
\* before it, the new one either finds it and is paired, or waits alone.
LEMMA CreateKeeps ==
  ASSUME MatchInv, NEW r \in Request, NEW p \in Player, NEW q \in Pool,
         CreateMatchTicket(r, p, q)
  PROVE  MatchInv'
<1> DEFINE K == Kept(p, q)
<1>a. PICK n \in Ticket : n = issued + 1
  BY ConstantsAssumption DEF CreateMatchTicket, MatchInv, TypeOK, Ticket
<1>1. /\ n \in Ticket /\ status[n] = "unborn" /\ room[n] = None /\ None \notin Ticket
      /\ \A t \in Ticket : t <= n <=> t <= issued \/ t = n
  <2>1. issued \in Nat /\ None \notin Ticket
    BY ConstantsAssumption DEF MatchInv, TypeOK, Ticket, None
  <2>2. status[n] = "unborn"
    BY <1>a, <2>1 DEF MatchInv, BornInv, Ticket
  <2>3. room[n] = None
    BY <2>2 DEF MatchInv, RoomsArePairs
  <2> QED
    BY <1>a, <2>1, <2>2, <2>3 DEF Ticket
<1>2. /\ issued' = n
      /\ owner' = [owner EXCEPT ![n] = p]
      /\ pool' = [pool EXCEPT ![n] = q]
      /\ expires' = [expires EXCEPT ![n] = now + TTL]
      /\ stage' = [stage EXCEPT ![r] = "read"]
      /\ subject' = [subject EXCEPT ![r] = n]
      /\ UNCHANGED <<live, now, told>>
  BY <1>a DEF CreateMatchTicket, Insert
<1>3. /\ K \in [Ticket -> {"unborn", "waiting", "gone"} \cup Terminal]
      /\ \A t \in Ticket :
           /\ K[t] = "unborn" <=> status[t] = "unborn"
           /\ K[t] = "waiting" => status[t] = "waiting"
           /\ status[t] \in {"matched", "gone"} => K[t] \in {status[t], "gone"}
           /\ status[t] \in {"cancelled", "expired"} => K[t] \in {status[t], "gone"}
           /\ Present(K, t) => Present(status, t)
  BY KeptFacts, <1>1 DEF MatchInv
<1>4. \A t \in Ticket : ~(Present(K, t) /\ owner[t] = p /\ GameOf[pool[t]] = GameOf[q])
  <2> SUFFICES ASSUME NEW t \in Ticket, Present(K, t), owner[t] = p, GameOf[pool[t]] = GameOf[q]
               PROVE  FALSE
    OBVIOUS
  <2>1. RowOf(status, t, p, q)
    BY <1>3 DEF RowOf
  <2>2. K[t] = "waiting" /\ RowOf(Swept, t, p, q)
    BY <2>1, KeptFacts DEF MatchInv
  <2> QED
    BY <2>2 DEF CreateMatchTicket, MayWait
<1>5. Stamped \in [Ticket -> Nat]
  BY ConstantsAssumption DEF Stamped, MatchInv, TypeOK
<1>6. CASE /\ Candidates(p, q) = {}
           /\ status' = [K EXCEPT ![n] = "waiting"]
           /\ updated' = [Stamped EXCEPT ![n] = now]
           /\ room' = room
  <2>1. \A t \in Ticket : K[t] = "waiting" => pool[t] # q
    BY <1>4, <1>6 DEF Candidates, Present
  <2>2. TypeOK'
    BY SMTT(30), <1>1, <1>2, <1>3, <1>5, <1>6, ConstantsAssumption DEF MatchInv, TypeOK, Ticket
  <2>3. BornInv'
    BY <1>1, <1>2, <1>3, <1>6 DEF MatchInv, TypeOK, BornInv, Ticket, None
  <2>4. ToldInv' /\ CancelledStaysOut' /\ HandlerInv'
    BY <1>1, <1>2, <1>3, <1>6 DEF MatchInv, TypeOK, ToldInv, CancelledStaysOut, HandlerInv
  <2>5. NobodyWaitsBeside'
    BY <1>1, <1>2, <1>3, <1>6, <2>1 DEF MatchInv, TypeOK, NobodyWaitsBeside
  <2>6. OneTicketOfAPlayer'
    BY <1>1, <1>2, <1>3, <1>4, <1>6 DEF MatchInv, TypeOK, OneTicketOfAPlayer, Present
  <2>7. RoomsArePairs'
    BY <1>1, <1>2, <1>3, <1>6 DEF MatchInv, TypeOK, RoomsArePairs, Pair
  <2> QED
    BY <2>2, <2>3, <2>4, <2>5, <2>6, <2>7 DEF MatchInv
<1>7. ASSUME NEW o \in Candidates(p, q),
             status' = [K EXCEPT ![n] = "matched", ![o] = "matched"],
             updated' = [Stamped EXCEPT ![n] = now, ![o] = now],
             room' = [room EXCEPT ![n] = n, ![o] = n]
      PROVE  MatchInv'
  <2>1. /\ o \in Ticket /\ o # n /\ K[o] = "waiting" /\ status[o] = "waiting"
        /\ owner[o] # p /\ pool[o] = q /\ room[o] = None /\ "cancelled" \notin told[o]
    BY <1>1, <1>3 DEF Candidates, MatchInv, RoomsArePairs, ToldInv
  <2>2. TypeOK'
    <3>1. status' \in [Ticket -> {"unborn", "waiting", "gone"} \cup Terminal]
      BY <1>3, <1>7 DEF Terminal
    <3>2. updated' \in [Ticket -> Nat] /\ room' \in [Ticket -> Ticket \cup {None}]
      BY <1>1, <1>5, <1>7, <2>1, ConstantsAssumption DEF MatchInv, TypeOK
    <3> QED
      BY SMTT(30), <1>a, <1>1, <1>2, <3>1, <3>2, ConstantsAssumption DEF MatchInv, TypeOK, Ticket
  <2>3. BornInv'
    BY SMTT(30), <1>1, <1>2, <1>3, <1>7, <2>1 DEF MatchInv, TypeOK, BornInv, Ticket, None
  <2>4. ToldInv' /\ CancelledStaysOut' /\ HandlerInv'
    BY <1>1, <1>2, <1>3, <1>7, <2>1
       DEF MatchInv, TypeOK, ToldInv, CancelledStaysOut, HandlerInv
  <2>5. NobodyWaitsBeside'
    BY <1>1, <1>2, <1>3, <1>7, <2>1 DEF MatchInv, TypeOK, NobodyWaitsBeside
  <2>6. OneTicketOfAPlayer'
    BY <1>1, <1>2, <1>3, <1>4, <1>7, <2>1
       DEF MatchInv, TypeOK, OneTicketOfAPlayer, Present, Terminal
  <2>7. RoomsArePairs'
    <3>1. \A t \in Ticket : room[t] # n
      BY <1>1 DEF MatchInv, TypeOK, BornInv, Ticket, None
    <3>2. /\ room'[n] = n /\ room'[o] = n /\ \A t \in Ticket \ {n, o} : room'[t] = room[t]
          /\ owner'[n] = p /\ owner'[o] = owner[o] /\ pool'[n] = q /\ pool'[o] = q
          /\ status'[n] = "matched" /\ status'[o] = "matched"
      BY <1>1, <1>2, <1>3, <1>7, <2>1 DEF MatchInv, TypeOK
    <3>3. Pair(n, o)' /\ Pair(o, n)'
      BY <2>1, <3>1, <3>2 DEF Pair
    <3>4. ASSUME NEW t \in Ticket \ {n, o}, room[t] # None
          PROVE  status'[t] \in {"matched", "gone"} /\ \E u \in Ticket : Pair(t, u)'
      <4>1. PICK u \in Ticket : Pair(t, u)
        BY <3>4 DEF MatchInv, RoomsArePairs
      <4>2. u \notin {n, o}
        BY <1>1, <2>1, <3>4, <4>1 DEF Pair
      <4>3. Pair(t, u)'
        BY <1>1, <1>2, <2>1, <3>1, <3>2, <4>1, <4>2 DEF Pair, MatchInv, TypeOK
      <4>4. status'[t] \in {"matched", "gone"}
        BY <1>1, <1>3, <1>7, <2>1, <3>4 DEF MatchInv, RoomsArePairs
      <4> QED
        BY <4>3, <4>4
    <3> QED
      BY <1>1, <2>1, <3>2, <3>3, <3>4 DEF RoomsArePairs
  <2> QED
    BY <2>2, <2>3, <2>4, <2>5, <2>6, <2>7 DEF MatchInv
<1> QED
  BY <1>2, <1>6, <1>7 DEF CreateMatchTicket, WaitOrPair

\* A step that takes tickets out of waiting or removes them, and opens no room,
\* keeps the invariant.
LEMMA EndKeeps ==
  ASSUME MatchInv, TypeOK', HandlerInv', ToldInv', CancelledStaysOut',
         UNCHANGED <<owner, pool, room, issued>>,
         \A t \in Ticket :
           \/ status'[t] = status[t]
           \/ status'[t] = "gone" /\ status[t] # "unborn"
           \/ status[t] = "waiting" /\ status'[t] \in {"cancelled", "expired"}
  PROVE  MatchInv'
<1> USE DEF MatchInv
<1>1. BornInv'
  BY DEF BornInv
<1>2. NobodyWaitsBeside'
  BY DEF NobodyWaitsBeside
<1>3. \A t \in Ticket : Present(status, t)' => Present(status, t)
  BY DEF Present, Terminal
<1>4. OneTicketOfAPlayer'
  BY <1>3 DEF OneTicketOfAPlayer
<1>5. RoomsArePairs'
  BY DEF RoomsArePairs, Pair
<1> QED
  BY <1>1, <1>2, <1>4, <1>5

LEMMA NextMatchInv == MatchInv /\ [Next]_vars => MatchInv'
<1> SUFFICES ASSUME MatchInv, [Next]_vars
             PROVE  MatchInv'
  OBVIOUS
<1> USE ConstantsAssumption
    DEF MatchInv, TypeOK, ToldInv, HandlerInv, CancelledStaysOut, rows, handlers
<1>1. ASSUME NEW r \in Request, NEW p \in Player, NEW q \in Pool, CreateMatchTicket(r, p, q)
      PROVE  MatchInv'
  BY <1>1, CreateKeeps
<1>2. ASSUME NEW r \in Request, NEW t \in Ticket, Read(r, t)
      PROVE  MatchInv'
  <2>1. TypeOK' /\ HandlerInv'
    BY <1>2 DEF Read, Answer, Left, Terminal
  <2>2. ToldInv' /\ CancelledStaysOut'
    BY <1>2 DEF Read, Answer, Left, RoomsArePairs
  <2> QED
    BY <1>2, <2>1, <2>2, EndKeeps DEF Read
<1>3. ASSUME NEW r \in Request, Settle(r)
      PROVE  MatchInv'
  <2>1. subject[r] \in Ticket
    BY <1>3 DEF Settle
  <2>2. TypeOK' /\ HandlerInv'
    BY <1>3, <2>1 DEF Settle, Answer, Left, Terminal
  <2>3. ToldInv' /\ CancelledStaysOut'
    BY <1>3, <2>1 DEF Settle, Answer, Left
  <2> QED
    BY <1>3, <2>1, <2>2, <2>3, EndKeeps DEF Settle
<1>4. ASSUME NEW r \in Request, NEW t \in Ticket, CancelMatchTicket(r, t)
      PROVE  MatchInv'
  <2>1. TypeOK' /\ HandlerInv'
    BY <1>4 DEF CancelMatchTicket, Answer, Left, Terminal
  <2>2. ToldInv' /\ CancelledStaysOut'
    BY <1>4 DEF CancelMatchTicket, Answer, Left, RoomsArePairs
  <2> QED
    BY <1>4, <2>1, <2>2, EndKeeps DEF CancelMatchTicket
<1>5. ASSUME NEW r \in Request, Recheck(r)
      PROVE  MatchInv'
  <2>1. subject[r] \in Ticket
    BY <1>5 DEF Recheck
  <2>2. TypeOK' /\ HandlerInv'
    BY <1>5, <2>1 DEF Recheck, Answer, Left
  <2>3. ToldInv' /\ CancelledStaysOut'
    BY <1>5, <2>1 DEF Recheck, Answer, Left, RoomsArePairs
  <2> QED
    BY <1>5, <2>2, <2>3, EndKeeps DEF Recheck
<1>6. ASSUME NEW g \in Game, DeleteGame(g)
      PROVE  MatchInv'
  <2>1. TypeOK' /\ HandlerInv' /\ ToldInv' /\ CancelledStaysOut'
    BY <1>6 DEF DeleteGame
  <2> QED
    BY <1>6, <2>1, EndKeeps DEF DeleteGame
<1>7. ASSUME Tick \/ UNCHANGED vars
      PROVE  MatchInv'
  <2>1. TypeOK' /\ HandlerInv' /\ ToldInv' /\ CancelledStaysOut'
    BY <1>7 DEF Tick, vars
  <2> QED
    BY <1>7, <2>1, EndKeeps DEF Tick, vars
<1>8. ASSUME NEW r \in Request, ReadBack(r)
      PROVE  MatchInv'
  BY <1>2, <1>8 DEF ReadBack
<1> QED
  BY <1>1, <1>2, <1>3, <1>4, <1>5, <1>6, <1>7, <1>8 DEF Next, Handle, Poll

LEMMA MatchInvariant == Spec => []MatchInv
BY InitMatchInv, NextMatchInv, PTL DEF Spec

----------------------------------------------------------------------------
\* Tickets, rooms, requests and the clock keep their types.
THEOREM TypeCorrect == Spec => []TypeOK
BY MatchInvariant, PTL DEF MatchInv

\* A pool never has two waiting tickets.
THEOREM NobodyIsLeftBeside == Spec => []NobodyWaitsBeside
BY MatchInvariant, PTL DEF MatchInv

\* A player never has two tickets in a game, in whatever status.
THEOREM TableDoesNotGrow == Spec => []OneTicketOfAPlayer
BY MatchInvariant, PTL DEF MatchInv

\* Every room joins two players of one pool, and no third.
THEOREM RoomsJoinTwo == Spec => []RoomsArePairs
BY MatchInvariant, PTL DEF MatchInv

\* Cancelling and being paired exclude each other.
THEOREM CancelOrPair == Spec => []CancelledStaysOut
BY MatchInvariant, PTL DEF MatchInv

\* A finished ticket is never changed, only removed.
THEOREM EndsAreFinal == Spec => FinalIsFinal
<1>1. MatchInv /\ [Next]_vars => [EndsOnce]_vars
  <2> SUFFICES ASSUME MatchInv, [Next]_vars, NEW t \in Ticket,
                      status[t] \in Terminal \cup {"gone"}
               PROVE  status'[t] \in {status[t], "gone"} /\ room'[t] = room[t]
    BY DEF EndsOnce
  <2> USE DEF MatchInv, TypeOK, rows
  <2>1. ASSUME NEW r \in Request, NEW p \in Player, NEW q \in Pool, CreateMatchTicket(r, p, q)
        PROVE  status'[t] \in {status[t], "gone"} /\ room'[t] = room[t]
    <3>1. t # issued' /\ Kept(p, q)[t] \in {status[t], "gone"} /\ Kept(p, q)[t] # "waiting"
      <4>1. issued' = issued + 1 /\ t <= issued
        BY <2>1, ConstantsAssumption
           DEF CreateMatchTicket, Insert, BornInv, Terminal, Ticket
      <4> QED
        <5>1. t # issued'
          BY <4>1, ConstantsAssumption DEF Ticket
        <5>2. Kept(p, q)[t] \in {status[t], "gone"}
          BY KeptFacts DEF Terminal
        <5> QED
          BY <5>1, <5>2 DEF Terminal
    <3>2. Kept(p, q) \in [Ticket -> {"unborn", "waiting", "gone"} \cup Terminal]
      BY KeptFacts
    <3> QED
      BY <2>1, <3>1, <3>2 DEF CreateMatchTicket, WaitOrPair, Candidates
  <2>2. ASSUME NEW r \in Request, Settle(r)
        PROVE  status'[t] \in {status[t], "gone"} /\ room'[t] = room[t]
    BY <2>2 DEF Settle, Terminal
  <2>3. ASSUME NEW r \in Request, NEW u \in Ticket, CancelMatchTicket(r, u)
        PROVE  status'[t] \in {status[t], "gone"} /\ room'[t] = room[t]
    BY <2>3 DEF CancelMatchTicket, Terminal
  <2>4. ASSUME NEW g \in Game, DeleteGame(g)
        PROVE  status'[t] \in {status[t], "gone"} /\ room'[t] = room[t]
    BY <2>4 DEF DeleteGame
  <2> QED
    BY <2>1, <2>2, <2>3, <2>4
       DEF Next, Handle, Poll, ReadBack, Read, Recheck, Tick, vars
<1> QED
  BY <1>1, MatchInvariant, PTL DEF Spec, FinalIsFinal

\* A join pairs only with a ticket whose time has not come.
THEOREM NobodyPairedLate == Spec => PairedOnlyInTime
<1>1. MatchInv /\ [Next]_vars => [PairedInTime]_vars
  <2> SUFFICES ASSUME MatchInv, [Next]_vars, NEW t \in Ticket,
                      room'[t] # room[t], status[t] = "waiting"
               PROVE  now < expires[t]
    BY DEF PairedInTime
  <2> USE DEF MatchInv, TypeOK, rows
  <2>1. PICK r \in Request, p \in Player, q \in Pool : CreateMatchTicket(r, p, q)
    BY DEF Next, Handle, Poll, ReadBack, Read, Settle, CancelMatchTicket, Recheck,
           DeleteGame, Tick, vars
  <2>2. t # issued'
    BY <2>1, ConstantsAssumption DEF CreateMatchTicket, Insert, BornInv, Ticket
  <2>3. t \in Candidates(p, q)
    BY <2>1, <2>2 DEF CreateMatchTicket, WaitOrPair
  <2> QED
    BY <2>3, KeptFacts DEF Candidates
<1> QED
  BY <1>1, MatchInvariant, PTL DEF Spec, PairedOnlyInTime
=============================================================================

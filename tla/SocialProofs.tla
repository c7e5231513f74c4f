---------------------------- MODULE SocialProofs -----------------------------
(***************************************************************************)
(* What TLAPS proves of Community, Threads and Moderation, and of their    *)
(* composition in MCSocial, for any persons, games, reports, concurrent    *)
(* requests and numbers of comments, decisions and appeals:                *)
(* - what a block keeps apart, and that a request that has asked for a     *)
(*   block may act on the answer as long as the block has stood since;     *)
(* - discussions stay one level deep, replies go with their root, nothing  *)
(*   outlives its game, and a hidden game is quiet;                        *)
(* - one appeal of a report, reports reopened by accepted appeals only, and*)
(*   every decision told once.                                             *)
(***************************************************************************)
EXTENDS MCSocial, TLAPS

----------------------------------------------------------------------------
(* Community                                                               *)

\* What a request has learnt before its write.  A party from which it is still
\* shut out has not passed its question for a block, and the announcement of an
\* update follows that of the publication.
ShutOut == \A s \in shut : visit[s[1]].doing # "idle" /\ Barred(blocks, visit[s[1]].who, s[2])

Learnt(v) ==
  /\ visit[v].doing # "idle" => visit[v].who \in Person /\ visit[v].title \in Title
  /\ visit[v].doing = "clear" => <<v, Creator[visit[v].title]>> \notin shut
  /\ visit[v].next # Nobody => visit[v].doing = "notify" /\ <<v, visit[v].next>> \notin shut
  /\ visit[v].doing = "announce" =>
       /\ visit[v].who = Creator[visit[v].title]
       /\ visit[v].kind # "none"
       /\ visit[v].kind = "updated" => [kind |-> "published", title |-> visit[v].title] \in events

VisitInv == ShutOut /\ \A v \in Visitor : Learnt(v)

SettledInv == /\ \A p, q \in Person : Barred(blocks, p, q) => <<p, q>> \notin following
              /\ FollowsAreAnnounced /\ UpdatesFollowPublication

CommunityIInv == CommunityTypeOK /\ VisitInv /\ SettledInv

LEMMA BlockedIsBarred == \A p, q : Blocked(p, q) <=> Barred(blocks, p, q)
BY DEF Blocked, Barred

LEMMA CommunityInitIInv == CommunityInit => CommunityIInv
BY CommunityAssumption
   DEF CommunityInit, CommunityIInv, CommunityTypeOK, VisitInv, ShutOut, Learnt, SettledInv, FollowsAreAnnounced,
       UpdatesFollowPublication, Rest, Errand, Barred

\* A request that ends takes what was known of it along.
LEMMA FinishedKeeps ==
  ASSUME CommunityTypeOK, VisitInv, NEW v \in Visitor, Finished(v),
         UNCHANGED blocks, events \subseteq events'
  PROVE  /\ VisitInv'
         /\ visit' \in [Visitor -> Errand]
         /\ shut' \in SUBSET (Visitor \X Person)
<1> USE DEF CommunityTypeOK, Finished
<1>1. Rest \in Errand /\ Rest.doing = "idle" /\ Rest.next = Nobody
  BY DEF Rest, Errand
<1>2. \A w \in Visitor : visit'[w] = IF w = v THEN Rest ELSE visit[w]
  OBVIOUS
<1>3. \A s \in shut' : s \in shut /\ s[1] # v /\ s[1] \in Visitor
  OBVIOUS
<1>4. VisitInv'
  <2>1. ShutOut'
    BY <1>2, <1>3 DEF VisitInv, ShutOut, Barred
  <2>2. ASSUME NEW w \in Visitor
        PROVE  Learnt(w)'
    <3>1. Learnt(w)
      BY DEF VisitInv
    <3> QED
      BY <1>1, <1>2, <1>3, <3>1 DEF Learnt
  <2> QED
    BY <2>1, <2>2 DEF VisitInv
<1> QED
  BY <1>1, <1>4

\* A request that goes on keeps what it is about; it passes a question, or takes a
\* recipient, only where it is not shut out.
LEMMA GoingOnKeeps ==
  ASSUME CommunityTypeOK, VisitInv, UNCHANGED <<blocks, events, shut>>,
         \A w \in Visitor :
           /\ visit'[w].who = visit[w].who /\ visit'[w].title = visit[w].title
           /\ visit'[w].kind = visit[w].kind
           /\ \/ visit'[w].doing = visit[w].doing
              \/ /\ visit[w].doing = "follow" /\ visit'[w].doing = "clear"
                 /\ <<w, Creator[visit[w].title]>> \notin shut
           /\ \/ visit'[w].next \in {visit[w].next, Nobody}
              \/ visit'[w].doing = "notify" /\ <<w, visit'[w].next>> \notin shut
  PROVE  VisitInv'
<1>1. ShutOut'
  <2> SUFFICES ASSUME NEW s \in shut
               PROVE  visit'[s[1]].doing # "idle" /\ Barred(blocks, visit'[s[1]].who, s[2])
    BY DEF ShutOut
  <2>1. s[1] \in Visitor
    BY DEF CommunityTypeOK
  <2>2. visit[s[1]].doing # "idle" /\ Barred(blocks, visit[s[1]].who, s[2])
    BY DEF VisitInv, ShutOut
  <2> QED
    BY <2>1, <2>2
<1>2. ASSUME NEW w \in Visitor
      PROVE  Learnt(w)'
  <2>1. Learnt(w)
    BY DEF VisitInv
  <2> QED
    BY <2>1 DEF Learnt
<1> QED
  BY <1>1, <1>2 DEF VisitInv

\* The steps that leave every request where it is.
LEMMA RowsKeep ==
  ASSUME CommunityIInv,
         \/ \E p, c \in Person : \/ FollowCreator(p, c) \/ UnfollowCreator(p, c)
                                 \/ BlockCreator(p, c) \/ UnblockCreator(p, c)
         \/ \E p \in Person, t \in Title : UnfollowGame(p, t)
         \/ \E p \in Person : ChangeAccess(p)
         \/ \E t \in Title : ChangeListing(t)
         \/ UNCHANGED communityVars
  PROVE  CommunityIInv'
<1> USE DEF CommunityIInv, CommunityTypeOK, SettledInv
<1>1. ASSUME NEW p \in Person, NEW c \in Person, FollowCreator(p, c)
      PROVE  CommunityIInv'
  <2>1. CommunityTypeOK'
    BY <1>1 DEF FollowCreator, Note
  <2>2. VisitInv'
    BY <1>1 DEF FollowCreator, VisitInv, ShutOut, Learnt
  <2>3. SettledInv'
    <3>1. \A a, b \in Person : Barred(blocks', a, b) => <<a, b>> \notin following'
      BY <1>1 DEF FollowCreator, Blocked, Barred
    <3>2. FollowsAreAnnounced'
      BY <1>1 DEF FollowCreator, FollowsAreAnnounced
    <3>3. UpdatesFollowPublication'
      BY <1>1 DEF FollowCreator, UpdatesFollowPublication
    <3> QED
      BY <3>1, <3>2, <3>3
  <2> QED
    BY <2>1, <2>2, <2>3
<1>2. ASSUME NEW p \in Person, NEW c \in Person, UnfollowCreator(p, c)
      PROVE  CommunityIInv'
  BY <1>2 DEF UnfollowCreator, VisitInv, ShutOut, Learnt, FollowsAreAnnounced, UpdatesFollowPublication
<1>3. ASSUME NEW p \in Person, NEW c \in Person, BlockCreator(p, c)
      PROVE  CommunityIInv'
  <2>1. CommunityTypeOK'
    BY <1>3 DEF BlockCreator
  <2>2. VisitInv'
    BY <1>3 DEF BlockCreator, VisitInv, ShutOut, Learnt, Barred
  <2>3. SettledInv'
    <3>1. \A a, b \in Person : Barred(blocks', a, b) => <<a, b>> \notin following'
      BY <1>3 DEF BlockCreator, Barred
    <3>2. FollowsAreAnnounced'
      <4> SUFFICES ASSUME NEW f \in following'
                   PROVE  [to |-> f[2], from |-> f[1], kind |-> "followed", title |-> Untitled]
                            \in notes'
        BY DEF FollowsAreAnnounced
      <4>1. f \in following /\ f # <<c, p>> /\ f \in Person \X Person
        BY <1>3 DEF BlockCreator
      <4>2. ~(f[2] = p /\ f[1] = c)
        BY <4>1
      <4>3. [to |-> f[2], from |-> f[1], kind |-> "followed", title |-> Untitled] \in notes
        BY <4>1 DEF FollowsAreAnnounced
      <4> QED
        BY <1>3, <4>2, <4>3 DEF BlockCreator
    <3>3. UpdatesFollowPublication'
      BY <1>3 DEF BlockCreator, UpdatesFollowPublication
    <3> QED
      BY <3>1, <3>2, <3>3
  <2> QED
    BY <2>1, <2>2, <2>3
<1>4. ASSUME NEW p \in Person, NEW c \in Person, UnblockCreator(p, c)
      PROVE  CommunityIInv'
  <2>1. CommunityTypeOK'
    BY <1>4 DEF UnblockCreator, StillShut
  <2>2. VisitInv'
    BY <1>4 DEF UnblockCreator, StillShut, VisitInv, ShutOut, Learnt
  <2>3. SettledInv'
    BY <1>4 DEF UnblockCreator, Barred, FollowsAreAnnounced, UpdatesFollowPublication
  <2> QED
    BY <2>1, <2>2, <2>3
<1>5. ASSUME NEW p \in Person, NEW t \in Title, UnfollowGame(p, t)
      PROVE  CommunityIInv'
  BY <1>5 DEF UnfollowGame, VisitInv, ShutOut, Learnt, FollowsAreAnnounced, UpdatesFollowPublication
<1>6. ASSUME NEW p \in Person, ChangeAccess(p)
      PROVE  CommunityIInv'
  BY <1>6 DEF ChangeAccess, VisitInv, ShutOut, Learnt, FollowsAreAnnounced, UpdatesFollowPublication
<1>7. ASSUME NEW t \in Title, ChangeListing(t)
      PROVE  CommunityIInv'
  BY <1>7 DEF ChangeListing, VisitInv, ShutOut, Learnt, FollowsAreAnnounced, UpdatesFollowPublication
<1>8. UNCHANGED communityVars => CommunityIInv'
  BY DEF communityVars, communityRows, VisitInv, ShutOut, Learnt, FollowsAreAnnounced, UpdatesFollowPublication
<1> QED
  BY <1>1, <1>2, <1>3, <1>4, <1>5, <1>6, <1>7, <1>8

\* Questions, answers and ends of requests that write nothing.
LEMMA VisitsKeep ==
  ASSUME CommunityIInv,
         \/ \E v \in Visitor, p \in Person, t \in Title : BeginFollowGame(v, p, t)
         \/ \E v \in Visitor, p \in Person, t \in Title, asked \in Person \cup {Nobody} :
              BeginNotifyComment(v, p, t, asked)
         \/ \E v \in Visitor, t \in Title : BeginAnnounce(v, t)
         \/ \E v \in Visitor : CheckFollowGame(v) \/ CheckRecipient(v) \/ EndNotifyComment(v)
  PROVE  CommunityIInv'
<1> USE DEF CommunityIInv, CommunityTypeOK
<1>0. ASSUME UNCHANGED communityRows
      PROVE  SettledInv'
  BY <1>0 DEF communityRows, SettledInv, FollowsAreAnnounced, UpdatesFollowPublication
<1>1. ASSUME NEW v \in Visitor, NEW p \in Person, NEW what \in Errand, Begin(v, p, what),
             what.who = p, what.next = Nobody, what.title \in Title,
             what.doing \in {"follow", "notify"}
      PROVE  CommunityIInv'
  <2>1. CommunityTypeOK'
    BY <1>1 DEF Begin, communityRows
  <2>2. \A s \in shut : s[1] # v
    BY <1>1 DEF Begin, VisitInv, ShutOut, Rest
  <2>3. VisitInv'
    <3>1. \A s \in shut' : visit'[s[1]].doing # "idle"
                           /\ Barred(blocks', visit'[s[1]].who, s[2])
      <4> SUFFICES ASSUME NEW s \in shut'
                   PROVE  visit'[s[1]].doing # "idle" /\ Barred(blocks', visit'[s[1]].who, s[2])
        OBVIOUS
      <4>1. CASE s \in shut
        BY <4>1, <1>1, <2>2 DEF Begin, communityRows, VisitInv, ShutOut, Barred
      <4>2. CASE s \notin shut
        <5>1. PICK q \in Person : s = <<v, q>> /\ Barred(blocks, p, q)
          BY <4>2, <1>1 DEF Begin
        <5> QED
          BY <5>1, <1>1 DEF Begin, communityRows, Barred
      <4> QED
        BY <4>1, <4>2
    <3>2. ASSUME NEW w \in Visitor, w # v, NEW q, <<w, q>> \notin shut
          PROVE  <<w, q>> \notin shut'
      BY <3>2, <1>1 DEF Begin
    <3>3. \A w \in Visitor : visit'[w] = IF w = v THEN what ELSE visit[w]
      BY <1>1 DEF Begin
    <3>4. ASSUME NEW w \in Visitor
          PROVE  Learnt(w)'
      <4>1. Learnt(w)
        BY DEF VisitInv
      <4> QED
        BY <1>1, <3>2, <3>3, <4>1 DEF Begin, communityRows, Learnt
    <3> QED
      BY <3>1, <3>4 DEF VisitInv, ShutOut
  <2> QED
    BY <1>0, <1>1, <2>1, <2>3 DEF Begin
<1>2. ASSUME NEW v \in Visitor, NEW p \in Person, NEW t \in Title, BeginFollowGame(v, p, t)
      PROVE  CommunityIInv'
  BY <1>1, <1>2, CommunityAssumption DEF BeginFollowGame, Rest, Errand
<1>3. ASSUME NEW v \in Visitor, NEW p \in Person, NEW t \in Title,
             NEW asked \in Person \cup {Nobody}, BeginNotifyComment(v, p, t, asked)
      PROVE  CommunityIInv'
  <2> DEFINE what == [Rest EXCEPT !.doing = "notify", !.who = p, !.title = t,
                                  !.todo = {Creator[t], asked} \ {p, Nobody}]
  <2>0. {Creator[t], asked} \ {p, Nobody} \in SUBSET Person
    BY CommunityAssumption
  <2>1. what \in Errand /\ what.who = p /\ what.next = Nobody /\ what.title = t
        /\ what.doing = "notify"
    BY <2>0 DEF Rest, Errand
  <2>2. Begin(v, p, what)
    BY <1>3 DEF BeginNotifyComment
  <2> QED
    BY <1>1, <2>1, <2>2
<1>4. ASSUME NEW v \in Visitor, NEW t \in Title, BeginAnnounce(v, t)
      PROVE  CommunityIInv'
  <2> DEFINE what == [Rest EXCEPT !.doing = "announce", !.who = Creator[t], !.title = t,
                                  !.kind = IF \E e \in events : e.title = t
                                           THEN "updated" ELSE "published"]
  <2>0. Creator[t] \in Person
    BY CommunityAssumption
  <2>1. /\ what \in Errand /\ what.who = Creator[t] /\ what.next = Nobody /\ what.title = t
        /\ what.doing = "announce"
        /\ what.kind = IF \E e \in events : e.title = t THEN "updated" ELSE "published"
    BY <2>0 DEF Rest, Errand
  <2> HIDE DEF what
  <2>2. /\ visit[v] = Rest
        /\ visit' = [visit EXCEPT ![v] = what]
        /\ shut' = shut \cup {<<v, q>> : q \in {r \in Person : Barred(blocks, Creator[t], r)}}
        /\ UNCHANGED communityRows
    BY <1>4 DEF BeginAnnounce, what
  <2>3. CommunityTypeOK'
    BY <2>1, <2>2 DEF communityRows
  <2>4. \A s \in shut : s[1] # v
    BY <2>2 DEF VisitInv, ShutOut, Rest
  <2>5. what.kind = "updated" => [kind |-> "published", title |-> t] \in events
    BY <2>1 DEF SettledInv, UpdatesFollowPublication, Event
  <2>6. VisitInv'
    <3>1. \A s \in shut' : visit'[s[1]].doing # "idle"
                           /\ Barred(blocks', visit'[s[1]].who, s[2])
      <4> SUFFICES ASSUME NEW s \in shut'
                   PROVE  visit'[s[1]].doing # "idle" /\ Barred(blocks', visit'[s[1]].who, s[2])
        OBVIOUS
      <4>1. CASE s \in shut
        BY <4>1, <2>2, <2>4 DEF communityRows, VisitInv, ShutOut, Barred
      <4>2. CASE s \notin shut
        <5>1. PICK q \in Person : s = <<v, q>> /\ Barred(blocks, Creator[t], q)
          BY <4>2, <2>2
        <5> QED
          BY <5>1, <2>1, <2>2 DEF communityRows, Barred
      <4> QED
        BY <4>1, <4>2
    <3>2. ASSUME NEW w \in Visitor, w # v, NEW q, <<w, q>> \notin shut
          PROVE  <<w, q>> \notin shut'
      BY <3>2, <2>2
    <3>3. \A w \in Visitor : visit'[w] = IF w = v THEN what ELSE visit[w]
      BY <2>2
    <3>4. ASSUME NEW w \in Visitor
          PROVE  Learnt(w)'
      <4>1. Learnt(w)
        BY DEF VisitInv
      <4> QED
        BY <2>0, <2>1, <2>2, <2>5, <3>2, <3>3, <4>1 DEF communityRows, Learnt
    <3> QED
      BY <3>1, <3>4 DEF VisitInv, ShutOut
  <2> QED
    BY <1>0, <2>2, <2>3, <2>6
<1>5. ASSUME NEW v \in Visitor, CheckFollowGame(v)
      PROVE  CommunityIInv'
  <2>1. visit[v].who \in Person \cup {Nobody} /\ visit[v].title \in Title
    BY <1>5 DEF CheckFollowGame, VisitInv, ShutOut, Learnt, Errand
  <2>2. CASE ~Blocked(visit[v].who, Creator[visit[v].title])
    <3>1. /\ visit' = [visit EXCEPT ![v].doing = "clear"]
          /\ UNCHANGED <<shut, communityRows>>
      BY <1>5, <2>2 DEF CheckFollowGame
    <3>2. <<v, Creator[visit[v].title]>> \notin shut
      BY <2>2, BlockedIsBarred DEF VisitInv, ShutOut
    <3>3. CommunityTypeOK'
      BY <3>1 DEF communityRows, Errand
    <3>4. VisitInv'
      <4>1. visit[v].doing = "follow"
        BY <1>5 DEF CheckFollowGame
      <4>2. \A w \in Visitor :
              /\ visit'[w].who = visit[w].who /\ visit'[w].title = visit[w].title
              /\ visit'[w].kind = visit[w].kind /\ visit'[w].next = visit[w].next
              /\ visit'[w].doing = IF w = v THEN "clear" ELSE visit[w].doing
        BY <3>1 DEF Errand
      <4> QED
        BY <3>1, <3>2, <4>1, <4>2, GoingOnKeeps DEF communityRows
    <3> QED
      BY <1>0, <3>1, <3>3, <3>4
  <2>3. CASE Blocked(visit[v].who, Creator[visit[v].title])
    <3>1. Finished(v) /\ UNCHANGED communityRows
      BY <1>5, <2>3 DEF CheckFollowGame
    <3> QED
      BY <1>0, <3>1, FinishedKeeps DEF communityRows
  <2> QED
    BY <2>2, <2>3
<1>6. ASSUME NEW v \in Visitor, CheckRecipient(v)
      PROVE  CommunityIInv'
  <2>1. PICK q \in visit[v].todo :
          visit' = IF Blocked(visit[v].who, q)
                   THEN [visit EXCEPT ![v].todo = @ \ {q}]
                   ELSE [visit EXCEPT ![v].todo = @ \ {q}, ![v].next = q]
    BY <1>6 DEF CheckRecipient
  <2>2. q \in Person /\ visit[v].doing = "notify" /\ UNCHANGED <<communityRows, shut>>
    BY <1>6 DEF CheckRecipient, Errand
  <2>3. ~Blocked(visit[v].who, q) => <<v, q>> \notin shut
    BY BlockedIsBarred DEF VisitInv, ShutOut
  <2>4. CommunityTypeOK'
    <3>1. /\ [visit[v] EXCEPT !.todo = @ \ {q}] \in Errand
          /\ [visit[v] EXCEPT !.todo = @ \ {q}, !.next = q] \in Errand
      BY <2>2 DEF Errand
    <3>2. visit' \in [Visitor -> Errand]
      BY <2>1, <3>1
    <3> QED
      BY <2>2, <3>2 DEF communityRows
  <2>5. \A w \in Visitor :
          /\ visit'[w].doing = visit[w].doing /\ visit'[w].who = visit[w].who
          /\ visit'[w].title = visit[w].title /\ visit'[w].kind = visit[w].kind
          /\ visit'[w].next # visit[w].next =>
               w = v /\ visit'[w].next = q /\ ~Blocked(visit[v].who, q)
    BY <2>1 DEF Errand
  <2>6. VisitInv'
    BY <2>2, <2>3, <2>5, GoingOnKeeps DEF communityRows
  <2> QED
    BY <1>0, <2>2, <2>4, <2>6
<1>7. ASSUME NEW v \in Visitor, EndNotifyComment(v)
      PROVE  CommunityIInv'
  BY <1>0, <1>7, FinishedKeeps DEF EndNotifyComment, communityRows
<1> QED
  BY <1>2, <1>3, <1>4, <1>5, <1>6, <1>7

\* The writes: what was learnt is used here.
LEMMA WritesKeep ==
  ASSUME CommunityIInv, NEW v \in Visitor,
         EndFollowGame(v) \/ NotifyRecipient(v) \/ EndAnnounce(v)
  PROVE  CommunityIInv'
<1> USE DEF CommunityIInv, CommunityTypeOK
<1>1. CASE EndFollowGame(v)
  <2>1. visit[v].who \in Person /\ visit[v].title \in Title /\ UNCHANGED <<blocks, events>>
    BY <1>1 DEF EndFollowGame, VisitInv, ShutOut, Learnt
  <2>2. VisitInv' /\ visit' \in [Visitor -> Errand] /\ shut' \in SUBSET (Visitor \X Person)
    BY <1>1, <2>1, FinishedKeeps DEF EndFollowGame
  <2>3. CommunityTypeOK' /\ SettledInv'
    BY <1>1, <2>1, <2>2
       DEF EndFollowGame, SettledInv, FollowsAreAnnounced, UpdatesFollowPublication
  <2> QED
    BY <2>2, <2>3
<1>2. CASE NotifyRecipient(v)
  <2>1. /\ visit[v].who \in Person /\ visit[v].title \in Title /\ visit[v].next \in Person
        /\ UNCHANGED <<active, listed, blocks, following, watching, events, shut>>
    BY <1>2 DEF NotifyRecipient, VisitInv, ShutOut, Learnt, Errand
  <2>2. /\ visit' \in [Visitor -> Errand]
        /\ \A w \in Visitor :
             /\ visit'[w].doing = visit[w].doing /\ visit'[w].who = visit[w].who
             /\ visit'[w].title = visit[w].title /\ visit'[w].kind = visit[w].kind
             /\ visit'[w].next = IF w = v THEN Nobody ELSE visit[w].next
    BY <1>2 DEF NotifyRecipient, Errand
  <2>3. VisitInv'
    BY <2>1, <2>2, GoingOnKeeps
  <2>4. notes \subseteq notes' /\ notes' \in SUBSET Note
    BY <1>2, <2>1 DEF NotifyRecipient, Note
  <2> QED
    BY <2>1, <2>2, <2>3, <2>4 DEF SettledInv, FollowsAreAnnounced, UpdatesFollowPublication
<1>3. CASE EndAnnounce(v)
  <2> DEFINE t == visit[v].title
             e == [kind |-> visit[v].kind, title |-> t]
             N == {[to |-> q, from |-> Creator[t], kind |-> "announced", title |-> t]
                   : q \in Audience(t)}
  <2>1. /\ visit[v].doing = "announce" /\ t \in Title
        /\ visit[v].kind \in {"published", "updated"}
        /\ visit[v].kind = "updated" => [kind |-> "published", title |-> t] \in events
    BY <1>3 DEF EndAnnounce, VisitInv, ShutOut, Learnt, Errand
  <2>2. /\ events' = events \cup {e} /\ notes' = notes \cup N /\ Finished(v)
        /\ UNCHANGED <<active, listed, blocks, following, watching>>
    BY <1>3 DEF EndAnnounce
  <2>3. VisitInv' /\ visit' \in [Visitor -> Errand] /\ shut' \in SUBSET (Visitor \X Person)
    BY <2>2, FinishedKeeps
  <2>4. N \in SUBSET Note
    <3>1. Creator[t] \in Person
      BY <2>1, CommunityAssumption
    <3>2. Audience(t) \subseteq Person
      BY DEF Audience
    <3> QED
      BY <2>1, <3>1, <3>2 DEF Note
  <2>5. e \in Event
    BY <2>1 DEF Event
  <2>6. SettledInv'
    <3>1. FollowsAreAnnounced' /\ \A p, q \in Person : Barred(blocks', p, q) => <<p, q>> \notin following'
      BY <2>2 DEF SettledInv, FollowsAreAnnounced
    <3>2. UpdatesFollowPublication'
      <4> SUFFICES ASSUME NEW x \in events', x.kind = "updated"
                   PROVE  [kind |-> "published", title |-> x.title] \in events'
        BY DEF UpdatesFollowPublication
      <4>1. CASE x \in events
        BY <2>2, <4>1 DEF SettledInv, UpdatesFollowPublication
      <4>2. CASE x = e
        BY <2>1, <2>2, <4>2
      <4> QED
        BY <2>2, <4>1, <4>2
    <3> QED
      BY <3>1, <3>2 DEF SettledInv
  <2> QED
    BY <2>2, <2>3, <2>4, <2>5, <2>6
<1> QED
  BY <1>1, <1>2, <1>3

LEMMA CommunityNextIInv == CommunityIInv /\ [CommunityNext]_communityVars => CommunityIInv'
BY RowsKeep, VisitsKeep, WritesKeep DEF CommunityNext

\* The strengthened invariant, for every instance.
THEOREM CommunityInvariant == CommunitySpec => []CommunityIInv
<1> QED
  BY CommunityInitIInv, CommunityNextIInv, PTL DEF CommunitySpec

\* The variables of the community keep their types.
THEOREM CommunityTypeCorrect == CommunitySpec => []CommunityTypeOK
<1>1. CommunityIInv => CommunityTypeOK
  BY DEF CommunityIInv
<1> QED
  BY <1>1, CommunityInvariant, PTL

\* A block separates two persons in the follows and in all they are shown, every
\* follow has been announced, and every update has been preceded by a publication.
THEOREM CommunityCorrect == CommunitySpec => []CommunityInv
<1>1. CommunityIInv => CommunityInv
  <2> SUFFICES ASSUME CommunityIInv PROVE BlockSeparates
    BY DEF CommunityIInv, SettledInv, CommunityInv
  <2> SUFFICES ASSUME NEW p \in Person, NEW q \in Person, Barred(blocks, p, q)
               PROVE  /\ <<p, q>> \notin following
                      /\ \A e \in Feed(p) : Creator[e.title] # q
                      /\ \A n \in Shown(p) : n.from # q
    BY DEF BlockSeparates
  <2>1. <<p, q>> \notin following
    BY DEF CommunityIInv, SettledInv
  <2>2. Blocked(p, q)
    BY BlockedIsBarred
  <2> QED
    BY <2>1, <2>2 DEF Feed, Shown
<1> QED
  BY <1>1, CommunityInvariant, PTL

\* A request that a block has shut out from somebody since it began leaves nothing
\* with them.
THEOREM BlocksHold == CommunitySpec => BlockHolds
<1>1. CommunityIInv /\ [CommunityNext]_communityVars => [NothingAcrossBlock]_communityVars
  <2> SUFFICES ASSUME CommunityIInv, [CommunityNext]_communityVars,
                      NEW v \in Visitor, NEW s \in shut, s[1] = v, visit'[v] # visit[v]
               PROVE  /\ \A w \in watching' \ watching : Creator[w[2]] # s[2]
                      /\ \A n \in notes' \ notes : n.to # s[2]
    BY DEF NothingAcrossBlock
  <2> USE DEF CommunityIInv, CommunityTypeOK
  <2>0. s = <<v, s[2]>> /\ visit[v] # Rest /\ Barred(blocks, visit[v].who, s[2])
    BY DEF VisitInv, ShutOut, Rest
  <2>1. CASE UNCHANGED <<watching, notes>>
    BY <2>1
  <2>2. ASSUME NEW u \in Visitor, EndFollowGame(u)
        PROVE  /\ \A w \in watching' \ watching : Creator[w[2]] # s[2]
               /\ \A n \in notes' \ notes : n.to # s[2]
    <3>1. u = v
      BY <2>2 DEF EndFollowGame, Finished
    <3>2. Creator[visit[v].title] # s[2]
      <4>1. <<v, Creator[visit[v].title]>> \notin shut
        BY <2>2, <3>1 DEF EndFollowGame, VisitInv, Learnt
      <4> QED
        BY <2>0, <4>1
    <3> QED
      BY <2>2, <3>1, <3>2 DEF EndFollowGame
  <2>3. ASSUME NEW u \in Visitor, NotifyRecipient(u)
        PROVE  /\ \A w \in watching' \ watching : Creator[w[2]] # s[2]
               /\ \A n \in notes' \ notes : n.to # s[2]
    <3>1. u = v
      BY <2>3 DEF NotifyRecipient
    <3>2. visit[v].next # s[2]
      BY <2>0, <2>3, <3>1 DEF NotifyRecipient, VisitInv, Learnt
    <3> QED
      BY <2>3, <3>1, <3>2 DEF NotifyRecipient
  <2>4. ASSUME NEW u \in Visitor, EndAnnounce(u)
        PROVE  /\ \A w \in watching' \ watching : Creator[w[2]] # s[2]
               /\ \A n \in notes' \ notes : n.to # s[2]
    <3>1. u = v /\ visit[v].who = Creator[visit[v].title]
      BY <2>4 DEF EndAnnounce, Finished, VisitInv, ShutOut, Learnt
    <3>2. \A q \in Audience(visit[v].title) : q # s[2]
      BY <2>0, <3>1, BlockedIsBarred DEF Audience, Barred
    <3> QED
      BY <2>4, <3>1, <3>2 DEF EndAnnounce
  <2>5. \/ UNCHANGED <<watching, notes>>
        \/ UNCHANGED visit
        \/ \E u \in Visitor : EndFollowGame(u) \/ NotifyRecipient(u) \/ EndAnnounce(u)
    BY DEF CommunityNext, communityVars, communityRows, Begin, FollowCreator, UnfollowCreator,
           BlockCreator, UnblockCreator, BeginFollowGame, CheckFollowGame, UnfollowGame,
           BeginNotifyComment, CheckRecipient, EndNotifyComment, BeginAnnounce, ChangeAccess,
           ChangeListing
  <2> QED
    BY <2>1, <2>2, <2>3, <2>4, <2>5
<1> QED
  BY <1>1, CommunityInvariant, PTL DEF CommunitySpec, BlockHolds

----------------------------------------------------------------------------
(* Threads                                                                 *)

Stays == {"visible", "deleted"}

\* Comments are born in order; what is gone has gone with its game.
PostOK(k) ==
  /\ state[k] = "unborn" <=> k > written
  /\ state[k] = "unborn" => about[k] = NoExhibit
  /\ state[k] = "gone" => about[k] \in Exhibit /\ shelf[about[k]] = "gone"
  /\ state[k] \in Stays => about[k] \in Exhibit /\ shelf[about[k]] # "gone"

\* What a request has read of the comment it is about, and will not ask again.
CallOK(c) ==
  /\ call[c].stage # "idle" => call[c].game \in Exhibit
  /\ call[c].stage \in {"resolved", "checked"} => call[c].who \in Member
  /\ call[c].stage = "resolved" /\ call[c].op = "comment" => call[c].post = NoPost
  /\ call[c].stage \in {"resolved", "checked"} /\ call[c].op \in OnPost =>
       call[c].post \in Post /\ call[c].post <= written
  /\ call[c].stage = "checked" =>
       /\ call[c].op \in OnPost
       /\ about[call[c].post] = call[c].game
       /\ call[c].op = "reply" => parent[call[c].post] = NoPost

HushedOK(c) == c \in hushed => /\ call[c].stage = "arrived"
                               /\ shelf[call[c].game] # "published"

ThreadsIInv ==
  /\ ThreadsTypeOK
  /\ \A k \in Post : PostOK(k)
  /\ \A c \in Caller : CallOK(c) /\ HushedOK(c)
  /\ ThreadInv

Request == [op : {"none"} \cup Immediate \cup OnPost,
            stage : {"idle", "arrived", "resolved", "checked"},
            who : Member \cup {NoMember}, game : Exhibit \cup {NoExhibit},
            post : Post \cup {NoPost}]

LEMMA PostFacts == /\ NoPost \notin Post /\ Post \subseteq Nat /\ NoPost = 0
                   /\ \A k \in Post : k >= 1
BY ThreadsAssumption DEF Post, NoPost

LEMMA ThreadsInitIInv == ThreadsInit => ThreadsIInv
BY ThreadsAssumption, PostFacts
   DEF ThreadsInit, ThreadsIInv, ThreadsTypeOK, PostOK, CallOK, HushedOK, ThreadInv, OneLevelDeep,
       RepliesGoWithRoot, RowsHaveTheirGame, NoCall, Immediate, OnPost, Stays

\* A request moves on without a write: the rows stay, and what it has read is so.
LEMMA MoveKeeps ==
  ASSUME ThreadsIInv, NEW c \in Caller, NEW new \in Request, call' = [call EXCEPT ![c] = new],
         UNCHANGED threadRows, CallOK(c)', hushed' \in SUBSET Caller,
         hushed' \subseteq hushed \cup {c}, HushedOK(c)'
  PROVE  ThreadsIInv'
<1> USE DEF ThreadsIInv, threadRows
<1>1. ThreadsTypeOK'
  BY DEF ThreadsTypeOK, Request
<1>2. (\A k \in Post : PostOK(k))' /\ ThreadInv'
  BY DEF PostOK, ThreadInv, OneLevelDeep, RepliesGoWithRoot, RowsHaveTheirGame
<1>3. ASSUME NEW d \in Caller, d # c
      PROVE  CallOK(d)' /\ HushedOK(d)'
  <2>1. call'[d] = call[d] /\ CallOK(d) /\ HushedOK(d) /\ (d \in hushed' => d \in hushed)
    BY <1>3 DEF ThreadsTypeOK
  <2> QED
    BY <2>1 DEF CallOK, HushedOK
<1> QED
  BY <1>1, <1>2, <1>3

\* A request has written and is done.
LEMMA DoneFacts ==
  ASSUME ThreadsIInv, NEW c \in Caller, Done(c)
  PROVE  /\ call' \in [Caller -> Request] /\ hushed' \in SUBSET Caller
         /\ call'[c] = NoCall /\ c \notin hushed'
         /\ \A d \in Caller : d # c => call'[d] = call[d] /\ (d \in hushed' => d \in hushed)
         /\ NoCall \in Request /\ NoCall.stage = "idle"
<1>1. NoCall \in Request /\ NoCall.stage = "idle"
  BY DEF NoCall, Request
<1> QED
  BY <1>1 DEF ThreadsIInv, ThreadsTypeOK, Request, Done

\* The requests after a write by c that leaves parents and games of comments alone
\* for all that was written.
LEMMA OthersKeep ==
  ASSUME ThreadsIInv, NEW c \in Caller, Done(c), UNCHANGED shelf, written' \in Nat, written' >= written,
         \A k \in Post : k <= written => about'[k] = about[k] /\ parent'[k] = parent[k]
  PROVE  \A d \in Caller : CallOK(d)' /\ HushedOK(d)'
<1> USE DEF ThreadsIInv
<1> SUFFICES ASSUME NEW d \in Caller PROVE CallOK(d)' /\ HushedOK(d)'
  OBVIOUS
<1>1. CASE d = c
  BY <1>1, DoneFacts DEF CallOK, HushedOK
<1>2. CASE d # c
  <2>1. call'[d] = call[d] /\ CallOK(d) /\ HushedOK(d) /\ (d \in hushed' => d \in hushed)
    BY <1>2, DoneFacts
  <2>2. \A k \in Post : k <= written => k <= written'
    BY PostFacts DEF ThreadsTypeOK
  <2> QED
    BY <2>1, <2>2 DEF CallOK, HushedOK
<1> QED
  BY <1>1, <1>2

----------------------------------------------------------------------------
(* Steps of a request that write nothing                                   *)

LEMMA ArriveKeeps == ASSUME ThreadsIInv, NEW c \in Caller, NEW g \in Exhibit, Arrive(c, g) PROVE ThreadsIInv'
<1>1. PICK new : new = [call[c] EXCEPT !.stage = "arrived", !.game = g]
  OBVIOUS
<1>2. /\ new \in Request /\ new.stage = "arrived" /\ new.game = g
      /\ call' = [call EXCEPT ![c] = new] /\ call'[c] = new
  <2>1. call \in [Caller -> Request] /\ "arrived" \in {"idle", "arrived", "resolved", "checked"}
    BY DEF ThreadsIInv, ThreadsTypeOK, Request
  <2>2. PICK old \in Request : old = call[c]
    BY <2>1
  <2>3. new = [old EXCEPT !.stage = "arrived", !.game = g]
    BY <1>1, <2>2
  <2>4. new \in Request /\ new.stage = "arrived" /\ new.game = g
    BY <2>3 DEF Request
  <2>5. call' = [call EXCEPT ![c] = new]
    BY <1>1 DEF Arrive
  <2> QED
    BY <2>1, <2>4, <2>5
<1>3. CallOK(c)'
  BY <1>2 DEF CallOK
<1>4. c \notin hushed
  BY DEF Arrive, ThreadsIInv, HushedOK, NoCall
<1>5. HushedOK(c)' /\ hushed' \in SUBSET Caller /\ hushed' \subseteq hushed \cup {c}
  BY <1>2, <1>4 DEF Arrive, HushedOK, threadRows, ThreadsIInv, ThreadsTypeOK
<1> QED
  BY <1>2, <1>3, <1>5, MoveKeeps DEF Arrive

\* A request ends without a write.
LEMMA GiveUpKeeps ==
  ASSUME ThreadsIInv, NEW c \in Caller, Done(c), UNCHANGED threadRows
  PROVE  ThreadsIInv'
<1>1. CallOK(c)' /\ HushedOK(c)'
  BY DoneFacts DEF CallOK, HushedOK
<1>2. hushed' \in SUBSET Caller /\ hushed' \subseteq hushed \cup {c} /\ NoCall \in Request
  BY DoneFacts DEF Done
<1> QED
  BY <1>1, <1>2, MoveKeeps DEF Done

LEMMA ResolveKeeps == ASSUME ThreadsIInv, NEW c \in Caller, Resolve(c) PROVE ThreadsIInv'
<1>1. CASE /\ Resolves(call[c].game)
           /\ \E op \in Immediate \cup OnPost, m \in Member, k \in Post \cup {NoPost} :
                /\ IF op \in OnPost THEN k \in 1 .. written ELSE k = NoPost
                /\ op \notin {"comment", "reply", "delete"} => m \in Fan
                /\ call' = [call EXCEPT ![c] = [op |-> op, stage |-> "resolved", who |-> m,
                                                game |-> call[c].game, post |-> k]]
           /\ UNCHANGED hushed
  <2>1. PICK op \in Immediate \cup OnPost, m \in Member, k \in Post \cup {NoPost} :
          /\ IF op \in OnPost THEN k \in 1 .. written ELSE k = NoPost
          /\ call' = [call EXCEPT ![c] = [op |-> op, stage |-> "resolved", who |-> m,
                                          game |-> call[c].game, post |-> k]]
    BY <1>1
  <2>2. PICK new : new = [op |-> op, stage |-> "resolved", who |-> m,
                          game |-> call[c].game, post |-> k]
    OBVIOUS
  <2>3. call[c].game \in Exhibit
    BY DEF Resolve, ThreadsIInv, CallOK
  <2>4. new \in Request /\ call' = [call EXCEPT ![c] = new] /\ call'[c] = new
    BY <2>1, <2>2, <2>3 DEF Request, ThreadsIInv, ThreadsTypeOK
  <2>5. k # NoPost => k \in Post /\ k <= written
    BY <2>1, PostFacts DEF ThreadsIInv, ThreadsTypeOK
  <2>6. op \in OnPost => k \in Post /\ k <= written
    BY <2>1, PostFacts DEF ThreadsIInv, ThreadsTypeOK
  <2>7. op = "comment" => k = NoPost
    BY <2>1 DEF OnPost
  <2>8. CallOK(c)'
    BY <2>2, <2>3, <2>4, <2>6, <2>7 DEF CallOK, Resolve, threadRows
  <2>9. c \notin hushed
    BY <1>1 DEF ThreadsIInv, HushedOK, Resolves
  <2>10. HushedOK(c)' /\ hushed' \in SUBSET Caller /\ hushed' \subseteq hushed \cup {c}
    BY <1>1, <2>9 DEF HushedOK, ThreadsIInv, ThreadsTypeOK
  <2> QED
    BY <2>4, <2>8, <2>10, MoveKeeps DEF Resolve
<1>2. CASE ~Resolves(call[c].game) /\ Done(c)
  BY <1>2, GiveUpKeeps DEF Resolve
<1> QED
  BY <1>1, <1>2 DEF Resolve

LEMMA CheckKeeps == ASSUME ThreadsIInv, NEW c \in Caller, Check(c) PROVE ThreadsIInv'
<1>1. CASE Passes(c) /\ call' = [call EXCEPT ![c].stage = "checked"] /\ UNCHANGED hushed
  <2>1. PICK new : new = [call[c] EXCEPT !.stage = "checked"]
    OBVIOUS
  <2>2. /\ new \in Request /\ new.stage = "checked" /\ new.op = call[c].op
        /\ new.post = call[c].post /\ new.game = call[c].game /\ new.who = call[c].who
        /\ call' = [call EXCEPT ![c] = new] /\ call'[c] = new
    BY <1>1, <2>1 DEF ThreadsIInv, ThreadsTypeOK, Request
  <2>3. /\ about[call[c].post] = call[c].game
        /\ call[c].op = "reply" => parent[call[c].post] = NoPost
    BY <1>1 DEF Passes, MayReply, MayDelete, Belongs
  <2>4. CallOK(c)
    BY DEF ThreadsIInv
  <2>5. CallOK(c)'
    BY <2>2, <2>3, <2>4 DEF CallOK, Check, threadRows, OnPost
  <2>6. c \notin hushed
    BY DEF ThreadsIInv, HushedOK, Check
  <2>7. HushedOK(c)' /\ hushed' \in SUBSET Caller /\ hushed' \subseteq hushed \cup {c}
    BY <1>1, <2>6 DEF HushedOK, ThreadsIInv, ThreadsTypeOK
  <2> QED
    BY <2>2, <2>5, <2>7, MoveKeeps DEF Check
<1>2. CASE ~Passes(c) /\ Done(c)
  BY <1>2, GiveUpKeeps DEF Check
<1> QED
  BY <1>1, <1>2 DEF Check

----------------------------------------------------------------------------
(* Writes                                                                  *)

\* Rows of marks come and go; a new one is about a game that has its row.
LEMMA MarksKeep ==
  ASSUME ThreadsIInv, marks' \in SUBSET (Marks \X Member \X Exhibit),
         \A r \in marks' : r \in marks \/ shelf[r[3]] # "gone",
         UNCHANGED <<shelf, state, about, author, parent, written, hearts, late>>
  PROVE  /\ call' \in [Caller -> Request] /\ hushed' \in SUBSET Caller => ThreadsTypeOK'
         /\ (\A k \in Post : PostOK(k))' /\ ThreadInv'
<1> USE DEF ThreadsIInv
<1>1. call' \in [Caller -> Request] /\ hushed' \in SUBSET Caller => ThreadsTypeOK'
  BY DEF ThreadsTypeOK, Request
<1>2. (\A k \in Post : PostOK(k))' /\ ThreadInv'
  BY DEF PostOK, ThreadInv, OneLevelDeep, RepliesGoWithRoot, RowsHaveTheirGame
<1> QED
  BY <1>1, <1>2

LEMMA MarkKeeps == ASSUME ThreadsIInv, NEW c \in Caller, Mark(c) PROVE ThreadsIInv'
<1> USE DEF ThreadsIInv
<1>1. PICK kind, row :
        /\ kind \in {"share", "like"} /\ row = <<kind, call[c].who, call[c].game>>
        /\ marks' = IF call[c].op = "unlike" THEN marks \ {row}
                    ELSE IF shelf[call[c].game] = "gone" THEN marks ELSE marks \cup {row}
  BY DEF Mark
<1>2. call[c].who \in Member /\ call[c].game \in Exhibit
  BY DEF Mark, CallOK
<1>3. row \in Marks \X Member \X Exhibit /\ row[3] = call[c].game
  BY <1>1, <1>2 DEF Marks
<1>4. marks' \in SUBSET (Marks \X Member \X Exhibit)
  BY <1>1, <1>3 DEF ThreadsTypeOK
<1>5. \A r \in marks' : r \in marks \/ shelf[r[3]] # "gone"
  BY <1>1, <1>3
<1>6. \A d \in Caller : CallOK(d)' /\ HushedOK(d)'
  BY OthersKeep DEF Mark, ThreadsTypeOK
<1> QED
  BY <1>4, <1>5, <1>6, MarksKeep, DoneFacts DEF Mark

LEMMA ShelfMarksKeep ==
  ASSUME ThreadsIInv, NEW m \in Fan, NEW g \in Exhibit,
         AddFavorite(m, g) \/ RemoveFavorite(m, g) \/ RecordLaunch(m, g)
  PROVE  ThreadsIInv'
<1> USE DEF ThreadsIInv
<1>1. m \in Member
  BY ThreadsAssumption
<1>2. PICK kind, row :
        /\ kind \in {"favorite", "launch"} /\ row = <<kind, m, g>>
        /\ marks' = marks \ {row} \/ (marks' = marks \cup {row} /\ shelf[g] # "gone")
  BY DEF AddFavorite, RemoveFavorite, RecordLaunch
<1>3. row \in Marks \X Member \X Exhibit /\ row[3] = g
  BY <1>1, <1>2 DEF Marks
<1>4. marks' \in SUBSET (Marks \X Member \X Exhibit)
  BY <1>2, <1>3 DEF ThreadsTypeOK
<1>5. \A r \in marks' : r \in marks \/ shelf[r[3]] # "gone"
  BY <1>2, <1>3
<1>6. UNCHANGED <<shelf, state, about, author, parent, written, hearts, late, call, hushed>>
  BY DEF AddFavorite, RemoveFavorite, RecordLaunch
<1>7. \A d \in Caller : CallOK(d)' /\ HushedOK(d)'
  BY <1>6 DEF CallOK, HushedOK
<1>8. call' \in [Caller -> Request] /\ hushed' \in SUBSET Caller
  BY <1>6 DEF ThreadsTypeOK, Request
<1> QED
  BY <1>4, <1>5, <1>6, <1>7, <1>8, MarksKeep

LEMMA HeartKeeps == ASSUME ThreadsIInv, NEW c \in Caller, Heart(c) PROVE ThreadsIInv'
<1> USE DEF ThreadsIInv
<1>1. PICK row :
        /\ row = <<call[c].who, call[c].post>>
        /\ hearts' = IF call[c].op = "unheart" THEN hearts \ {row}
                     ELSE IF state[call[c].post] = "gone" THEN hearts ELSE hearts \cup {row}
  BY DEF Heart
<1>2. call[c].who \in Member /\ call[c].post \in Post /\ call[c].post <= written
  BY DEF Heart, CallOK
<1>3. state[call[c].post] # "gone" => state[call[c].post] \in Stays
  <2> SUFFICES ASSUME NEW k \in Post, k <= written, state[k] # "gone" PROVE state[k] \in Stays
    BY <1>2
  <2>1. ~(k > written) /\ PostOK(k)
    BY PostFacts, ThreadsAssumption DEF ThreadsTypeOK
  <2> QED
    BY <2>1 DEF PostOK, ThreadsTypeOK, Stays
<1>4. row \in Member \X Post /\ row[2] = call[c].post
  BY <1>1, <1>2
<1>5. hearts' \in SUBSET (Member \X Post)
  BY <1>1, <1>4 DEF ThreadsTypeOK
<1>6. \A h \in hearts' : h \in hearts \/ state[h[2]] \in Stays
  BY <1>1, <1>3, <1>4
<1>7. \A d \in Caller : CallOK(d)' /\ HushedOK(d)'
  BY OthersKeep DEF Heart, ThreadsTypeOK
<1>8. ThreadsTypeOK'
  BY <1>5, DoneFacts DEF Heart, ThreadsTypeOK, Request
<1>9. (\A k \in Post : PostOK(k))'
  BY DEF Heart, PostOK
<1>10. ThreadInv'
  BY <1>6 DEF Heart, ThreadInv, OneLevelDeep, RepliesGoWithRoot, RowsHaveTheirGame, Stays
<1> QED
  BY <1>7, <1>8, <1>9, <1>10

\* A comment is deleted, and with it its replies.
LEMMA DeletePostKeeps == ASSUME ThreadsIInv, NEW c \in Caller, Delete(c) PROVE ThreadsIInv'
<1> USE DEF ThreadsIInv
<1>1. PICK d : d = call[c].post
  OBVIOUS
<1>2. state' = [k \in Post |-> IF state[k] = "visible" /\ (k = d \/ parent[k] = d)
                               THEN "deleted" ELSE state[k]]
  BY <1>1 DEF Delete
<1>3. d \in Post
  BY <1>1 DEF Delete, CallOK
<1>4. \A k \in Post : /\ state'[k] \in Stays <=> state[k] \in Stays
                      /\ state'[k] = "gone" <=> state[k] = "gone"
                      /\ state'[k] = "unborn" <=> state[k] = "unborn"
                      /\ state'[k] = "visible" => state[k] = "visible" /\ k # d /\ parent[k] # d
                      /\ state[k] = "visible" /\ k # d /\ parent[k] # d => state'[k] = "visible"
  BY <1>2 DEF Stays
<1>5. \A e \in Caller : CallOK(e)' /\ HushedOK(e)'
  BY OthersKeep DEF Delete, ThreadsTypeOK
<1>6. ThreadsTypeOK'
  BY <1>2, DoneFacts DEF Delete, ThreadsTypeOK, Request
<1>7. (\A k \in Post : PostOK(k))'
  BY <1>4 DEF Delete, PostOK
<1>8. OneLevelDeep'
  BY <1>4 DEF Delete, OneLevelDeep, ThreadInv, Stays, ThreadsTypeOK
<1>9. RepliesGoWithRoot'
  <2> SUFFICES ASSUME NEW k \in Post \ late, state'[k] = "visible", parent[k] # NoPost
               PROVE  state'[parent[k]] = "visible"
    BY DEF Delete, RepliesGoWithRoot
  <2>1. state[k] = "visible" /\ k # d /\ parent[k] # d
    BY <1>4
  <2>2. state[parent[k]] = "visible" /\ parent[parent[k]] = NoPost /\ parent[k] \in Post
    BY <2>1 DEF RepliesGoWithRoot, OneLevelDeep, ThreadInv, ThreadsTypeOK
  <2> QED
    BY <2>1, <2>2, <1>3, <1>4, PostFacts
<1>10. RowsHaveTheirGame'
  BY <1>4 DEF Delete, RowsHaveTheirGame, ThreadInv, Stays, ThreadsTypeOK
<1> QED
  BY <1>5, <1>6, <1>7, <1>8, <1>9, <1>10 DEF ThreadInv

\* A comment is written; a reply's root may have been deleted since it was read, and
\* the reply is late then.
LEMMA WriteKeeps == ASSUME ThreadsIInv, NEW c \in Caller, Write(c) PROVE ThreadsIInv'
<1> USE DEF ThreadsIInv
<1>1. CASE /\ shelf[call[c].game] = "gone"
           /\ UNCHANGED <<written, state, about, author, parent, late>>
  BY <1>1, GiveUpKeeps DEF Write, threadRows
<1>2. CASE /\ shelf[call[c].game] # "gone" /\ written < MaxPosts
           /\ written' = written + 1
           /\ state' = [state EXCEPT ![written + 1] = "visible"]
           /\ about' = [about EXCEPT ![written + 1] = call[c].game]
           /\ author' = [author EXCEPT ![written + 1] = call[c].who]
           /\ parent' = [parent EXCEPT ![written + 1] = call[c].post]
           /\ late' = IF call[c].post # NoPost /\ state[call[c].post] = "deleted"
                      THEN late \cup {written + 1} ELSE late
  <2>1. PICK n : n = written + 1
    OBVIOUS
  <2>2. PICK p : p = call[c].post
    OBVIOUS
  <2>3. n \in Post /\ state[n] = "unborn" /\ written \in Nat
    BY <1>2, <2>1, ThreadsAssumption, PostFacts DEF PostOK, ThreadsTypeOK, Post
  <2>4. \A k \in Post : k # n => /\ k > n <=> k > written
                                 /\ state'[k] = state[k] /\ about'[k] = about[k]
                                 /\ parent'[k] = parent[k]
    BY <1>2, <2>1, <2>3, PostFacts DEF ThreadsTypeOK
  <2>5. /\ state'[n] = "visible" /\ about'[n] = call[c].game /\ parent'[n] = p
        /\ ~(n > written') /\ call[c].game \in Exhibit /\ call[c].who \in Member
    BY <1>2, <2>1, <2>2, <2>3 DEF ThreadsTypeOK, Write, CallOK
  <2>6. p = NoPost \/ /\ p \in Post /\ p # n /\ state[p] \in Stays /\ about[p] = call[c].game
                      /\ parent[p] = NoPost
    <3>1. CASE call[c].stage = "resolved" /\ call[c].op = "comment"
      BY <3>1, <2>2 DEF CallOK
    <3>2. CASE call[c].stage = "checked" /\ call[c].op = "reply"
      <4>1. p \in Post /\ p <= written /\ about[p] = call[c].game /\ parent[p] = NoPost
        BY <3>2, <2>2 DEF CallOK, OnPost
      <4>2. p # n /\ ~(p > written)
        BY <4>1, <2>1, <2>3, PostFacts
      <4>3. PostOK(p) /\ shelf[about[p]] # "gone"
        BY <4>1, <1>2
      <4>4. state[p] \in Stays
        BY <4>1, <4>2, <4>3 DEF PostOK, Stays, ThreadsTypeOK
      <4> QED
        BY <4>1, <4>2, <4>4
    <3> QED
      BY <3>1, <3>2 DEF Write
  <2>7. \A k \in Post : k # n /\ state[k] \in Stays /\ parent[k] # NoPost => parent[k] # n
    BY <2>3 DEF ThreadInv, OneLevelDeep, Stays
  <2>8. \A d \in Caller : CallOK(d)' /\ HushedOK(d)'
    <3>1. \A k \in Post : k <= written => k # n
      BY <2>1, <2>3, PostFacts
    <3>2. \A k \in Post : k <= written => about'[k] = about[k] /\ parent'[k] = parent[k]
      BY <3>1, <2>4
    <3>3. written' \in Nat /\ written' >= written
      BY <1>2, <2>3
    <3> QED
      BY <3>2, <3>3, OthersKeep DEF Write
  <2>9. ThreadsTypeOK'
    <3>1. late' \in SUBSET Post /\ written' \in 0 .. MaxPosts
      <4>1. late \in SUBSET Post
        BY DEF ThreadsTypeOK
      <4>2. written' \in 0 .. MaxPosts
        BY <1>2, <2>3, ThreadsAssumption
      <4> QED
        BY <1>2, <2>1, <2>3, <4>1, <4>2
    <3>2. /\ state' \in [Post -> {"unborn", "visible", "deleted", "gone"}]
          /\ about' \in [Post -> Exhibit \cup {NoExhibit}]
          /\ author' \in [Post -> Member \cup {NoMember}]
          /\ parent' \in [Post -> Post \cup {NoPost}]
      BY <1>2, <2>1, <2>2, <2>5, <2>6 DEF ThreadsTypeOK
    <3> QED
      BY <3>1, <3>2, DoneFacts DEF Write, ThreadsTypeOK, Request
  <2>10. (\A k \in Post : PostOK(k))'
    <3> SUFFICES ASSUME NEW k \in Post PROVE PostOK(k)'
      OBVIOUS
    <3>1. CASE k = n
      BY <3>1, <2>5, <1>2 DEF PostOK, Write, Stays
    <3>2. CASE k # n
      <4>1. k > written' <=> k > written
        BY <3>2, <2>1, <2>4, <1>2
      <4> QED
        BY <4>1, <3>2, <2>4 DEF PostOK, Write
    <3> QED
      BY <3>1, <3>2
  <2>11. OneLevelDeep'
    <3> SUFFICES ASSUME NEW k \in Post, state'[k] \in Stays, parent'[k] # NoPost
                 PROVE  /\ state'[parent'[k]] \in Stays /\ about'[parent'[k]] = about'[k]
                        /\ parent'[parent'[k]] = NoPost
      BY DEF OneLevelDeep, Stays
    <3>1. CASE k = n
      BY <3>1, <2>4, <2>5, <2>6
    <3>2. CASE k # n
      <4>1. state[k] \in Stays /\ parent'[k] = parent[k] /\ about'[k] = about[k]
        BY <3>2, <2>4
      <4>2. /\ state[parent[k]] \in Stays /\ about[parent[k]] = about[k]
            /\ parent[parent[k]] = NoPost /\ parent[k] \in Post /\ parent[k] # n
        BY <4>1, <2>7, <3>2 DEF ThreadInv, OneLevelDeep, ThreadsTypeOK, Stays
      <4> QED
        BY <4>1, <4>2, <2>4
    <3> QED
      BY <3>1, <3>2
  <2>12. RepliesGoWithRoot'
    <3> SUFFICES ASSUME NEW k \in Post \ late', state'[k] = "visible", parent'[k] # NoPost
                 PROVE  state'[parent'[k]] = "visible"
      BY DEF RepliesGoWithRoot
    <3>1. CASE k = n
      BY <3>1, <1>2, <2>1, <2>2, <2>4, <2>5, <2>6 DEF Stays
    <3>2. CASE k # n
      <4>1. k \notin late /\ state[k] = "visible" /\ parent'[k] = parent[k]
        BY <3>2, <2>4, <1>2
      <4>2. state[parent[k]] = "visible" /\ parent[k] \in Post /\ parent[k] # n
        BY <4>1, <2>7, <3>2 DEF ThreadInv, RepliesGoWithRoot, ThreadsTypeOK, Stays
      <4> QED
        BY <4>1, <4>2, <2>4
    <3> QED
      BY <3>1, <3>2
  <2>13. RowsHaveTheirGame'
    BY <1>2, <2>3, <2>4, <2>5 DEF Write, ThreadInv, RowsHaveTheirGame, Stays, ThreadsTypeOK
  <2> QED
    BY <2>8, <2>9, <2>10, <2>11, <2>12, <2>13 DEF ThreadInv
<1> QED
  BY <1>1, <1>2 DEF Write

----------------------------------------------------------------------------
(* The game's own life                                                     *)

LEMMA HideKeeps == ASSUME ThreadsIInv, NEW g \in Exhibit, Unpublish(g) PROVE ThreadsIInv'
<1> USE DEF ThreadsIInv
<1>1. /\ shelf' \in [Exhibit -> {"published", "hidden", "gone"}]
      /\ \A e \in Exhibit : /\ shelf'[e] = "gone" <=> shelf[e] = "gone"
                            /\ shelf[e] # "published" => shelf'[e] # "published"
  BY DEF Unpublish, ThreadsTypeOK
<1>2. ThreadsTypeOK'
  BY <1>1 DEF Unpublish, ThreadsTypeOK
<1>3. (\A k \in Post : PostOK(k))'
  BY <1>1 DEF Unpublish, PostOK
<1>4. \A c \in Caller : CallOK(c)' /\ HushedOK(c)'
  BY <1>1 DEF Unpublish, CallOK, HushedOK
<1>5. ThreadInv'
  <2>1. (OneLevelDeep /\ RepliesGoWithRoot)'
    BY DEF Unpublish, ThreadInv, OneLevelDeep, RepliesGoWithRoot
  <2>2. \A k \in Post : state[k] \in Stays => shelf'[about[k]] # "gone"
    BY <1>1 DEF PostOK
  <2>3. \A r \in marks : shelf'[r[3]] # "gone"
    BY <1>1 DEF ThreadsTypeOK, ThreadInv, RowsHaveTheirGame
  <2> QED
    BY <2>1, <2>2, <2>3 DEF Unpublish, ThreadInv, RowsHaveTheirGame, Stays
<1> QED
  BY <1>2, <1>3, <1>4, <1>5

LEMMA ShowKeeps == ASSUME ThreadsIInv, NEW g \in Exhibit, Publish(g) PROVE ThreadsIInv'
<1> USE DEF ThreadsIInv
<1>1. /\ shelf' \in [Exhibit -> {"published", "hidden", "gone"}]
      /\ \A e \in Exhibit : /\ shelf'[e] = "gone" <=> shelf[e] = "gone"
                            /\ e # g => shelf'[e] = shelf[e]
  BY DEF Publish, ThreadsTypeOK
<1>2. ThreadsTypeOK'
  BY <1>1 DEF Publish, ThreadsTypeOK
<1>3. (\A k \in Post : PostOK(k))'
  BY <1>1 DEF Publish, PostOK
<1>4. \A c \in Caller : CallOK(c)'
  BY DEF Publish, CallOK
<1>5. \A c \in Caller : HushedOK(c)'
  BY <1>1 DEF Publish, CallOK, HushedOK, Awake
<1>6. ThreadInv'
  <2>1. (OneLevelDeep /\ RepliesGoWithRoot)'
    BY DEF Publish, ThreadInv, OneLevelDeep, RepliesGoWithRoot
  <2>2. \A k \in Post : state[k] \in Stays => shelf'[about[k]] # "gone"
    BY <1>1 DEF PostOK
  <2>3. \A r \in marks : shelf'[r[3]] # "gone"
    BY <1>1 DEF ThreadsTypeOK, ThreadInv, RowsHaveTheirGame
  <2> QED
    BY <2>1, <2>2, <2>3 DEF Publish, ThreadInv, RowsHaveTheirGame, Stays
<1> QED
  BY <1>2, <1>3, <1>4, <1>5, <1>6

\* A game goes with all that is about it; a root and its replies are about one game.
LEMMA DeleteExhibitKeeps == ASSUME ThreadsIInv, NEW g \in Exhibit, DeleteExhibit(g) PROVE ThreadsIInv'
<1> USE DEF ThreadsIInv
<1>1. /\ shelf' \in [Exhibit -> {"published", "hidden", "gone"}]
      /\ \A e \in Exhibit : shelf'[e] = IF e = g THEN "gone" ELSE shelf[e]
  BY DEF DeleteExhibit, ThreadsTypeOK
<1>2. \A k \in Post : about[k] = g => /\ state'[k] = "gone" /\ parent'[k] = NoPost
  BY DEF DeleteExhibit
<1>3. \A k \in Post : about[k] # g => /\ state'[k] = state[k] /\ parent'[k] = parent[k]
  BY DEF DeleteExhibit
<1>4. ThreadsTypeOK'
  <2>1. /\ state' \in [Post -> {"unborn", "visible", "deleted", "gone"}]
        /\ author' \in [Post -> Member \cup {NoMember}]
        /\ parent' \in [Post -> Post \cup {NoPost}]
    BY DEF DeleteExhibit, ThreadsTypeOK
  <2>2. /\ hearts' \in SUBSET (Member \X Post)
        /\ marks' \in SUBSET (Marks \X Member \X Exhibit) /\ late' \in SUBSET Post
    BY DEF DeleteExhibit, ThreadsTypeOK
  <2> QED
    BY <1>1, <2>1, <2>2 DEF DeleteExhibit, ThreadsTypeOK
<1>5. (\A k \in Post : PostOK(k))'
  <2> SUFFICES ASSUME NEW k \in Post PROVE PostOK(k)'
    OBVIOUS
  <2>0. about' = about /\ written' = written
    BY DEF DeleteExhibit
  <2>1. CASE about[k] = g
    <3>1. state[k] # "unborn"
      BY <2>1, ThreadsAssumption DEF PostOK
    <3> QED
      BY <2>0, <2>1, <3>1, <1>1, <1>2 DEF PostOK, Stays
  <2>2. CASE about[k] # g
    BY <2>0, <2>2, <1>1, <1>3 DEF PostOK, Stays
  <2> QED
    BY <2>1, <2>2
<1>6. \A c \in Caller : CallOK(c)' /\ HushedOK(c)'
  <2> SUFFICES ASSUME NEW c \in Caller PROVE CallOK(c)' /\ HushedOK(c)'
    OBVIOUS
  <2>1. CallOK(c) /\ HushedOK(c) /\ UNCHANGED <<call, hushed, about, written>>
    BY DEF DeleteExhibit
  <2>2. CallOK(c)'
    BY <2>1, <1>2, <1>3 DEF CallOK
  <2>3. HushedOK(c)'
    BY <2>1, <1>1 DEF HushedOK, CallOK
  <2> QED
    BY <2>2, <2>3
<1>7. OneLevelDeep'
  <2> SUFFICES ASSUME NEW k \in Post, state'[k] \in Stays, parent'[k] # NoPost
               PROVE  /\ state'[parent'[k]] \in Stays /\ about[parent'[k]] = about[k]
                      /\ parent'[parent'[k]] = NoPost
    BY DEF OneLevelDeep, Stays, DeleteExhibit
  <2>1. about[k] # g /\ state[k] \in Stays /\ parent'[k] = parent[k]
    BY <1>2, <1>3
  <2>2. /\ state[parent[k]] \in Stays /\ about[parent[k]] = about[k]
        /\ parent[parent[k]] = NoPost /\ parent[k] \in Post
    BY <2>1 DEF ThreadInv, OneLevelDeep, Stays, ThreadsTypeOK
  <2> QED
    BY <2>1, <2>2, <1>3
<1>8. RepliesGoWithRoot'
  <2> SUFFICES ASSUME NEW k \in Post \ late', state'[k] = "visible", parent'[k] # NoPost
               PROVE  state'[parent'[k]] = "visible"
    BY DEF RepliesGoWithRoot
  <2>1. about[k] # g /\ state[k] = "visible" /\ parent'[k] = parent[k]
    BY <1>2, <1>3
  <2>2. k \notin late
    BY <2>1 DEF DeleteExhibit
  <2>3. state[parent[k]] = "visible" /\ about[parent[k]] = about[k] /\ parent[k] \in Post
    BY <2>1, <2>2 DEF ThreadInv, RepliesGoWithRoot, OneLevelDeep, ThreadsTypeOK
  <2> QED
    BY <2>1, <2>3, <1>3
<1>9. RowsHaveTheirGame'
  <2>1. \A k \in Post : state'[k] \in Stays => shelf'[about[k]] # "gone"
    BY <1>1, <1>2, <1>3 DEF PostOK, Stays
  <2>2. \A r \in marks' : shelf'[r[3]] # "gone"
    BY <1>1 DEF DeleteExhibit, ThreadsTypeOK, ThreadInv, RowsHaveTheirGame
  <2>3. \A h \in hearts' : state'[h[2]] \in Stays
    BY <1>3 DEF DeleteExhibit, ThreadsTypeOK, ThreadInv, RowsHaveTheirGame, Stays
  <2> QED
    BY <2>1, <2>2, <2>3 DEF RowsHaveTheirGame, Stays, DeleteExhibit
<1> QED
  BY <1>4, <1>5, <1>6, <1>7, <1>8, <1>9 DEF ThreadInv

----------------------------------------------------------------------------
(* Theorems                                                                *)

LEMMA ThreadsNextIInv == ThreadsIInv /\ [ThreadsNext]_threadsVars => ThreadsIInv'
<1> SUFFICES ASSUME ThreadsIInv, [ThreadsNext]_threadsVars PROVE ThreadsIInv'
  OBVIOUS
<1>1. CASE UNCHANGED threadsVars
  BY <1>1 DEF threadsVars, threadRows, ThreadsIInv, ThreadsTypeOK, PostOK, CallOK, HushedOK, ThreadInv,
              OneLevelDeep, RepliesGoWithRoot, RowsHaveTheirGame
<1>2. ASSUME NEW c \in Caller, NEW g \in Exhibit, Arrive(c, g) PROVE ThreadsIInv'
  BY <1>2, ArriveKeeps
<1>3. ASSUME NEW c \in Caller,
             Resolve(c) \/ Mark(c) \/ Check(c) \/ Write(c) \/ Delete(c) \/ Heart(c)
      PROVE  ThreadsIInv'
  BY <1>3, ResolveKeeps, MarkKeeps, CheckKeeps, WriteKeeps, DeletePostKeeps, HeartKeeps
<1>4. ASSUME NEW m \in Fan, NEW g \in Exhibit,
             AddFavorite(m, g) \/ RemoveFavorite(m, g) \/ RecordLaunch(m, g)
      PROVE  ThreadsIInv'
  BY <1>4, ShelfMarksKeep
<1>5. ASSUME NEW g \in Exhibit, Unpublish(g) \/ Publish(g) \/ DeleteExhibit(g) PROVE ThreadsIInv'
  BY <1>5, HideKeeps, ShowKeeps, DeleteExhibitKeeps
<1> QED
  BY <1>1, <1>2, <1>3, <1>4, <1>5 DEF ThreadsNext

\* The invariant that carries the rest: a request's reading of its comment stays true of
\* the game and the place in the thread, and a hidden game's late arrivals wait at the door.
THEOREM ThreadsInvariant == ThreadsSpec => []ThreadsIInv
<1>1. ThreadsInit => ThreadsIInv
  BY ThreadsInitIInv
<1>2. ThreadsIInv /\ [ThreadsNext]_threadsVars => ThreadsIInv'
  BY ThreadsNextIInv
<1> QED
  BY <1>1, <1>2, PTL DEF ThreadsSpec

\* The rows and the requests have their types.
THEOREM ThreadsTypeCorrect == ThreadsSpec => []ThreadsTypeOK
<1>1. ThreadsIInv => ThreadsTypeOK
  BY DEF ThreadsIInv
<1> QED
  BY <1>1, ThreadsInvariant, PTL

\* Discussions are one level deep, replies go with their root unless they were under way,
\* and no row outlives its game or its comment (game_social.go, the foreign keys of store.go).
THEOREM ThreadsCorrect == ThreadsSpec => []ThreadInv
<1>1. ThreadsIInv => ThreadInv
  BY DEF ThreadsIInv
<1> QED
  BY <1>1, ThreadsInvariant, PTL

\* A request that found its game hidden, and during which the game stays so, writes nothing
\* (publishedGameID in httpapi/game_social.go).
THEOREM HiddenGamesAreQuiet == ThreadsSpec => QuietWhileHidden
<1>1. ThreadsIInv /\ [ThreadsNext]_threadsVars => [HushedWriteNothing]_threadsVars
  <2> SUFFICES ASSUME ThreadsIInv, ThreadsNext, NEW c \in hushed, call'[c] # call[c]
               PROVE  UNCHANGED <<state, hearts, marks>>
    BY DEF HushedWriteNothing
  <2>1. c \in Caller /\ call[c].stage = "arrived"
    BY DEF ThreadsIInv, HushedOK, ThreadsTypeOK
  <2>2. ASSUME NEW d \in Caller, NEW g \in Exhibit, Arrive(d, g)
        PROVE  UNCHANGED <<state, hearts, marks>>
    BY <2>2 DEF Arrive, threadRows
  <2>3. ASSUME NEW d \in Caller, Resolve(d) \/ Check(d)
        PROVE  UNCHANGED <<state, hearts, marks>>
    BY <2>3 DEF Resolve, Check, threadRows
  <2>4. ASSUME NEW d \in Caller, Mark(d) \/ Write(d) \/ Delete(d) \/ Heart(d)
        PROVE  call'[c] = call[c]
    <3>1. d # c
      BY <2>1, <2>4 DEF Mark, Write, Delete, Heart
    <3>2. Done(d)
      BY <2>4 DEF Mark, Write, Delete, Heart
    <3> QED
      BY <2>1, <3>1, <3>2, DoneFacts
  <2>5. ASSUME NEW m \in Fan, NEW g \in Exhibit,
               AddFavorite(m, g) \/ RemoveFavorite(m, g) \/ RecordLaunch(m, g)
        PROVE  call'[c] = call[c]
    BY <2>5 DEF AddFavorite, RemoveFavorite, RecordLaunch
  <2>6. ASSUME NEW g \in Exhibit, Unpublish(g) \/ Publish(g) \/ DeleteExhibit(g)
        PROVE  call'[c] = call[c]
    BY <2>6 DEF Unpublish, Publish, DeleteExhibit
  <2> QED
    BY <2>2, <2>3, <2>4, <2>5, <2>6 DEF ThreadsNext
<1> QED
  BY <1>1, ThreadsInvariant, PTL DEF ThreadsSpec, QuietWhileHidden

----------------------------------------------------------------------------
(* Moderation                                                              *)

\* The rows agree with each other and with the history of decisions: a report
\* carries the last decision about it.
AppealRowOK(a) == /\ a <= filed <=> appealOf[a] # NoReport
                  /\ appeal[a] # "none" => a <= filed

ReportOK(r) ==
  /\ report[r] = "none" => resolution[r] = None
  /\ resolution[r] # None => resolution[r] <= decided /\ subject[resolution[r]] = r
  /\ report[r] \in Verdicts => resolution[r] # None /\ verdict[resolution[r]] = report[r]

DecisionOK(d) ==
  d <= decided => /\ subject[d] \in Report /\ verdict[d] \in Verdicts
                  /\ resolution[subject[d]] >= d

RowInv == /\ \A a \in Appeal : AppealRowOK(a)
          /\ \A r \in Report : ReportOK(r)
          /\ \A d \in Decision : DecisionOK(d)

\* A request that tells of a decision is the only one that does, and what it has
\* read is not older; a request that appeals has read a verdict that was given.
Telling(h) == job[h].doing \in {"reread", "notify"}

Given(r, v) == \E d \in Decision : d <= decided /\ subject[d] = r /\ verdict[d] = v

JobOK(h) ==
  /\ job[h].decision # None <=> Telling(h)
  /\ Telling(h) => /\ job[h].decision <= decided
                   /\ job[h].seen = verdict[job[h].decision]
                   /\ job[h].report = subject[job[h].decision]
  /\ job[h].doing = "notify" => /\ job[h].text \in Decision /\ job[h].text <= decided
                                /\ job[h].text >= job[h].decision
                                /\ subject[job[h].text] = job[h].report
  /\ job[h].doing \in {"asked", "insert"} =>
       job[h].report \in Report /\ Given(job[h].report, job[h].seen)

JobInv == /\ \A h \in Handler : JobOK(h)
          /\ \A h, i \in Handler : job[h].decision = job[i].decision /\ Telling(h) => h = i

ReopenInv ==
  \A r \in Report : report[r] = "pending" /\ resolution[r] # None =>
    \E a \in Appeal : appealOf[a] = r /\ appeal[a] = "accepted"
VerdictInv == \A a \in Appeal : a <= filed => Given(appealOf[a], appealed[a])

ToldInv ==
  /\ \A d \in Decision : d <= decided => Owed(d) \/ d \in failed \/ \E n \in notices : n[1] = d
  /\ \A n \in notices : /\ n[1] <= decided /\ n[3] <= decided
                        /\ n[2] = verdict[n[1]] /\ n[4] = subject[n[1]]
                        /\ n[3] >= n[1] /\ subject[n[3]] = n[4]
                        /\ ~Owed(n[1])
  /\ \A m, n \in notices : m[1] = n[1] => m = n

ModerationIInv ==
  /\ ModerationTypeOK /\ RowInv /\ JobInv /\ OneAppealPerReport /\ ReopenInv
  /\ VerdictInv /\ ToldInv

LEMMA ModerationInitIInv == ModerationInit => ModerationIInv
BY ModerationAssumption
   DEF ModerationInit, ModerationIInv, ModerationTypeOK, RowInv, AppealRowOK, ReportOK, DecisionOK, JobInv,
       JobOK, OneAppealPerReport, ReopenInv, VerdictInv, ToldInv, Telling, Free, Decision, Appeal, None, Verdicts

\* A decision is new: nothing has told of it, and it replaces what was decided.
LEMMA DecideKeeps ==
  ASSUME ModerationIInv, NEW h \in Handler, NEW r \in Report, NEW v \in Verdicts, DecideReport(h, r, v)
  PROVE  ModerationIInv'
<1> USE DEF ModerationIInv
<1>1. PICK d \in Decision : d = decided + 1
  BY ModerationAssumption DEF DecideReport, ModerationTypeOK, Decision
<1>2. /\ job[h] = Free /\ report[r] # "none"
      /\ report' = [report EXCEPT ![r] = v]
      /\ resolution' = [resolution EXCEPT ![r] = d]
      /\ decided' = d
      /\ verdict' = [verdict EXCEPT ![d] = v]
      /\ subject' = [subject EXCEPT ![d] = r]
      /\ job' = [job EXCEPT ![h] = [Free EXCEPT !.doing = "reread", !.report = r,
                                                !.decision = d, !.seen = v]]
      /\ UNCHANGED <<appealOf, appealed, appeal, filed, notices, failed>>
  BY <1>1 DEF DecideReport
<1>3. /\ d \in Nat /\ decided \in Nat /\ None \notin Decision /\ d # None
      /\ \A x \in Decision : x \in Nat /\ (x <= d <=> x <= decided \/ x = d)
      /\ v \in Verdicts /\ v # "pending" /\ v # "none"
  BY <1>1, ModerationAssumption DEF ModerationTypeOK, Decision, None, Verdicts
<1>4. /\ job' \in [Handler -> [doing : {"idle", "reread", "notify", "asked", "insert"},
                               report : Report \cup {NoReport}, decision : Decision \cup {None},
                               seen : Verdicts \cup {"none"}, text : Decision \cup {None}]]
      /\ \A i \in Handler : i # h => job'[i] = job[i]
      /\ job'[h].doing = "reread" /\ job'[h].report = r /\ job'[h].decision = d
      /\ job'[h].seen = v
  BY <1>2, <1>3 DEF ModerationTypeOK, Free
<1>5. ModerationTypeOK'
  BY <1>2, <1>3, <1>4, ModerationAssumption DEF ModerationTypeOK, Decision
<1>6. RowInv'
  <2>1. \A a \in Appeal : AppealRowOK(a)'
    BY <1>2 DEF RowInv, AppealRowOK
  <2>2. ASSUME NEW q \in Report
        PROVE  ReportOK(q)'
    <3>1. CASE q = r
      BY <1>2, <1>3, <3>1 DEF ModerationTypeOK, ReportOK
    <3>2. CASE q # r
      <4>1. /\ report'[q] = report[q] /\ resolution'[q] = resolution[q] /\ ReportOK(q)
            /\ resolution[q] \in Decision \cup {None}
        BY <1>2, <3>2 DEF ModerationTypeOK, RowInv
      <4>2. resolution[q] # None => /\ resolution[q] \in Decision /\ resolution[q] <= decided
                                    /\ resolution[q] # d
        BY <1>1, <1>3, <4>1 DEF ReportOK
      <4>3. resolution[q] # None => /\ subject'[resolution[q]] = subject[resolution[q]]
                                    /\ verdict'[resolution[q]] = verdict[resolution[q]]
                                    /\ resolution[q] <= decided'
        BY <1>2, <1>3, <4>2 DEF ModerationTypeOK
      <4> QED
        BY <4>1, <4>3 DEF ReportOK
    <3> QED
      BY <3>1, <3>2
  <2>3. ASSUME NEW x \in Decision
        PROVE  DecisionOK(x)'
    BY <1>2, <1>3 DEF ModerationTypeOK, RowInv, DecisionOK
  <2> QED
    BY <2>1, <2>2, <2>3 DEF RowInv
<1>7. \A x \in Decision : x <= decided => subject'[x] = subject[x] /\ verdict'[x] = verdict[x]
  BY <1>1, <1>2, <1>3 DEF ModerationTypeOK
<1>8. \A q, w : Given(q, w) => Given(q, w)'
  BY <1>2, <1>3, <1>7 DEF Given
<1>9. JobInv'
  <2>1. ASSUME NEW i \in Handler
        PROVE  JobOK(i)'
    <3>1. CASE i = h
      BY <1>2, <1>3, <1>4, <3>1 DEF ModerationTypeOK, JobOK, Telling
    <3>2. CASE i # h
      <4>1. /\ job'[i] = job[i] /\ job[i].decision \in Decision \cup {None}
            /\ job[i].text \in Decision \cup {None} /\ JobOK(i)
        BY <1>4, <3>2 DEF ModerationTypeOK, JobInv
      <4>2. /\ job[i].decision # None =>
                 /\ job[i].decision <= decided => job[i].decision <= decided'
                 /\ job[i].decision <= decided =>
                      /\ subject'[job[i].decision] = subject[job[i].decision]
                      /\ verdict'[job[i].decision] = verdict[job[i].decision]
            /\ job[i].text \in Decision /\ job[i].text <= decided =>
                 job[i].text <= decided' /\ subject'[job[i].text] = subject[job[i].text]
        BY <1>2, <1>3, <1>7, <4>1
      <4>3. Given(job[i].report, job[i].seen) => Given(job[i].report, job[i].seen)'
        BY <1>2, <1>3, <1>7, <4>1 DEF Given
      <4> QED
        BY <4>1, <4>2, <4>3 DEF JobOK, Telling
    <3> QED
      BY <3>1, <3>2
  <2>2. ASSUME NEW i \in Handler, NEW j \in Handler, job'[i].decision = job'[j].decision,
               Telling(i)'
        PROVE  i = j
    <3>1. \A k \in Handler : job[k].decision # d
      BY <1>1, <1>3 DEF JobInv, JobOK, Telling, ModerationTypeOK
    <3> QED
      BY <1>4, <2>2, <3>1 DEF JobInv, Telling
  <2> QED
    BY <2>1, <2>2 DEF JobInv, Telling
<1>10. OneAppealPerReport'
  BY <1>2 DEF OneAppealPerReport
<1>11. ReopenInv'
  BY <1>2, <1>3 DEF ReopenInv, ModerationTypeOK
<1>12. VerdictInv'
  BY <1>2, <1>8 DEF VerdictInv
<1>13. ToldInv'
  <2>1. /\ Owed(d)'
        /\ \A x \in Decision : x # d => (Owed(x)' <=> Owed(x))
    BY <1>2, <1>3, <1>4 DEF Owed, Free
  <2>2. \A n \in notices : n[1] \in Decision /\ n[3] \in Decision /\ n[1] # d /\ n[3] # d
    BY <1>1, <1>3 DEF ToldInv, ModerationTypeOK
  <2> QED
    BY <1>2, <1>3, <1>7, <2>1, <2>2 DEF ToldInv
<1> QED
  BY <1>5, <1>6, <1>9, <1>10, <1>11, <1>12, <1>13

\* A request ends without changing rows, and owes nothing or has failed to tell.
LEMMA EndKeeps ==
  ASSUME ModerationIInv, NEW h \in Handler, NEW new, job' = [job EXCEPT ![h] = new],
         new \in [doing : {"idle", "asked", "insert"}, report : Report \cup {NoReport},
                  decision : {None}, seen : Verdicts \cup {"none"}, text : Decision \cup {None}],
         new.doing \in {"asked", "insert"} =>
           new.report \in Report /\ Given(new.report, new.seen),
         UNCHANGED <<moderationRows, verdict, subject>>,
         failed' \in SUBSET Decision, failed \subseteq failed',
         job[h].decision # None => job[h].decision \in failed'
  PROVE  ModerationIInv'
<1> USE DEF ModerationIInv, moderationRows
<1>1. /\ None \notin Decision
      /\ \A i \in Handler : job'[i] = IF i = h THEN new ELSE job[i]
  BY ModerationAssumption DEF ModerationTypeOK, None, Decision
<1>2. ModerationTypeOK'
  BY DEF ModerationTypeOK
<1>3. RowInv' /\ OneAppealPerReport' /\ ReopenInv'
  BY DEF RowInv, AppealRowOK, ReportOK, DecisionOK, OneAppealPerReport, ReopenInv
<1>4. \A q, w : Given(q, w) <=> Given(q, w)'
  BY DEF Given
<1>5. VerdictInv'
  BY <1>4 DEF VerdictInv
<1>6. JobInv'
  <2>1. ASSUME NEW i \in Handler
        PROVE  JobOK(i)'
    <3>1. CASE i = h
      <4>1. Given(new.report, new.seen) => Given(new.report, new.seen)'
        BY DEF Given
      <4> QED
        BY <1>1, <3>1, <4>1 DEF JobOK, Telling
    <3>2. CASE i # h
      <4>1. job'[i] = job[i] /\ JobOK(i)
        BY <1>1, <3>2 DEF JobInv
      <4>2. Given(job[i].report, job[i].seen) => Given(job[i].report, job[i].seen)'
        BY <4>1 DEF Given
      <4> QED
        BY <4>1, <4>2 DEF JobOK, Telling
    <3> QED
      BY <3>1, <3>2
  <2>2. \A i, j \in Handler : job'[i].decision = job'[j].decision /\ Telling(i)' => i = j
    BY <1>1 DEF JobInv, JobOK, Telling
  <2> QED
    BY <2>1, <2>2 DEF JobInv, Telling
<1>7. ToldInv'
  <2>1. \A x \in Decision : /\ Owed(x)' => Owed(x)
                            /\ Owed(x) => Owed(x)' \/ x \in failed'
    BY <1>1 DEF Owed
  <2>2. \A n \in notices : n[1] \in Decision
    BY DEF ModerationTypeOK
  <2> QED
    BY <2>1, <2>2 DEF ToldInv
<1> QED
  BY <1>2, <1>3, <1>5, <1>6, <1>7

\* The explanation read back belongs to the same report and is not older.
LEMMA RereadKeeps ==
  ASSUME ModerationIInv, NEW h \in Handler, RereadReport(h)
  PROVE  ModerationIInv'
<1> USE DEF ModerationIInv, moderationRows
<1> DEFINE d == job[h].decision
           x == resolution[job[h].report]
<1>1. /\ job[h].doing = "reread" /\ d \in Decision /\ d <= decided
      /\ job[h].seen = verdict[d] /\ job[h].report = subject[d] /\ JobOK(h)
  <2>1. JobOK(h) /\ job[h].doing = "reread" /\ d \in Decision \cup {None}
    BY DEF RereadReport, JobInv, ModerationTypeOK
  <2> QED
    BY <2>1 DEF JobOK, Telling
<1>2. /\ subject[d] \in Report /\ x >= d /\ ReportOK(subject[d])
  BY <1>1 DEF RowInv, DecisionOK
<1>3. x \in Decision /\ x <= decided /\ subject[x] = subject[d]
  <2>1. x \in Decision \cup {None} /\ None \notin Decision /\ ~(None >= d)
    BY <1>1, <1>2, ModerationAssumption DEF ModerationTypeOK, None, Decision
  <2> QED
    BY <1>1, <1>2, <2>1 DEF ReportOK
<1>4. /\ UNCHANGED <<moderationRows, verdict, subject, failed>>
      /\ \A i \in Handler :
           /\ job'[i].decision = job[i].decision /\ job'[i].seen = job[i].seen
           /\ job'[i].report = job[i].report
           /\ job'[i].doing = IF i = h THEN "notify" ELSE job[i].doing
           /\ job'[i].text = IF i = h THEN x ELSE job[i].text
      /\ job' \in [Handler -> [doing : {"idle", "reread", "notify", "asked", "insert"},
                               report : Report \cup {NoReport}, decision : Decision \cup {None},
                               seen : Verdicts \cup {"none"}, text : Decision \cup {None}]]
  <2>1. /\ job' = [job EXCEPT ![h] = [job[h] EXCEPT !.doing = "notify", !.text = x]]
        /\ UNCHANGED <<moderationRows, verdict, subject, failed>>
    BY DEF RereadReport
  <2>2. PICK new : new = [job[h] EXCEPT !.doing = "notify", !.text = x]
    OBVIOUS
  <2>3. /\ new \in [doing : {"idle", "reread", "notify", "asked", "insert"},
                    report : Report \cup {NoReport}, decision : Decision \cup {None},
                    seen : Verdicts \cup {"none"}, text : Decision \cup {None}]
        /\ new.decision = d /\ new.seen = job[h].seen /\ new.report = job[h].report
        /\ new.doing = "notify" /\ new.text = x
    <3>1. PICK old \in [doing : {"idle", "reread", "notify", "asked", "insert"},
                         report : Report \cup {NoReport}, decision : Decision \cup {None},
                         seen : Verdicts \cup {"none"}, text : Decision \cup {None}] : old = job[h]
      BY DEF ModerationTypeOK
    <3>2. new = [old EXCEPT !.doing = "notify", !.text = x]
      BY <2>2, <3>1
    <3> HIDE DEF x
    <3> QED
      BY <1>3, <3>1, <3>2
  <2> QED
    BY <2>1, <2>2, <2>3 DEF ModerationTypeOK
<1> HIDE DEF d, x
<1>5. ModerationTypeOK' /\ RowInv' /\ OneAppealPerReport' /\ ReopenInv'
  BY <1>4
     DEF ModerationTypeOK, RowInv, AppealRowOK, ReportOK, DecisionOK, OneAppealPerReport, ReopenInv
<1>6. VerdictInv'
  BY <1>4 DEF VerdictInv, Given
<1>7. JobInv'
  <2>1. ASSUME NEW i \in Handler
        PROVE  JobOK(i)'
    <3>1. CASE i = h
      BY <1>1, <1>2, <1>3, <1>4, <3>1 DEF JobOK, Telling, d
    <3>2. CASE i # h
      <4>1. JobOK(i)
        BY DEF JobInv
      <4>2. Given(job[i].report, job[i].seen) => Given(job[i].report, job[i].seen)'
        BY <1>4 DEF Given
      <4> QED
        BY <1>4, <3>2, <4>1, <4>2 DEF JobOK, Telling
    <3> QED
      BY <3>1, <3>2
  <2>2. \A i, j \in Handler : job'[i].decision = job'[j].decision /\ Telling(i)' => i = j
    BY <1>1, <1>4 DEF JobInv, Telling
  <2> QED
    BY <2>1, <2>2 DEF JobInv, Telling
<1>8. ToldInv'
  BY <1>4 DEF ToldInv, Owed
<1> QED
  BY <1>5, <1>6, <1>7, <1>8

\* The one request that tells of a decision tells of it and is done.
LEMMA NotifyKeeps ==
  ASSUME ModerationIInv, NEW h \in Handler, NotifyReporter(h)
  PROVE  ModerationIInv'
<1> USE DEF ModerationIInv
<1>a. PICK d \in Decision : d = job[h].decision
  BY DEF NotifyReporter, JobInv, JobOK, Telling, ModerationTypeOK
<1>b. PICK n : n = <<d, job[h].seen, job[h].text, job[h].report>>
  OBVIOUS
<1>1. /\ job[h].doing = "notify" /\ d <= decided
      /\ job[h].seen = verdict[d] /\ job[h].report = subject[d] /\ subject[d] \in Report
      /\ verdict[d] \in Verdicts
      /\ job[h].text \in Decision /\ job[h].text <= decided /\ job[h].text >= d
      /\ subject[job[h].text] = job[h].report
  <2>1. JobOK(h) /\ job[h].doing = "notify"
    BY DEF NotifyReporter, JobInv
  <2>2. d <= decided /\ DecisionOK(d)
    BY <1>a, <2>1 DEF JobOK, Telling, RowInv
  <2> QED
    BY <1>a, <2>1, <2>2 DEF JobOK, Telling, DecisionOK
<1>2. /\ notices' = notices \cup {n}
      /\ job' = [job EXCEPT ![h] = Free]
      /\ UNCHANGED <<report, resolution, appealOf, appealed, appeal, decided, filed, verdict,
                     subject, failed>>
  BY <1>a, <1>b DEF NotifyReporter
<1>3. /\ \A i \in Handler : job'[i] = IF i = h THEN Free ELSE job[i]
      /\ Free.decision = None /\ Free.doing = "idle" /\ None \notin Decision
      /\ Free \in [doing : {"idle", "reread", "notify", "asked", "insert"},
                   report : Report \cup {NoReport}, decision : Decision \cup {None},
                   seen : Verdicts \cup {"none"}, text : Decision \cup {None}]
  BY <1>2, ModerationAssumption DEF ModerationTypeOK, Free, None, Decision
<1>4. ModerationTypeOK' /\ RowInv' /\ OneAppealPerReport' /\ ReopenInv'
  <2>1. n \in Decision \X Verdicts \X Decision \X Report
    BY <1>1, <1>b
  <2> QED
    BY <1>2, <1>3, <2>1
       DEF ModerationTypeOK, RowInv, AppealRowOK, ReportOK, DecisionOK, OneAppealPerReport,
           ReopenInv
<1>5. VerdictInv'
  BY <1>2 DEF VerdictInv, Given
<1>6. JobInv'
  <2>1. ASSUME NEW i \in Handler
        PROVE  JobOK(i)'
    <3>1. CASE i = h
      BY <1>3, <3>1 DEF JobOK, Telling
    <3>2. CASE i # h
      <4>1. JobOK(i) /\ job'[i] = job[i]
        BY <1>3, <3>2 DEF JobInv
      <4>2. Given(job[i].report, job[i].seen) => Given(job[i].report, job[i].seen)'
        BY <1>2, <4>1 DEF Given
      <4> QED
        BY <1>2, <4>1, <4>2 DEF JobOK, Telling
    <3> QED
      BY <3>1, <3>2
  <2>2. \A i, j \in Handler : job'[i].decision = job'[j].decision /\ Telling(i)' => i = j
    BY <1>3 DEF JobInv, JobOK, Telling
  <2> QED
    BY <2>1, <2>2 DEF JobInv, Telling
<1>7. ToldInv'
  <2>1. /\ \A x \in Decision : /\ Owed(x)' => Owed(x)
                               /\ Owed(x) => Owed(x)' \/ x = d
        /\ ~Owed(d)'
    BY <1>a, <1>1, <1>3 DEF Owed, JobInv, Telling
  <2>2. \A m \in notices : m[1] \in Decision /\ m[1] # d
    <3>1. Owed(d)
      BY <1>a DEF Owed
    <3> QED
      BY <3>1 DEF ModerationTypeOK, ToldInv
  <2>3. \A x \in Decision : x <= decided' =>
          Owed(x)' \/ x \in failed' \/ \E m \in notices' : m[1] = x
    BY <1>2, <1>b, <2>1 DEF ToldInv
  <2>4. \A m \in notices' : /\ m[1] <= decided' /\ m[3] <= decided'
                            /\ m[2] = verdict'[m[1]] /\ m[4] = subject'[m[1]]
                            /\ m[3] >= m[1] /\ subject'[m[3]] = m[4]
                            /\ ~Owed(m[1])'
    <3> SUFFICES ASSUME NEW m \in notices'
                 PROVE  /\ m[1] <= decided' /\ m[3] <= decided'
                        /\ m[2] = verdict'[m[1]] /\ m[4] = subject'[m[1]]
                        /\ m[3] >= m[1] /\ subject'[m[3]] = m[4]
                        /\ \A i \in Handler : job'[i].decision # m[1]
      BY DEF Owed
    <3>1. CASE m \in notices
      BY <1>1, <1>2, <1>3, <2>2, <3>1 DEF ToldInv, Owed
    <3>2. CASE m = n
      BY <1>1, <1>2, <1>b, <2>1, <3>2 DEF Owed
    <3> QED
      BY <1>2, <3>1, <3>2
  <2>5. \A m, k \in notices' : m[1] = k[1] => m = k
    BY <1>2, <1>b, <2>2 DEF ToldInv
  <2> QED
    BY <2>3, <2>4, <2>5 DEF ToldInv, Owed
<1> QED
  BY <1>4, <1>5, <1>6, <1>7

\* An appeal is filed with a verdict that was given, where there is none yet.
LEMMA InsertKeeps ==
  ASSUME ModerationIInv, NEW h \in Handler, InsertAppeal(h)
  PROVE  ModerationIInv'
<1> USE DEF ModerationIInv
<1>1. /\ job[h].doing = "insert" /\ JobOK(h) /\ job[h].report \in Report
      /\ Given(job[h].report, job[h].seen)
      /\ job[h].seen \in Verdicts
  <2>1. job[h].doing = "insert" /\ JobOK(h)
    BY DEF InsertAppeal, JobInv
  <2>2. Given(job[h].report, job[h].seen)
    BY <2>1 DEF JobOK
  <2> QED
    BY <2>1, <2>2 DEF JobOK, Given, RowInv, DecisionOK
<1>2. /\ Free \in [doing : {"idle", "asked", "insert"}, report : Report \cup {NoReport},
                   decision : {None}, seen : Verdicts \cup {"none"},
                   text : Decision \cup {None}]
      /\ Free.doing = "idle" /\ job[h].decision = None /\ Free.decision = None
  BY <1>1 DEF Free, JobOK, Telling
<1>3. CASE ~UniqueAppeal(job[h].report)
  <2>1. job' = [job EXCEPT ![h] = Free] /\ UNCHANGED <<moderationRows, verdict, subject, failed>>
    BY <1>3 DEF InsertAppeal, moderationRows
  <2> QED
    BY <1>2, <2>1, EndKeeps DEF ModerationTypeOK
<1>4. CASE UniqueAppeal(job[h].report)
  <2>1. PICK a \in Appeal : a = filed + 1
    BY <1>4, ModerationAssumption DEF InsertAppeal, ModerationTypeOK, Appeal
  <2>2. PICK r \in Report : r = job[h].report
    BY <1>1
  <2>3. PICK v \in Verdicts : v = job[h].seen
    BY <1>1
  <2>4. /\ filed' = a
        /\ appealOf' = [appealOf EXCEPT ![a] = r]
        /\ appealed' = [appealed EXCEPT ![a] = v]
        /\ appeal' = [appeal EXCEPT ![a] = "pending"]
        /\ job' = [job EXCEPT ![h] = Free]
        /\ UNCHANGED <<report, resolution, decided, notices, verdict, subject, failed>>
    BY <1>4, <2>1, <2>2, <2>3 DEF InsertAppeal
  <2>5. /\ a \notin 0 .. filed /\ appealOf[a] = NoReport
        /\ \A b \in Appeal : b <= a <=> b <= filed \/ b = a
        /\ \A b \in Appeal : appealOf[b] # r
        /\ NoReport # r
    BY <1>4, <2>1, <2>2, ModerationAssumption
       DEF RowInv, AppealRowOK, UniqueAppeal, AppealRow, Appeal, ModerationTypeOK
  <2>6. \A i \in Handler : job'[i] = IF i = h THEN Free ELSE job[i]
    BY <2>4 DEF ModerationTypeOK
  <2>7. ModerationTypeOK'
    BY <1>2, <2>1, <2>4, ModerationAssumption DEF ModerationTypeOK, Appeal
  <2>8. RowInv'
    <3>1. ASSUME NEW b \in Appeal
          PROVE  AppealRowOK(b)'
      BY <2>4, <2>5 DEF RowInv, AppealRowOK, ModerationTypeOK
    <3> QED
      BY <2>4, <3>1 DEF RowInv, ReportOK, DecisionOK
  <2>9. OneAppealPerReport'
    BY <2>4, <2>5 DEF OneAppealPerReport, ModerationTypeOK
  <2>10. ReopenInv'
    BY <2>4, <2>5, ModerationAssumption DEF ReopenInv, ModerationTypeOK
  <2>11. VerdictInv'
    <3>1. \A q, w : Given(q, w) <=> Given(q, w)'
      BY <2>4 DEF Given
    <3>2. ASSUME NEW b \in Appeal, b <= filed'
          PROVE  Given(appealOf[b], appealed[b])'
      <4>1. CASE b = a
        <5>1. appealOf'[b] = r /\ appealed'[b] = v
          BY <2>4, <4>1 DEF ModerationTypeOK
        <5> QED
          BY <1>1, <2>2, <2>3, <2>4, <5>1 DEF Given
      <4>2. CASE b # a
        <5>1. appealOf'[b] = appealOf[b] /\ appealed'[b] = appealed[b] /\ b <= filed
          BY <2>4, <2>5, <3>2, <4>2 DEF ModerationTypeOK
        <5> QED
          BY <2>4, <5>1 DEF Given, VerdictInv
      <4> QED
        BY <4>1, <4>2
    <3> QED
      BY <3>2 DEF VerdictInv
  <2>12. JobInv'
    <3>1. ASSUME NEW i \in Handler
          PROVE  JobOK(i)'
      <4>1. CASE i = h
        BY <1>2, <2>6, <4>1 DEF JobOK, Telling
      <4>2. CASE i # h
        <5>1. JobOK(i) /\ job'[i] = job[i]
          BY <2>6, <4>2 DEF JobInv
        <5>2. Given(job[i].report, job[i].seen) => Given(job[i].report, job[i].seen)'
          BY <2>4, <5>1 DEF Given
        <5> QED
          BY <2>4, <5>1, <5>2 DEF JobOK, Telling
      <4> QED
        BY <4>1, <4>2
    <3>2. \A i, j \in Handler : job'[i].decision = job'[j].decision /\ Telling(i)' => i = j
      BY <1>2, <2>6 DEF JobInv, JobOK, Telling
    <3> QED
      BY <3>1, <3>2 DEF JobInv, Telling
  <2>13. ToldInv'
    <3>1. \A x \in Decision : Owed(x) <=> Owed(x)'
      BY <1>2, <2>6, ModerationAssumption DEF Owed, Decision, None
    <3>2. \A n \in notices : n[1] \in Decision
      BY DEF ModerationTypeOK
    <3> QED
      BY <2>4, <3>1, <3>2 DEF ToldInv
  <2> QED
    BY <2>7, <2>8, <2>9, <2>10, <2>11, <2>12, <2>13
<1> QED
  BY <1>3, <1>4

LEMMA ModerationNextIInv == ModerationIInv /\ [ModerationNext]_moderationVars => ModerationIInv'
<1> SUFFICES ASSUME ModerationIInv, [ModerationNext]_moderationVars
             PROVE  ModerationIInv'
  OBVIOUS
<1> USE DEF ModerationIInv
<1>1. ASSUME NEW r \in Report, CreateReport(r)
      PROVE  ModerationIInv'
  <2>1. /\ report[r] = "none" /\ report' = [report EXCEPT ![r] = "pending"]
        /\ UNCHANGED <<resolution, appealOf, appealed, appeal, decided, filed, notices, job,
                       verdict, subject, failed>>
    BY <1>1 DEF CreateReport
  <2>2. resolution[r] = None
    BY <2>1 DEF RowInv, ReportOK
  <2>3. ModerationTypeOK' /\ OneAppealPerReport'
    BY <2>1 DEF ModerationTypeOK, OneAppealPerReport
  <2>4. RowInv'
    <3>1. ASSUME NEW q \in Report
          PROVE  ReportOK(q)'
      BY <2>1, <2>2 DEF RowInv, ReportOK, ModerationTypeOK, Verdicts
    <3> QED
      BY <2>1, <3>1 DEF RowInv, AppealRowOK, DecisionOK
  <2>5. JobInv' /\ VerdictInv' /\ ToldInv'
    BY <2>1 DEF JobInv, JobOK, Telling, Given, VerdictInv, ToldInv, Owed
  <2>6. ReopenInv'
    BY <2>1, <2>2 DEF ReopenInv, ModerationTypeOK
  <2> QED
    BY <2>3, <2>4, <2>5, <2>6
<1>2. ASSUME NEW h \in Handler, NotificationFails(h)
      PROVE  ModerationIInv'
  <2>1. /\ failed' = failed \cup {job[h].decision}
        /\ job' = [job EXCEPT ![h] = Free] /\ UNCHANGED <<moderationRows, verdict, subject>>
        /\ job[h].decision \in Decision
    BY <1>2 DEF NotificationFails, JobInv, JobOK, Telling, ModerationTypeOK
  <2>2. /\ Free \in [doing : {"idle", "asked", "insert"}, report : Report \cup {NoReport},
                     decision : {None}, seen : Verdicts \cup {"none"},
                     text : Decision \cup {None}]
        /\ Free.doing = "idle"
    BY DEF Free
  <2> QED
    BY <2>1, <2>2, EndKeeps DEF ModerationTypeOK
<1>3. ASSUME NEW h \in Handler, NEW r \in Report, ReadForAppeal(h, r)
      PROVE  ModerationIInv'
  <2> DEFINE new == [Free EXCEPT !.doing = "asked", !.report = r, !.seen = report[r]]
  <2>1. /\ job[h] = Free /\ report[r] \in Verdicts /\ job' = [job EXCEPT ![h] = new]
        /\ UNCHANGED <<moderationRows, verdict, subject, failed>>
    BY <1>3 DEF ReadForAppeal, Appealable
  <2>2. Given(r, report[r])
    <3>1. ReportOK(r) /\ resolution[r] \in Decision \cup {None}
      BY DEF RowInv, ModerationTypeOK
    <3> QED
      BY <2>1, <3>1 DEF ReportOK, Given
  <2>3. /\ new \in [doing : {"idle", "asked", "insert"}, report : Report \cup {NoReport},
                    decision : {None}, seen : Verdicts \cup {"none"},
                    text : Decision \cup {None}]
        /\ new.report = r /\ new.seen = report[r]
    BY <2>1 DEF Free
  <2>4. job[h].decision = None
    BY <2>1 DEF Free
  <2> QED
    BY <2>1, <2>2, <2>3, <2>4, EndKeeps DEF ModerationTypeOK
<1>4. ASSUME NEW h \in Handler, AskForAppeal(h)
      PROVE  ModerationIInv'
  <2> DEFINE new == IF AppealRow(job[h].report) THEN Free
                    ELSE [job[h] EXCEPT !.doing = "insert"]
  <2>1. /\ job[h].doing = "asked" /\ job' = [job EXCEPT ![h] = new]
        /\ UNCHANGED <<moderationRows, verdict, subject, failed>> /\ JobOK(h)
    BY <1>4 DEF AskForAppeal, JobInv
  <2>2. /\ job[h].decision = None /\ job[h].report \in Report
        /\ Given(job[h].report, job[h].seen)
    BY <2>1 DEF JobOK, Telling
  <2>3. /\ new \in [doing : {"idle", "asked", "insert"}, report : Report \cup {NoReport},
                    decision : {None}, seen : Verdicts \cup {"none"},
                    text : Decision \cup {None}]
        /\ new.doing \in {"asked", "insert"} =>
             new.report = job[h].report /\ new.seen = job[h].seen
    BY <2>2 DEF Free, ModerationTypeOK
  <2> QED
    BY <2>1, <2>2, <2>3, EndKeeps DEF ModerationTypeOK
<1>5. ASSUME NEW a \in Appeal, NEW v \in {"accepted", "rejected"}, ResolveAppeal(a, v)
      PROVE  ModerationIInv'
  <2>1. /\ appeal[a] = "pending" /\ appeal' = [appeal EXCEPT ![a] = v]
        /\ report' = IF v = "accepted" THEN [report EXCEPT ![appealOf[a]] = "pending"] ELSE report
        /\ UNCHANGED <<resolution, appealOf, appealed, decided, filed, notices, job, verdict,
                       subject, failed>>
    BY <1>5 DEF ResolveAppeal, StillOpen
  <2>2. a <= filed /\ appealOf[a] \in Report
    BY <2>1 DEF RowInv, AppealRowOK, ModerationTypeOK
  <2>3. report[appealOf[a]] # "none"
    <3>1. PICK d \in Decision : d <= decided /\ subject[d] = appealOf[a]
      BY <2>2 DEF VerdictInv, Given
    <3>2. resolution[appealOf[a]] >= d /\ ReportOK(appealOf[a])
      BY <2>2, <3>1 DEF RowInv, DecisionOK
    <3>3. ~(None >= d)
      BY ModerationAssumption DEF Decision, None
    <3> QED
      BY <3>2, <3>3 DEF ReportOK
  <2>4. ModerationTypeOK' /\ OneAppealPerReport'
    BY <2>1, <2>2 DEF ModerationTypeOK, OneAppealPerReport
  <2>5. RowInv'
    <3>1. ASSUME NEW q \in Report
          PROVE  ReportOK(q)'
      BY <2>1, <2>2, <2>3 DEF RowInv, ReportOK, ModerationTypeOK, Verdicts
    <3>2. ASSUME NEW b \in Appeal
          PROVE  AppealRowOK(b)'
      BY <2>1, <2>2 DEF RowInv, AppealRowOK, ModerationTypeOK
    <3> QED
      BY <2>1, <3>1, <3>2 DEF RowInv, DecisionOK
  <2>6. JobInv' /\ VerdictInv' /\ ToldInv'
    BY <2>1 DEF JobInv, JobOK, Telling, Given, VerdictInv, ToldInv, Owed
  <2>7. ReopenInv'
    BY <2>1, <2>2 DEF ReopenInv, ModerationTypeOK
  <2> QED
    BY <2>4, <2>5, <2>6, <2>7
<1>6. UNCHANGED moderationVars => ModerationIInv'
  <2> SUFFICES ASSUME UNCHANGED moderationVars PROVE ModerationIInv'
    OBVIOUS
  <2> QED
    BY DEF moderationVars, moderationRows, ModerationTypeOK, RowInv, AppealRowOK, ReportOK,
           DecisionOK, JobInv, JobOK, Telling, Given, OneAppealPerReport, ReopenInv, VerdictInv,
           ToldInv, Owed
<1> QED
  BY <1>1, <1>2, <1>3, <1>4, <1>5, <1>6, DecideKeeps, RereadKeeps, NotifyKeeps, InsertKeeps
     DEF ModerationNext

\* The strengthened invariant, for every instance.
THEOREM ModerationInvariant == ModerationSpec => []ModerationIInv
<1> QED
  BY ModerationInitIInv, ModerationNextIInv, PTL DEF ModerationSpec

\* The variables of moderation keep their types.
THEOREM ModerationTypeCorrect == ModerationSpec => []ModerationTypeOK
<1>1. ModerationIInv => ModerationTypeOK
  BY DEF ModerationIInv
<1> QED
  BY <1>1, ModerationInvariant, PTL

\* A report is appealed at most once, against a verdict that was given, and only
\* an accepted appeal reopens it.
THEOREM AppealsAreSound == ModerationSpec => []AppealInv
<1>1. ModerationIInv => AppealInv
  <2> SUFFICES ASSUME ModerationIInv PROVE ReopenedOnlyByAppeal
    BY DEF AppealInv, ModerationIInv
  <2>1. \A a \in 1 .. filed : Given(appealOf[a], appealed[a])
    BY ModerationAssumption DEF ModerationIInv, ModerationTypeOK, VerdictInv, Appeal
  <2>2. \A d \in Decision : d <= decided => d \in 1 .. decided
    BY ModerationAssumption DEF ModerationIInv, ModerationTypeOK, Decision
  <2> QED
    BY <2>1, <2>2 DEF ModerationIInv, ReopenInv, ReopenedOnlyByAppeal, Given
<1> QED
  BY <1>1, ModerationInvariant, PTL

\* Every decision is told to the reporter once, with its own verdict.
THEOREM DecisionsAreTold == ModerationSpec => []EveryDecisionIsTold
<1>1. ModerationIInv => EveryDecisionIsTold
  <2>1. ModerationIInv => \A d \in 1 .. decided : d \in Decision /\ d <= decided
    BY ModerationAssumption DEF ModerationIInv, ModerationTypeOK, Decision
  <2> QED
    BY <2>1 DEF ModerationIInv, ToldInv, EveryDecisionIsTold
<1> QED
  BY <1>1, ModerationInvariant, PTL

----------------------------------------------------------------------------
(* The composition                                                         *)

\* A behaviour of the composition is one of each component.
THEOREM SocialRunsComponents == SocialSpec => CommunitySpec /\ ThreadsSpec /\ ModerationSpec
<1>1. SocialInit => CommunityInit /\ ThreadsInit /\ ModerationInit
  BY DEF SocialInit
<1>2. [SocialNext]_socialVars => /\ [CommunityNext]_communityVars
                                 /\ [ThreadsNext]_threadsVars
                                 /\ [ModerationNext]_moderationVars
  BY DEF SocialNext, socialVars
<1> QED
  BY <1>1, <1>2, PTL DEF SocialSpec, CommunitySpec, ThreadsSpec, ModerationSpec

\* Requests, rows and histories of the three components keep their shapes.
THEOREM SocialTypeCorrect == SocialSpec => []SocialTypeOK
<1>1. CommunityTypeOK /\ ThreadsTypeOK /\ ModerationTypeOK => SocialTypeOK
  BY DEF SocialTypeOK
<1> QED
  BY <1>1, SocialRunsComponents, CommunityTypeCorrect, ThreadsTypeCorrect,
     ModerationTypeCorrect, PTL
=============================================================================

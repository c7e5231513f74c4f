------------------------------ MODULE Community ------------------------------
(***************************************************************************)
(* Follows, blocks, announcements and notifications                        *)
(* (apps/api/internal/data/community.go, httpapi/community.go).            *)
(*                                                                         *)
(* FollowCreator and BlockCreator are IMMEDIATE transactions and the       *)
(* opposite operations single DELETEs, so each is one step.  FollowGame    *)
(* asks for the game, asks for a block and inserts in three statements;    *)
(* NotifyComment reads its recipients, then asks and inserts once for      *)
(* each; recordPublishedGameEvent asks for an earlier event before the     *)
(* transaction that announces.  These run as requests, a step a statement. *)
(*                                                                         *)
(* A statement that fails ends its request early: as a request that is     *)
(* never continued has the same effects, failures are no steps.            *)
(*                                                                         *)
(* A table is the set of its rows, so two equal notifications are one, and *)
(* read_at, which guards nothing, is left out.                             *)
(***************************************************************************)
EXTENDS Naturals

CONSTANTS Person,
          Title,        \* games
          Creator,      \* [Title -> Person]: owner_user_id
          Suspendable,  \* persons an administrator may suspend
          Visitor,      \* requests that can run at the same time
          Nobody, Untitled

ASSUME CommunityAssumption ==
  /\ Creator \in [Title -> Person]
  /\ Suspendable \subseteq Person
  /\ Nobody \notin Person /\ Untitled \notin Title

VARIABLES
  active,      \* users with status='active'
  listed,      \* games with status='published'
  blocks,      \* user_blocks: <<blocker, blocked>>
  following,   \* creator_follows: <<follower, creator>>
  watching,    \* game_follows: <<user, game>>
  events,      \* community_events
  notes,       \* notifications
  visit,       \* what each request is doing
  shut         \* history: since a request began, a block has always stood
               \* between its user and the other party

communityRows == <<active, listed, blocks, following, watching, events, notes>>
communityVars == <<communityRows, visit, shut>>

Event == [kind : {"published", "updated"}, title : Title]
Note == [to : Person, from : Person, kind : {"followed", "announced", "comment"},
         title : Title \cup {Untitled}]
Errand == [doing : {"idle", "follow", "clear", "notify", "announce"},
           who : Person \cup {Nobody}, title : Title \cup {Untitled},
           todo : SUBSET Person, next : Person \cup {Nobody},
           kind : {"none", "published", "updated"}]
Rest == [doing |-> "idle", who |-> Nobody, title |-> Untitled,
         todo |-> {}, next |-> Nobody, kind |-> "none"]

CommunityTypeOK ==
  /\ active \in SUBSET Person
  /\ listed \in SUBSET Title
  /\ blocks \in SUBSET (Person \X Person)
  /\ following \in SUBSET (Person \X Person)
  /\ watching \in SUBSET (Person \X Title)
  /\ events \in SUBSET Event
  /\ notes \in SUBSET Note
  /\ visit \in [Visitor -> Errand]
  /\ shut \in SUBSET (Visitor \X Person)

CommunityInit ==
  /\ active = Person
  /\ listed = Title
  /\ blocks = {} /\ following = {} /\ watching = {}
  /\ events = {} /\ notes = {}
  /\ visit = [v \in Visitor |-> Rest]
  /\ shut = {}

----------------------------------------------------------------------------
\* Bug variant: only the block of the one who acts is asked for.
OwnBlock(p, q) == <<p, q>> \in blocks

\* The EXISTS over user_blocks, in either direction.
Blocked(p, q) == <<p, q>> \in blocks \/ <<q, p>> \in blocks

\* For the history and the properties: a block in B stands between p and q.
Barred(B, p, q) == {<<p, q>>, <<q, p>>} \cap B # {}

\* A request that has begun stays shut out from q only while a block stands.
StillShut == shut' = {s \in shut : Barred(blocks', visit[s[1]].who, s[2])}

\* Request v begins for p.
Begin(v, p, what) ==
  /\ visit[v] = Rest
  /\ p \in active
  /\ visit' = [visit EXCEPT ![v] = what]
  /\ shut' = shut \cup {<<v, q>> : q \in {r \in Person : Barred(blocks, p, r)}}
  /\ UNCHANGED communityRows

Finished(v) == /\ visit' = [visit EXCEPT ![v] = Rest]
               /\ shut' = {s \in shut : s[1] # v}

----------------------------------------------------------------------------
(* Following and blocking a creator                                        *)

\* FollowCreator: the notification is written only when the row is new.
FollowCreator(p, c) ==
  /\ p # c /\ {p, c} \subseteq active
  /\ ~Blocked(p, c)
  /\ <<p, c>> \notin following
  /\ following' = following \cup {<<p, c>>}
  /\ notes' = notes \cup {[to |-> c, from |-> p, kind |-> "followed", title |-> Untitled]}
  /\ UNCHANGED <<active, listed, blocks, watching, events, visit, shut>>

UnfollowCreator(p, c) ==
  /\ p \in active
  /\ <<p, c>> \in following
  /\ following' = following \ {<<p, c>>}
  /\ UNCHANGED <<active, listed, blocks, watching, events, notes, visit, shut>>

\* Bug variant: the blocked creator goes on following the one who blocked them.
BlockCreatorOneWay(p, c) ==
  /\ p # c /\ p \in active /\ c \in active
  /\ blocks' = blocks \cup {<<p, c>>}
  /\ following' = following \ {<<p, c>>}
  /\ watching' = watching \ {<<p, t>> : t \in {x \in Title : Creator[x] = c}}
  /\ notes' = {n \in notes : ~(n.to = p /\ n.from = c)}
  /\ UNCHANGED <<active, listed, events, visit, shut>>

\* BlockCreator: the follows of both go, but only the blocker's notifications.
BlockCreator(p, c) ==
  /\ p # c /\ p \in active /\ c \in active
  /\ blocks' = blocks \cup {<<p, c>>}
  /\ following' = following \ {<<p, c>>, <<c, p>>}
  /\ watching' = {w \in watching : ~ \/ w[1] = p /\ Creator[w[2]] = c
                                     \/ w[1] = c /\ Creator[w[2]] = p}
  /\ notes' = {n \in notes : ~(n.to = p /\ n.from = c)}
  /\ UNCHANGED <<active, listed, events, visit, shut>>

UnblockCreator(p, c) ==
  /\ p \in active
  /\ <<p, c>> \in blocks
  /\ blocks' = blocks \ {<<p, c>>}
  /\ StillShut
  /\ UNCHANGED <<active, listed, following, watching, events, notes, visit>>

----------------------------------------------------------------------------
(* Following a game                                                        *)

\* publishedGameID and GameFollowState of followGame.
BeginFollowGame(v, p, t) ==
  /\ t \in listed
  /\ Begin(v, p, [Rest EXCEPT !.doing = "follow", !.who = p, !.title = t])

\* FollowGame asks for a block between the user and the owner.
CheckFollowGame(v) ==
  /\ visit[v].doing = "follow"
  /\ \/ /\ ~Blocked(visit[v].who, Creator[visit[v].title])
        /\ visit' = [visit EXCEPT ![v].doing = "clear"]
        /\ UNCHANGED shut
     \/ /\ Blocked(visit[v].who, Creator[visit[v].title])
        /\ Finished(v)
  /\ UNCHANGED communityRows

\* The INSERT, which asks nothing any more.
EndFollowGame(v) ==
  /\ visit[v].doing = "clear"
  /\ watching' = watching \cup {<<visit[v].who, visit[v].title>>}
  /\ Finished(v)
  /\ UNCHANGED <<active, listed, blocks, following, events, notes>>

\* unfollowGame: the game has to be published for this as well.
UnfollowGame(p, t) ==
  /\ p \in active /\ t \in listed
  /\ <<p, t>> \in watching
  /\ watching' = watching \ {<<p, t>>}
  /\ UNCHANGED <<active, listed, blocks, following, events, notes, visit, shut>>

----------------------------------------------------------------------------
(* Notifications of a comment                                              *)

\* NotifyComment reads the owner and the parent's author; the comment itself is
\* written by then (module Threads).  A parent of Nobody is a root comment.
BeginNotifyComment(v, p, t, parent) ==
  Begin(v, p, [Rest EXCEPT !.doing = "notify", !.who = p, !.title = t,
                           !.todo = {Creator[t], parent} \ {p, Nobody}])

\* The loop takes a recipient in the order of a map and asks for a block.
CheckRecipient(v) ==
  /\ visit[v].doing = "notify" /\ visit[v].next = Nobody
  /\ \E q \in visit[v].todo :
       IF Blocked(visit[v].who, q)
       THEN visit' = [visit EXCEPT ![v].todo = @ \ {q}]
       ELSE visit' = [visit EXCEPT ![v].todo = @ \ {q}, ![v].next = q]
  /\ UNCHANGED <<communityRows, shut>>

NotifyRecipient(v) ==
  /\ visit[v].doing = "notify" /\ visit[v].next # Nobody
  /\ notes' = notes \cup {[to |-> visit[v].next, from |-> visit[v].who,
                           kind |-> "comment", title |-> visit[v].title]}
  /\ visit' = [visit EXCEPT ![v].next = Nobody]
  /\ UNCHANGED <<active, listed, blocks, following, watching, events, shut>>

EndNotifyComment(v) ==
  /\ visit[v].doing = "notify" /\ visit[v].todo = {} /\ visit[v].next = Nobody
  /\ Finished(v)
  /\ UNCHANGED communityRows

----------------------------------------------------------------------------
(* Announcing a publication                                                *)

\* recordPublishedGameEvent asks HasGameCommunityEvent; the actor is the owner,
\* whoever approves.  The game was published when its row was written, and may
\* have been hidden since.
BeginAnnounce(v, t) ==
  /\ visit[v] = Rest
  /\ visit' = [visit EXCEPT ![v] =
                 [Rest EXCEPT !.doing = "announce", !.who = Creator[t], !.title = t,
                              !.kind = IF \E e \in events : e.title = t
                                       THEN "updated" ELSE "published"]]
  /\ shut' = shut \cup {<<v, q>> : q \in {r \in Person : Barred(blocks, Creator[t], r)}}
  /\ UNCHANGED communityRows

\* Those who follow the game or its creator, except the actor and the blocked.
Audience(t) ==
  LET a == Creator[t] IN
  {q \in Person \ {a} : (<<q, t>> \in watching \/ <<q, a>> \in following) /\ ~Blocked(q, a)}

\* RecordGameCommunityEvent, one transaction.
EndAnnounce(v) ==
  LET t == visit[v].title IN
  /\ visit[v].doing = "announce"
  /\ events' = events \cup {[kind |-> visit[v].kind, title |-> t]}
  /\ notes' = notes \cup {[to |-> q, from |-> Creator[t], kind |-> "announced", title |-> t]
                          : q \in Audience(t)}
  /\ Finished(v)
  /\ UNCHANGED <<active, listed, blocks, following, watching>>

----------------------------------------------------------------------------
(* Other components: UpdateUserAccess, unpublication and approval          *)

ChangeAccess(p) ==
  /\ p \in Suspendable
  /\ active' = IF p \in active THEN active \ {p} ELSE active \cup {p}
  /\ UNCHANGED <<listed, blocks, following, watching, events, notes, visit, shut>>

ChangeListing(t) ==
  /\ listed' = IF t \in listed THEN listed \ {t} ELSE listed \cup {t}
  /\ UNCHANGED <<active, blocks, following, watching, events, notes, visit, shut>>

CommunityNext ==
  \/ \E p, c \in Person : \/ FollowCreator(p, c) \/ UnfollowCreator(p, c)
                          \/ BlockCreator(p, c) \/ UnblockCreator(p, c)
  \/ \E v \in Visitor, p \in Person, t \in Title :
       BeginFollowGame(v, p, t)
  \/ \E v \in Visitor : CheckFollowGame(v) \/ EndFollowGame(v)
  \/ \E p \in Person, t \in Title : UnfollowGame(p, t)
  \/ \E v \in Visitor, p \in Person, t \in Title, parent \in Person \cup {Nobody} :
       BeginNotifyComment(v, p, t, parent)
  \/ \E v \in Visitor : CheckRecipient(v) \/ NotifyRecipient(v) \/ EndNotifyComment(v)
  \/ \E v \in Visitor, t \in Title : BeginAnnounce(v, t)
  \/ \E v \in Visitor : EndAnnounce(v)
  \/ \E p \in Person : ChangeAccess(p)
  \/ \E t \in Title : ChangeListing(t)

CommunitySpec == CommunityInit /\ [][CommunityNext]_communityVars

----------------------------------------------------------------------------
(* What a user is shown                                                    *)

\* CommunityFeed: events by the user, by a followed creator or of a followed
\* game, unless their actor and the user are blocked.
Feed(p) == {e \in events : LET a == Creator[e.title] IN
              /\ a = p \/ <<p, a>> \in following \/ <<p, e.title>> \in watching
              /\ ~Blocked(p, a)}

\* Notifications: both of its queries hide what comes across a block.
Shown(p) == {n \in notes : n.to = p /\ ~Blocked(p, n.from)}

----------------------------------------------------------------------------
(* Properties                                                              *)

\* Two persons with a block between them, in either direction, do not follow
\* each other, and whatever a request that raced with the block has left behind
\* (a game follow, a notification) shows neither of them anything of the other.
BlockSeparates ==
  \A p, q \in Person : Barred(blocks, p, q) =>
    /\ <<p, q>> \notin following
    /\ \A e \in Feed(p) : Creator[e.title] # q
    /\ \A n \in Shown(p) : n.from # q

\* A follow is always backed by the notification that told the creator of it:
\* the block that deletes notifications deletes the follow with them, in the
\* same transaction, so that a follow after an unblock is announced anew.
FollowsAreAnnounced ==
  \A f \in following :
    [to |-> f[2], from |-> f[1], kind |-> "followed", title |-> Untitled] \in notes

\* A request on whose whole duration a block stands between its user and another
\* party has no effect on that party: no game follow, no notification.  Only
\* requests that began before the block can leave such a row.
NothingAcrossBlock ==
  \A v \in Visitor : \A s \in shut : s[1] = v /\ visit'[v] # visit[v] =>
    /\ \A w \in watching' \ watching : Creator[w[2]] # s[2]
    /\ \A n \in notes' \ notes : n.to # s[2]

BlockHolds == [][NothingAcrossBlock]_communityVars

\* A game of which an update was announced has had its publication announced,
\* although the kind of an event is chosen before the transaction.
UpdatesFollowPublication ==
  \A e \in events : e.kind = "updated" => [kind |-> "published", title |-> e.title] \in events

CommunityInv == BlockSeparates /\ FollowsAreAnnounced /\ UpdatesFollowPublication
=============================================================================

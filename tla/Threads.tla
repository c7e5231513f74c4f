------------------------------- MODULE Threads -------------------------------
(***************************************************************************)
(* Likes, shares, favourites, launches and comments of a game              *)
(* (apps/api/internal/data/game_social.go, store.go,                       *)
(* httpapi/game_social.go).                                                *)
(*                                                                         *)
(* Every handler of game_social.go resolves the slug to a published game   *)
(* in a statement of its own, and the writes ask nothing about the game    *)
(* any more; a reply, a deletion and a comment's like read the comment in  *)
(* between.  AddFavorite and RecordLaunch check and write at once.         *)
(* Foreign keys: a row about a game or a comment that is gone is refused,  *)
(* and the rows of a deleted game go with it.                              *)
(***************************************************************************)
EXTENDS Naturals, FiniteSets

CONSTANTS Member, Moderator,   \* users; those with the role admin
          Fan,                 \* bound: the users whose likes and shares are followed
          Exhibit,             \* games
          MaxPosts,            \* bound: comments ever written
          MaxRows,             \* bound: comments written and other rows, together
          Caller,              \* requests that can run at the same time
          NoMember, NoExhibit

ASSUME ThreadsAssumption ==
  /\ Moderator \subseteq Member /\ Fan \subseteq Member
  /\ MaxPosts \in Nat /\ MaxRows \in Nat
  /\ NoMember \notin Member /\ NoExhibit \notin Exhibit

Post == 1 .. MaxPosts
NoPost == 0
Marks == {"like", "share", "favorite", "launch"}
Immediate == {"like", "unlike", "share", "comment"}
OnPost == {"reply", "delete", "heart", "unheart"}

VARIABLES
  shelf,                     \* games: status
  state, about, author, parent, written,   \* game_comments
  hearts,                    \* game_comment_likes
  marks,                     \* the rows of Marks
  call,                      \* what each request is doing
  late,                      \* history: replies written after their root was deleted
  hushed                     \* history: requests whose game has not been published
                             \* since they arrived

threadRows == <<shelf, state, about, author, parent, written, hearts, marks, late>>
threadsVars == <<threadRows, call, hushed>>

NoCall == [op |-> "none", stage |-> "idle", who |-> NoMember, game |-> NoExhibit,
           post |-> NoPost]

ThreadsTypeOK ==
  /\ shelf \in [Exhibit -> {"published", "hidden", "gone"}]
  /\ state \in [Post -> {"unborn", "visible", "deleted", "gone"}]
  /\ about \in [Post -> Exhibit \cup {NoExhibit}]
  /\ author \in [Post -> Member \cup {NoMember}]
  /\ parent \in [Post -> Post \cup {NoPost}]
  /\ written \in 0 .. MaxPosts
  /\ hearts \in SUBSET (Member \X Post)
  /\ marks \in SUBSET (Marks \X Member \X Exhibit)
  /\ call \in [Caller -> [op : {"none"} \cup Immediate \cup OnPost,
                          stage : {"idle", "arrived", "resolved", "checked"},
                          who : Member \cup {NoMember}, game : Exhibit \cup {NoExhibit},
                          post : Post \cup {NoPost}]]
  /\ late \in SUBSET Post
  /\ hushed \in SUBSET Caller

ThreadsInit ==
  /\ shelf = [g \in Exhibit |-> "published"]
  /\ state = [k \in Post |-> "unborn"]
  /\ about = [k \in Post |-> NoExhibit]
  /\ author = [k \in Post |-> NoMember]
  /\ parent = [k \in Post |-> NoPost]
  /\ written = 0 /\ hearts = {} /\ marks = {}
  /\ call = [c \in Caller |-> NoCall]
  /\ late = {} /\ hushed = {}

----------------------------------------------------------------------------
(* Arrival and publishedGameID                                             *)

\* What a request is about matters only once its game is found, and is chosen then.
Arrive(c, g) ==
  /\ call[c] = NoCall
  /\ call' = [call EXCEPT ![c].stage = "arrived", ![c].game = g]
  /\ hushed' = IF shelf[g] = "published" THEN hushed ELSE hushed \cup {c}
  /\ UNCHANGED threadRows

Done(c) == /\ call' = [call EXCEPT ![c] = NoCall]
           /\ hushed' = hushed \ {c}

\* Bug variant: the game is found whatever its status is.
ResolvesAny(g) == shelf[g] # "gone"

\* GameBySlug(slug, "", true)
Resolves(g) == shelf[g] = "published"

Resolve(c) ==
  /\ call[c].stage = "arrived"
  /\ \/ /\ Resolves(call[c].game)
        /\ \E op \in Immediate \cup OnPost, m \in Member, k \in Post \cup {NoPost} :
             /\ IF op \in OnPost THEN k \in 1 .. written ELSE k = NoPost
             /\ op \notin {"comment", "reply", "delete"} => m \in Fan
             /\ call' = [call EXCEPT ![c] = [op |-> op, stage |-> "resolved", who |-> m,
                                             game |-> call[c].game, post |-> k]]
        /\ UNCHANGED hushed
     \/ /\ ~Resolves(call[c].game)
        /\ Done(c)
  /\ UNCHANGED threadRows

----------------------------------------------------------------------------
(* Likes and shares of a game                                              *)

RoomFor(M, H, n) == Cardinality(M) + Cardinality(H) + n <= MaxRows

\* LikeGame, UnlikeGame, RecordShare.  The insert needs the game's row.
Mark(c) ==
  LET kind == IF call[c].op = "share" THEN "share" ELSE "like"
      row == <<kind, call[c].who, call[c].game>> IN
  /\ call[c].stage = "resolved" /\ call[c].op \in {"like", "unlike", "share"}
  /\ marks' = IF call[c].op = "unlike" THEN marks \ {row}
              ELSE IF shelf[call[c].game] = "gone" THEN marks ELSE marks \cup {row}
  /\ RoomFor(marks', hearts, written)
  /\ Done(c)
  /\ UNCHANGED <<shelf, state, about, author, parent, written, hearts, late>>

\* AddFavorite: INSERT ... SELECT id FROM games WHERE status='published'.
AddFavorite(m, g) ==
  /\ shelf[g] = "published"
  /\ marks' = marks \cup {<<"favorite", m, g>>}
  /\ RoomFor(marks', hearts, written)
  /\ UNCHANGED <<shelf, state, about, author, parent, written, hearts, late, call, hushed>>

RemoveFavorite(m, g) ==
  /\ <<"favorite", m, g>> \in marks
  /\ marks' = marks \ {<<"favorite", m, g>>}
  /\ UNCHANGED <<shelf, state, about, author, parent, written, hearts, late, call, hushed>>

\* RecordLaunch, one transaction.
RecordLaunch(m, g) ==
  /\ shelf[g] = "published"
  /\ marks' = marks \cup {<<"launch", m, g>>}
  /\ RoomFor(marks', hearts, written)
  /\ UNCHANGED <<shelf, state, about, author, parent, written, hearts, late, call, hushed>>

----------------------------------------------------------------------------
(* Comments                                                                *)

\* The comment a request read is visible and belongs to the game.
Belongs(c) == /\ state[call[c].post] = "visible"
              /\ about[call[c].post] = call[c].game

\* CreateGameComment: the parent is a visible root comment of this game.
MayReply(c) == Belongs(c) /\ parent[call[c].post] = NoPost

\* DeleteGameComment: the actor is the author or an administrator.
MayDelete(c) == /\ Belongs(c)
                /\ author[call[c].post] = call[c].who \/ call[c].who \in Moderator

Passes(c) == CASE call[c].op = "reply" -> MayReply(c)
               [] call[c].op = "delete" -> MayDelete(c)
               [] OTHER -> Belongs(c)

\* The read that a reply, a deletion and a comment's like start with.
Check(c) ==
  /\ call[c].stage = "resolved" /\ call[c].op \in OnPost
  /\ \/ /\ Passes(c)
        /\ call' = [call EXCEPT ![c].stage = "checked"]
        /\ UNCHANGED hushed
     \/ /\ ~Passes(c)
        /\ Done(c)
  /\ UNCHANGED threadRows

\* The INSERT of a comment, refused when its game or its parent has no row.
Write(c) ==
  LET k == written + 1
      p == call[c].post IN
  /\ \/ call[c].stage = "resolved" /\ call[c].op = "comment"
     \/ call[c].stage = "checked" /\ call[c].op = "reply"
  /\ \/ /\ shelf[call[c].game] # "gone"
        /\ written < MaxPosts /\ RoomFor(marks, hearts, k)
        /\ written' = k
        /\ state' = [state EXCEPT ![k] = "visible"]
        /\ about' = [about EXCEPT ![k] = call[c].game]
        /\ author' = [author EXCEPT ![k] = call[c].who]
        /\ parent' = [parent EXCEPT ![k] = p]
        /\ late' = IF p # NoPost /\ state[p] = "deleted" THEN late \cup {k} ELSE late
     \/ /\ shelf[call[c].game] = "gone"
        /\ UNCHANGED <<written, state, about, author, parent, late>>
  /\ Done(c)
  /\ UNCHANGED <<shelf, hearts, marks>>

\* Bug variant: the replies stay.
DeleteOnly(c) ==
  /\ call[c].stage = "checked" /\ call[c].op = "delete"
  /\ state' = [state EXCEPT ![call[c].post] = IF @ = "gone" THEN @ ELSE "deleted"]
  /\ Done(c)
  /\ UNCHANGED <<shelf, about, author, parent, written, hearts, marks, late>>

\* Bug variant: a status that no query knows.
DeleteToRemoved(c) ==
  /\ call[c].stage = "checked" /\ call[c].op = "delete"
  /\ state' = [state EXCEPT ![call[c].post] = "removed"]
  /\ Done(c)
  /\ UNCHANGED <<shelf, about, author, parent, written, hearts, marks, late>>

\* UPDATE ... SET status='deleted' WHERE id=? OR parent_id=?
Delete(c) ==
  LET d == call[c].post IN
  /\ call[c].stage = "checked" /\ call[c].op = "delete"
  /\ state' = [k \in Post |-> IF state[k] = "visible" /\ (k = d \/ parent[k] = d)
                              THEN "deleted" ELSE state[k]]
  /\ Done(c)
  /\ UNCHANGED <<shelf, about, author, parent, written, hearts, marks, late>>

\* LikeComment, UnlikeComment
Heart(c) ==
  LET row == <<call[c].who, call[c].post>> IN
  /\ call[c].stage = "checked" /\ call[c].op \in {"heart", "unheart"}
  /\ hearts' = IF call[c].op = "unheart" THEN hearts \ {row}
               ELSE IF state[call[c].post] = "gone" THEN hearts ELSE hearts \cup {row}
  /\ RoomFor(marks, hearts', written)
  /\ Done(c)
  /\ UNCHANGED <<shelf, state, about, author, parent, written, marks, late>>

----------------------------------------------------------------------------
(* Other components: unpublication, approval and permanent deletion        *)

Awake(g) == {c \in Caller : call[c].game = g}

Unpublish(g) ==
  /\ shelf[g] = "published"
  /\ shelf' = [shelf EXCEPT ![g] = "hidden"]
  /\ UNCHANGED <<state, about, author, parent, written, hearts, marks, late, call, hushed>>

Publish(g) ==
  /\ shelf[g] = "hidden"
  /\ shelf' = [shelf EXCEPT ![g] = "published"]
  /\ hushed' = hushed \ Awake(g)
  /\ UNCHANGED <<state, about, author, parent, written, hearts, marks, late, call>>

\* ON DELETE CASCADE of everything that names the game.
DeleteExhibit(g) ==
  /\ shelf[g] # "gone"
  /\ shelf' = [shelf EXCEPT ![g] = "gone"]
  /\ state' = [k \in Post |-> IF about[k] = g THEN "gone" ELSE state[k]]
  /\ author' = [k \in Post |-> IF about[k] = g THEN NoMember ELSE author[k]]
  /\ parent' = [k \in Post |-> IF about[k] = g THEN NoPost ELSE parent[k]]
  /\ late' = {k \in late : about[k] # g}
  /\ hearts' = {h \in hearts : about[h[2]] # g}
  /\ marks' = {r \in marks : r[3] # g}
  /\ UNCHANGED <<about, written, call, hushed>>

ThreadsNext ==
  \/ \E c \in Caller, g \in Exhibit : Arrive(c, g)
  \/ \E c \in Caller : \/ Resolve(c) \/ Mark(c) \/ Check(c) \/ Write(c)
                       \/ Delete(c) \/ Heart(c)
  \/ \E m \in Fan, g \in Exhibit :
       AddFavorite(m, g) \/ RemoveFavorite(m, g) \/ RecordLaunch(m, g)
  \/ \E g \in Exhibit : Unpublish(g) \/ Publish(g) \/ DeleteExhibit(g)

ThreadsSpec == ThreadsInit /\ [][ThreadsNext]_threadsVars

----------------------------------------------------------------------------
(* Properties                                                              *)

\* The discussion is one level deep: the parent of a stored reply is a stored
\* root comment of the same game, although the parent was read before the reply
\* was written.
OneLevelDeep ==
  \A k \in Post : state[k] \in {"visible", "deleted"} /\ parent[k] # NoPost =>
    /\ state[parent[k]] \in {"visible", "deleted"}
    /\ about[parent[k]] = about[k]
    /\ parent[parent[k]] = NoPost

\* Replies go with their root: a visible reply of a removed root was written
\* after the removal, by a request that had read the root before.
RepliesGoWithRoot ==
  \A k \in Post \ late : state[k] = "visible" /\ parent[k] # NoPost =>
    state[parent[k]] = "visible"

\* Nothing is left of a deleted game, and a row is only about what exists.
RowsHaveTheirGame ==
  /\ \A k \in Post : state[k] \in {"visible", "deleted"} => shelf[about[k]] # "gone"
  /\ \A r \in marks : shelf[r[3]] # "gone"
  /\ \A h \in hearts : state[h[2]] \in {"visible", "deleted"}

ThreadInv == OneLevelDeep /\ RepliesGoWithRoot /\ RowsHaveTheirGame

\* A request that arrives while its game is hidden, and during which the game is
\* not published, adds and removes nothing; only requests that were under way
\* when the game was unpublished still do.
HushedWriteNothing ==
  \A c \in hushed : call'[c] # call[c] => UNCHANGED <<state, hearts, marks>>

QuietWhileHidden == [][HushedWriteNothing]_threadsVars
=============================================================================

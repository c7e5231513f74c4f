------------------------------ MODULE MCSocial -------------------------------
(***************************************************************************)
(* Instances of Community, Threads and Moderation for TLC.  The three      *)
(* share no state, so no step of one enables, disables or changes a step   *)
(* of another: a behaviour runs one of them, chosen at the start, instead  *)
(* of all their interleavings.                                             *)
(***************************************************************************)
EXTENDS Community, Threads, Moderation, TLC

CONSTANTS player, creator, game   \* members of Person and Title in the instance

VARIABLE part

socialVars == <<communityVars, threadsVars, moderationVars, part>>

CreatorOf == [t \in Title |-> creator]

SocialInit == CommunityInit /\ ThreadsInit /\ ModerationInit
              /\ part \in {"community", "threads", "moderation"}

SocialNext ==
  /\ UNCHANGED part
  /\ \/ part = "community" /\ CommunityNext /\ UNCHANGED <<threadsVars, moderationVars>>
     \/ part = "threads" /\ ThreadsNext /\ UNCHANGED <<communityVars, moderationVars>>
     \/ part = "moderation" /\ ModerationNext /\ UNCHANGED <<communityVars, threadsVars>>

SocialSpec == SocialInit /\ [][SocialNext]_socialVars

\* Every variable of the three components keeps its type.
SocialTypeOK == CommunityTypeOK /\ ThreadsTypeOK /\ ModerationTypeOK

\* The instance gives Visitor, Caller and Handler the same requests.
Symmetry == Permutations(Handler) \cup Permutations(Report)
=============================================================================

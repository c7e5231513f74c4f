--------------------------- MODULE AtomicDeletion ---------------------------
(***************************************************************************)
(* What Store.DeleteGame promises to the rest of the platform: a game and  *)
(* the files only that game uses disappear together, in one step, and      *)
(* nothing else ever takes a file away.  `volume' is the set of managed    *)
(* assets that are safe: public, or certain to become public again.        *)
(* DeletionStage, the renames and manifests of the code, implements this.  *)
(***************************************************************************)
EXTENDS FiniteSets

CONSTANTS Game,        \* game ids (newID("game") never repeats one)
          Asset        \* managed asset paths below covers/, demos/, playables/

VARIABLES row,         \* [Game -> {"unborn", "live", "deleted"}]
          urls,        \* [Game -> SUBSET Asset]: assets its cover_url and launch_url name
          tracked,     \* [Game -> SUBSET Asset]: its game_assets rows
          volume       \* SUBSET Asset

vars == <<row, urls, tracked, volume>>

Live == {g \in Game : row[g] = "live"}

\* The assets g tracks and no other game names or tracks.
Exclusive(g) ==
  tracked[g] \ UNION {urls[h] \cup tracked[h] : h \in Live \ {g}}

Init ==
  /\ row = [g \in Game |-> "unborn"]
  /\ urls = [g \in Game |-> {}]
  /\ tracked = [g \in Game |-> {}]
  /\ volume = Asset

\* Creating or editing a game touches its own row and no file; it never
\* forgets an asset the game has owned.
Save(g) ==
  /\ row[g] # "deleted"
  /\ row' = [row EXCEPT ![g] = "live"]
  /\ \E U \in SUBSET Asset : urls' = [urls EXCEPT ![g] = U]
  /\ \E O \in SUBSET Asset : tracked' = [tracked EXCEPT ![g] = @ \cup O]
  /\ UNCHANGED volume

Delete(g) ==
  /\ row[g] = "live"
  /\ row' = [row EXCEPT ![g] = "deleted"]
  /\ urls' = [urls EXCEPT ![g] = {}]
  /\ tracked' = [tracked EXCEPT ![g] = {}]
  /\ volume' = volume \ Exclusive(g)

Next == \E g \in Game : Save(g) \/ Delete(g)

Spec == Init /\ [][Next]_vars
=============================================================================

--------------------------- MODULE GameCoverProofs ---------------------------
(***************************************************************************)
(* What TLAPS proves of GameCover, for any games, slugs, covers and        *)
(* number of uploads, crashes and errors: what an upload returns is what   *)
(* happened, a start that serves has emptied the journal, and every cover  *)
(* that a row names is on the volume but for the two exceptions of         *)
(* NamedCoversArePresent.                                                  *)
(*                                                                         *)
(* CoverInv is inductive.  A rollback takes the cover its stage created    *)
(* from no row but an excepted one: an upload creates a cover that no row  *)
(* had, and a row that comes to name it while the stage is kept is         *)
(* excepted from then on, or is the one the receipt records.  No stage is  *)
(* kept while the server serves unless a step has failed, whatever         *)
(* crashed.                                                                *)
(***************************************************************************)
EXTENDS GameCover, TLAPS

AtRest == {"down", "refused", "recover", "serving"}
Forward == {"prepare", "activate", "mutate", "resolve"}
Resolving == {"rollback", "target", "old", "remove", "receipt"}

\* Calls are numbered in order; receipts and stages belong to calls that were made.
BornInv ==
  /\ \A i \in Upload : i <= uploads => target[i] \in Cover
  /\ \A i \in Upload : Committed(i) => i <= uploads
  /\ \A i \in stages : i <= uploads
  /\ pending \subseteq stages \ {cur}

ProcessInv ==
  /\ pc \in AtRest \cup {"cleanup"} => ctx = "startup" /\ cur = None /\ ~finalizing
  /\ pc \in Forward => ctx = "upload" /\ ~finalizing
  /\ pc \in Forward \cup (Resolving \ {"receipt"}) => cur \in stages
  /\ pc = "receipt" => cur \in Upload /\ cur <= uploads /\ cur \notin stages
  /\ pc = "prepare" => cur \notin durable
  /\ pc \in {"activate", "mutate", "resolve", "rollback"} => cur \in durable
  /\ pc = "rollback" => ~finalizing /\ ~Committed(cur)
  /\ pc \in {"target", "old", "receipt"} => finalizing
  /\ ctx = "upload" => game \in Game /\ name \in Slug

\* A recovery that has met no error has every directory that is left before it.
CleanInv ==
  ctx = "startup" /\ pc \in {"recover"} \cup Resolving /\ ~errors => stages \subseteq pending \cup {cur}

\* The new cover of an upload is a file beside those that were there before, its
\* own until the row names it; a rollback takes it away again.
Named == game \in Live /\ coverUrl[game] = target[cur]
UploadInv ==
  ctx = "upload" =>
    /\ pc \in Forward \cup {"rollback"} => (created[cur] <=> target[cur] \notin before)
    /\ pc \in {"prepare", "activate"} => present = before
    /\ pc \in {"mutate", "resolve"} => present = before \cup {target[cur]}
    /\ pc \in Forward => (Committed(cur) => pc = "resolve" /\ Named)
    /\ pc = "rollback" => outcome = "restored" /\ present \in {before, before \cup {target[cur]}}
    /\ pc = "remove" /\ ~finalizing => outcome = "restored" /\ present = before /\ ~Committed(cur)
    /\ finalizing => outcome \in {"ok", "unread"} /\ Named /\ target[cur] \in present

\* Until a step fails, only the upload in progress has a stage while the server serves.
FaultlessInv ==
  faults = 0 =>
    /\ crowded = {}
    /\ ctx = "upload" => stages \subseteq {cur}
    /\ pc \in {"serving", "cleanup"} => stages = {}

\* The rows that NamedCoversArePresent promises nothing.
Excepted == overwritten \cup crowded

\* A rollback of stage i takes a cover from excepted rows only, unless it has
\* committed: then from no other row than the one it recorded.
Spares(i) ==
  created[i] => \A g \in Live : coverUrl[g] = target[i] => receipt[i] = g \/ g \in Excepted

KeptInv ==
  /\ \A i \in durable : Spares(i)
  /\ pc = "prepare" => Spares(cur)

CoversInv == \A g \in Live : coverUrl[g] # NoCover => coverUrl[g] \in present \/ g \in Excepted

StateInv == TypeOK /\ BornInv /\ ProcessInv /\ UploadInv
CoverInv == StateInv /\ CleanInv /\ FaultlessInv /\ KeptInv /\ CoversInv

----------------------------------------------------------------------------
(* Facts that many steps need                                              *)

LEMMA SetFacts ==
  /\ None \notin Upload /\ MaxUploads \in Nat /\ MaxCrashes \in Nat /\ MaxFaults \in Nat
  /\ \A i : i \in Upload <=> i \in Nat /\ 1 <= i /\ i <= MaxUploads
BY ConstantsAssumption DEF Upload, None

LEMMA Counters == ASSUME TypeOK PROVE crashes \in Nat /\ faults \in Nat
BY SetFacts DEF TypeOK

LEMMA InFlight ==
  ASSUME TypeOK, BornInv, ProcessInv, pc \in Forward \cup Resolving
  PROVE  cur \in Upload /\ target[cur] \in Cover /\ cur # None
<1>1. cur \in Upload /\ cur <= uploads
  BY DEF TypeOK, BornInv, ProcessInv, Forward, Resolving
<1> QED
  BY <1>1, SetFacts DEF BornInv

\* StageDone returns to the recovery pass or from the upload.
LEMMA StageDoneFacts ==
  ASSUME NEW E \in BOOLEAN, StageDone(E), TypeOK
  PROVE  /\ cur' = None /\ game' = NoGame /\ name' = NoSlug /\ drop' = NoCover /\ ~finalizing'
         /\ finalizing' \in BOOLEAN /\ before' = {} /\ pending' = pending /\ errors' \in BOOLEAN
         /\ ctx' = "startup"
         /\ ctx = "upload" =>
              /\ pc' = "serving"
              /\ outcome' = IF E /\ outcome = "restored" THEN "restoreFailed" ELSE outcome
         /\ ctx = "startup" =>
              pc' = "recover" /\ outcome' = outcome /\ (~errors' <=> ~errors /\ ~E)
<1>0. finalizing' \in BOOLEAN
  BY Zenon DEF StageDone, Return, Forget
<1>1. CASE ctx = "upload"
  BY <1>0, <1>1 DEF StageDone, Return, Forget, TypeOK
<1>2. CASE ctx # "upload"
  <2>1. errors' \in BOOLEAN
    BY Zenon, <1>2 DEF StageDone
  <2>2. errors' = (errors \/ E)
    BY <1>2 DEF StageDone
  <2>3. ~errors' <=> ~errors /\ ~E
    BY <2>2
  <2> QED
    BY <1>0, <1>2, <2>1, <2>3 DEF StageDone, Forget, TypeOK
<1> QED
  BY <1>1, <1>2

\* The steps that end a stage.
LEMMA StageEnds ==
  ASSUME NEW E \in BOOLEAN, StageDone(E), TypeOK,
         UNCHANGED <<slug, coverUrl, tracked, crowded, overwritten, manifests, crashes>>,
         receipt' \in [Upload -> Game \cup {NoGame}], present' \in SUBSET Cover, stages' \in SUBSET Upload,
         durable' \in SUBSET stages', incoming' \in SUBSET stages', faults' \in 0 .. MaxFaults
  PROVE  TypeOK'
<1>1. /\ cur' = None /\ game' = NoGame /\ name' = NoSlug /\ drop' = NoCover /\ finalizing' \in BOOLEAN
      /\ before' = {} /\ pending' = pending /\ errors' \in BOOLEAN /\ ctx' = "startup"
      /\ pc' \in {"serving", "recover"} /\ outcome' \in {outcome, "restoreFailed"}
  BY StageDoneFacts DEF TypeOK
<1> QED
  BY <1>1, SetFacts DEF TypeOK, manifests

LEMMA FlagsBoolean == ASSUME TypeOK, [Next]_vars PROVE errors' \in BOOLEAN /\ finalizing' \in BOOLEAN
<1>1. ASSUME NEW E \in BOOLEAN, StageDone(E) PROVE errors' \in BOOLEAN /\ finalizing' \in BOOLEAN
  BY <1>1, StageDoneFacts
<1>2. ASSUME \/ Start \/ Stop \/ Crash \/ PrepareFails \/ WriteManifest \/ Activate \/ Mutate \/ MutateRejected
             \/ MutateFails \/ ResolveReceipt \/ ResolveFails \/ CleanUp \/ CleanUpFails
             \/ RollbackTarget \/ FinalizeOld \/ ActivateFails \/ RecoveryDone
             \/ \E i \in Upload : RecoverStage(i) \/ RecoverStageFails(i)
      PROVE  errors' \in BOOLEAN /\ finalizing' \in BOOLEAN
  BY Zenon, <1>2
     DEF TypeOK, Start, Stop, Crash, PrepareFails, Return, Forget, WriteManifest, Activate, Mutate,
         MutateRejected, MutateFails, ResolveReceipt, ResolveFails, CleanUp, CleanUpFails,
         RollbackTarget, FinalizeOld, ActivateFails, BeginRollback, GoTo, RecoverStage,
         RecoverStageFails, RecoveryDone
<1>3. ASSUME FinalizeTarget \/ RemoveStageDir \/ DropReceipt \/ ResolutionFails
      PROVE  errors' \in BOOLEAN /\ finalizing' \in BOOLEAN
  <2>1. (\E E \in BOOLEAN : StageDone(E)) \/ UNCHANGED <<errors, finalizing>>
    BY <1>3 DEF FinalizeTarget, RemoveStageDir, DropReceipt, ResolutionFails, GoTo
  <2> QED
    BY <1>1, <2>1 DEF TypeOK
<1>4. ASSUME UNCHANGED <<errors, finalizing>> PROVE errors' \in BOOLEAN /\ finalizing' \in BOOLEAN
  BY <1>4 DEF TypeOK
<1> QED
  BY <1>2, <1>3, <1>4
     DEF Next, Work, Fail, Request, vars, process, RemoveManifest, RemoveIncoming, ReadBackFails, SaveGame,
         DeleteGame, ImportGame, ReplaceDirectory, UploadCover

LEMMA WriteTyped ==
  ASSUME TypeOK, NEW g \in Game, NEW n \in Slug, NEW c \in Cover \cup {NoCover}, Write(g, n, c)
  PROVE  /\ slug' \in [Game -> Slug \cup {NoSlug}] /\ coverUrl' \in [Game -> Cover \cup {NoCover}]
         /\ tracked' \in [Game -> SUBSET Slug]
         /\ crowded' \in SUBSET Game /\ overwritten' \in SUBSET Game
         /\ slug'[g] = n /\ coverUrl'[g] = c
         /\ \A h \in Game \ {g} : slug'[h] = slug[h] /\ coverUrl'[h] = coverUrl[h]
<1>1. {n} \cap {NamespaceOf[d] : d \in Cover \cap {c}} \in SUBSET Slug
  OBVIOUS
<1> QED
  BY <1>1 DEF TypeOK, Write

LEMMA TypeStep == ASSUME StateInv, [Next]_vars PROVE TypeOK'
<1>0. errors' \in BOOLEAN /\ finalizing' \in BOOLEAN
  BY FlagsBoolean DEF StateInv
<1>a. TypeOK /\ BornInv /\ ProcessInv
  BY DEF StateInv
<1>b. pc \in Forward \cup Resolving => cur \in Upload /\ target[cur] \in Cover
  BY <1>a, InFlight
<1>c. ctx = "upload" => game \in Game /\ name \in Slug
  BY <1>a DEF ProcessInv
<1>d. pc \in Forward => ctx = "upload" /\ cur \in stages
  BY <1>a DEF ProcessInv
<1> USE <1>0, SetFacts DEF TypeOK, database, volume, manifests, process, Forward, Resolving
<1>1. CASE Start
  BY <1>a, <1>1 DEF Start
<1>2. CASE Crash
  BY <1>a, <1>2 DEF Crash, Forget
<1>3. ASSUME NEW g \in Game, NEW n \in Slug, NEW c \in Cover \cup {NoCover}, SaveGame(g, n, c)
      PROVE  TypeOK'
  <2>1. /\ slug' \in [Game -> Slug \cup {NoSlug}] /\ coverUrl' \in [Game -> Cover \cup {NoCover}]
        /\ tracked' \in [Game -> SUBSET Slug] /\ crowded' \in SUBSET Game /\ overwritten' \in SUBSET Game
    BY <1>a, <1>3, WriteTyped DEF SaveGame
  <2> QED
    BY <1>a, <1>3, <2>1 DEF SaveGame
<1>4. CASE CleanUp
  BY <1>a, <1>4 DEF CleanUp, Return, Forget
<1>5. CASE CleanUpFails
  BY <1>a, <1>5 DEF CleanUpFails, Fault, Return, Forget
<1>6. ASSUME NEW g \in Game, DeleteGame(g) PROVE TypeOK'
  BY <1>a, <1>6 DEF DeleteGame
<1>7. ASSUME NEW g \in Game, NEW n \in Slug, NEW c \in Cover, UploadCover(g, n, c) PROVE TypeOK'
  <2>1. Replaced(g, c) \in Cover \cup {NoCover}
    BY <1>a DEF Replaced
  <2> QED
    BY <1>a, <1>7, <2>1 DEF UploadCover
<1>8. CASE WriteManifest
  BY <1>a, <1>d, <1>8 DEF WriteManifest, GoTo
<1>9. CASE PrepareFails
  <2>1. cur \notin durable
    BY <1>a, <1>9 DEF PrepareFails, ProcessInv
  <2> QED
    BY <1>a, <1>9, <2>1 DEF PrepareFails, Fault, Return, Forget
<1>10. CASE Activate
  BY <1>a, <1>b, <1>10 DEF Activate, Installed, GoTo
<1>11. CASE ActivateFails
  BY <1>a, <1>b, <1>11 DEF ActivateFails, Installed, BeginRollback, Fault
<1>12. ASSUME Record, game \in Game, name \in Slug, cur \in Upload, target[cur] \in Cover
       PROVE  /\ slug' \in [Game -> Slug \cup {NoSlug}] /\ coverUrl' \in [Game -> Cover \cup {NoCover}]
              /\ tracked' \in [Game -> SUBSET Slug] /\ receipt' \in [Upload -> Game \cup {NoGame}]
              /\ crowded' \in SUBSET Game /\ overwritten' \in SUBSET Game
  BY <1>a, <1>12, WriteTyped DEF Record
<1>13. CASE Mutate
  BY <1>a, <1>b, <1>c, <1>d, <1>12, <1>13 DEF Mutate
<1>14. CASE MutateRejected
  BY <1>a, <1>14 DEF MutateRejected, GoTo
<1>15. CASE MutateFails
  BY <1>a, <1>b, <1>c, <1>d, <1>12, <1>15 DEF MutateFails, Fault, GoTo
<1>16. CASE ResolveReceipt
  BY <1>a, <1>16 DEF ResolveReceipt, BeginRollback
<1>17. CASE ResolveFails
  BY <1>a, <1>17 DEF ResolveFails, Fault, Return, Forget
<1>18. CASE ReadBackFails
  BY <1>a, <1>18 DEF ReadBackFails, Fault
<1>19. CASE RollbackTarget
  BY <1>a, <1>19 DEF RollbackTarget, GoTo
<1>20. CASE FinalizeTarget
  <2>1. present' \in SUBSET Cover /\ UNCHANGED <<database, stages, durable, incoming, manifests, crashes, faults>>
    BY <1>a, <1>20 DEF FinalizeTarget
  <2>2. CASE GoTo("old")
    BY <1>a, <2>1, <2>2 DEF GoTo
  <2>3. CASE StageDone(TRUE)
    BY <1>a, <2>1, <2>3, StageEnds
  <2> QED
    BY <1>20, <2>2, <2>3 DEF FinalizeTarget
<1>21. CASE FinalizeOld
  BY <1>a, <1>21 DEF FinalizeOld, GoTo
<1>22. CASE RemoveManifest \/ RemoveIncoming
  BY <1>a, <1>22 DEF RemoveManifest, RemoveIncoming
<1>23. CASE RemoveStageDir
  <2>1. /\ stages' \in SUBSET Upload /\ durable' \in SUBSET stages' /\ incoming' \in SUBSET stages'
        /\ UNCHANGED <<database, present, manifests, crashes, faults>>
    BY <1>a, <1>23 DEF RemoveStageDir
  <2>2. CASE GoTo("receipt")
    BY <1>a, <2>1, <2>2 DEF GoTo
  <2>3. CASE StageDone(FALSE)
    BY <1>a, <2>1, <2>3, StageEnds
  <2> QED
    BY <1>23, <2>2, <2>3 DEF RemoveStageDir
<1>24. CASE DropReceipt
  <2>1. /\ receipt' \in [Upload -> Game \cup {NoGame}] /\ StageDone(FALSE)
        /\ UNCHANGED <<slug, coverUrl, tracked, crowded, overwritten, volume, manifests, crashes, faults>>
    BY <1>a, <1>24 DEF DropReceipt
  <2> QED
    BY <1>a, <2>1, StageEnds
<1>25. CASE ResolutionFails
  <2>1. StageDone(TRUE) /\ UNCHANGED <<database, volume, manifests, crashes>>
    BY <1>25 DEF ResolutionFails
  <2>2. faults' \in 0 .. MaxFaults
    BY <1>a, <1>25 DEF ResolutionFails, Fault
  <2> QED
    BY <1>a, <2>1, <2>2, StageEnds
<1>26. ASSUME NEW i \in Upload, RecoverStage(i) PROVE TypeOK'
  <2>1. CASE i \notin durable
    BY <1>a, <1>26, <2>1 DEF RecoverStage
  <2>2. CASE i \in durable /\ Committed(i)
    BY <1>a, <1>26, <2>2 DEF RecoverStage
  <2>3. CASE i \in durable /\ ~Committed(i)
    BY <1>a, <1>26, <2>3 DEF RecoverStage, BeginRollback
  <2> QED
    BY <2>1, <2>2, <2>3
<1>27. ASSUME NEW i \in Upload, RecoverStageFails(i) PROVE TypeOK'
  BY <1>a, <1>27 DEF RecoverStageFails, Fault
<1>28. CASE RecoveryDone
  BY <1>a, <1>28 DEF RecoveryDone, GoTo
<1>29. CASE UNCHANGED vars
  BY <1>a, <1>29 DEF vars
<1>30. CASE Stop
  BY <1>a, <1>30 DEF Stop
<1>31. ASSUME NEW g \in Game, NEW n \in Slug, ImportGame(g, n) PROVE TypeOK'
  <2>1. ReplaceDirectory(g, n)
    BY <1>31 DEF ImportGame
  <2>2. tracked' \in [Game -> SUBSET Slug] /\ overwritten' \in SUBSET Game
    BY <1>a, <2>1 DEF ReplaceDirectory, Live
  <2> QED
    BY <1>a, <2>1, <2>2 DEF ReplaceDirectory
<1> QED
  BY <1>30, <1>31, <1>1, <1>2, <1>3, <1>4, <1>5, <1>6, <1>7, <1>8, <1>9, <1>10, <1>11, <1>13, <1>14, <1>15, <1>16, <1>17,
     <1>18, <1>19, <1>20, <1>21, <1>22, <1>23, <1>24, <1>25, <1>26, <1>27, <1>28, <1>29
     DEF Next, Work, Fail, Request

\* The rest of StateInv.
PlaceInv == BornInv /\ ProcessInv /\ UploadInv

\* The upload or the recovery of a stage has ended: nothing is under way.
LEMMA EndsPlaced ==
  ASSUME NEW E \in BOOLEAN, StageDone(E), TypeOK, BornInv, UNCHANGED manifests,
         \A i \in Upload : Committed(i)' => Committed(i),
         stages' \subseteq stages, pending \subseteq stages'
  PROVE  PlaceInv'
<1>1. /\ cur' = None /\ ~finalizing' /\ pending' = pending /\ ctx' = "startup" /\ pc' \in {"serving", "recover"}
  BY StageDoneFacts DEF TypeOK
<1>2. BornInv'
  BY <1>1, SetFacts DEF BornInv, TypeOK, manifests
<1> QED
  BY <1>1, <1>2 DEF PlaceInv, ProcessInv, UploadInv, AtRest, Forward, Resolving

LEMMA PlaceStep == ASSUME StateInv, [Next]_vars PROVE PlaceInv'
<1>a. TypeOK /\ BornInv /\ ProcessInv /\ UploadInv
  BY DEF StateInv
<1>b. pc \in Forward \cup Resolving => cur \in Upload /\ target[cur] \in Cover
  BY <1>a, InFlight
<1>c. pc \in AtRest \cup {"cleanup"} => ctx = "startup" /\ cur = None /\ ~finalizing
  BY <1>a DEF ProcessInv
<1> USE SetFacts DEF PlaceInv, BornInv, ProcessInv, UploadInv, AtRest, Forward, Resolving, Committed, Named, Live,
        database, volume, manifests, process
<1>1. CASE Start
  <2>1. /\ pc' = "recover" /\ pending' = stages /\ cur = None /\ ctx = "startup" /\ ~finalizing
        /\ UNCHANGED <<database, volume, manifests, ctx, cur, finalizing>>
    BY <1>c, <1>1 DEF Start
  <2>2. None \notin stages
    BY <1>a DEF TypeOK
  <2> QED
    BY <1>a, <2>1, <2>2
<1>2. CASE Crash
  BY <1>a, <1>2 DEF Crash, Forget
<1>3. ASSUME NEW g \in Game, NEW n \in Slug, NEW c \in Cover \cup {NoCover}, SaveGame(g, n, c)
      PROVE  PlaceInv'
  BY <1>a, <1>c, <1>3 DEF SaveGame
<1>4. ASSUME CleanUp \/ CleanUpFails \/ ResolveFails PROVE PlaceInv'
  BY <1>a, <1>4 DEF CleanUp, CleanUpFails, ResolveFails, Return, Forget, TypeOK
<1>5. ASSUME NEW g \in Game, DeleteGame(g) PROVE PlaceInv'
  <2>1. \A i \in Upload : receipt'[i] \in {receipt[i], NoGame}
    BY <1>5 DEF DeleteGame
  <2>2. pc = "serving" /\ UNCHANGED <<stages, durable, incoming, manifests, process>>
    BY <1>5 DEF DeleteGame
  <2> QED
    BY <1>a, <1>c, <2>1, <2>2
<1>6. ASSUME NEW g \in Game, NEW n \in Slug, NEW c \in Cover, UploadCover(g, n, c) PROVE PlaceInv'
  <2>1. /\ uploads \in Nat /\ uploads < MaxUploads /\ uploads' = uploads + 1 /\ cur' = uploads + 1
        /\ stages' = stages \cup {cur'} /\ target' = [target EXCEPT ![cur'] = c]
        /\ created' = [created EXCEPT ![cur'] = c \notin present] /\ before' = present
        /\ pc = "serving" /\ pc' = "prepare" /\ ctx' = "upload" /\ game' = g /\ name' = n
        /\ UNCHANGED <<receipt, present, durable, finalizing, pending>>
    BY <1>a, <1>6 DEF UploadCover, TypeOK
  <2>2. cur' \in Upload
    BY <2>1
  <2>3. cur' \notin stages /\ receipt[cur'] = NoGame
    BY <1>a, <2>1, <2>2
  <2>4. BornInv'
    <3>1. \A i \in Upload : i <= uploads' => target'[i] \in Cover
      BY <1>a, <2>1, <2>2 DEF TypeOK
    <3>2. \A i \in Upload : i <= uploads => i <= uploads'
      BY <2>1
    <3> QED
      BY <1>a, <2>1, <2>2, <2>3, <3>1, <3>2 DEF TypeOK
  <2>5. target'[cur'] = c /\ (created'[cur'] <=> c \notin present)
    BY <1>a, <2>1, <2>2 DEF TypeOK
  <2>6. cur' \notin durable
    BY <1>a, <2>3 DEF TypeOK
  <2> QED
    BY <1>c, <2>1, <2>3, <2>4, <2>5, <2>6
<1>7. CASE WriteManifest
  BY <1>a, <1>7 DEF WriteManifest, GoTo
<1>8. CASE PrepareFails
  BY <1>a, <1>8 DEF PrepareFails, Return, Forget, TypeOK
<1>9. CASE Activate
  BY <1>a, <1>b, <1>9 DEF Activate, Installed, GoTo
<1>10. CASE ActivateFails
  BY <1>a, <1>b, <1>10 DEF ActivateFails, Installed, BeginRollback
<1>11. ASSUME Record, pc = "mutate"
       PROVE  /\ Named' \/ ~UNCHANGED <<cur, game, target>>
              /\ \A i \in Upload : Committed(i)' => Committed(i) \/ i = cur
  <2>1. game \in Game /\ name \in Slug /\ cur \in Upload /\ target[cur] \in Cover
    BY <1>a, <1>b, <1>11
  <2>2. slug'[game] = name /\ coverUrl'[game] = target[cur]
    BY <1>a, <1>11, <2>1, WriteTyped DEF Record
  <2>3. name # NoSlug
    BY <2>1, ConstantsAssumption
  <2>4. \A i \in Upload \ {cur} : receipt'[i] = receipt[i]
    BY <1>a, <1>11 DEF Record, TypeOK
  <2> QED
    BY <2>1, <2>2, <2>3, <2>4
<1>12. CASE Mutate
  <2>1. /\ pc = "mutate" /\ pc' = "target" /\ ctx' = ctx /\ finalizing' /\ outcome' = "ok" /\ ctx = "upload"
        /\ UNCHANGED <<volume, manifests, cur, game, name, pending>>
        /\ cur \in stages
    BY <1>a, <1>12 DEF Mutate
  <2>2. Named' /\ \A i \in Upload : Committed(i)' => Committed(i) \/ i = cur
    BY <1>11, <1>12, <2>1 DEF Mutate
  <2>3. target[cur] \in present
    BY <1>a, <2>1
  <2> QED
    BY <1>a, <2>1, <2>2, <2>3
<1>13. CASE MutateRejected
  BY <1>a, <1>13 DEF MutateRejected, GoTo
<1>14. CASE MutateFails
  <2>1. /\ pc = "mutate" /\ pc' = "resolve" /\ ctx = "upload" /\ cur \in stages
        /\ UNCHANGED <<volume, manifests, ctx, cur, game, name, finalizing, pending, outcome, before>>
    BY <1>a, <1>14 DEF MutateFails, GoTo
  <2>2. \/ Named' /\ \A i \in Upload : Committed(i)' => Committed(i) \/ i = cur
        \/ UNCHANGED database
    BY <1>11, <1>14, <2>1 DEF MutateFails
  <2> QED
    BY <1>a, <2>1, <2>2
<1>15. CASE ResolveReceipt
  <2>1. CASE Committed(cur)
    BY <1>a, <1>15, <2>1 DEF ResolveReceipt
  <2>2. CASE ~Committed(cur)
    BY <1>a, <1>15, <2>2 DEF ResolveReceipt, BeginRollback
  <2> QED
    BY <2>1, <2>2
<1>16. CASE ReadBackFails
  BY <1>a, <1>16 DEF ReadBackFails
<1>17. CASE RollbackTarget
  BY <1>a, <1>b, <1>17 DEF RollbackTarget, GoTo
<1>18. CASE FinalizeTarget
  <2>1. CASE GoTo("old")
    <3>1. /\ pc = "target" /\ UNCHANGED <<database, stages, durable, incoming, manifests>>
          /\ Referenced(target[cur]) => UNCHANGED present
      BY <1>18 DEF FinalizeTarget
    <3>2. ctx = "upload" => Referenced(target[cur])
      BY <1>a, <3>1, ConstantsAssumption DEF Referenced, ReferencedByOther
    <3> QED
      BY <1>a, <2>1, <3>1, <3>2 DEF GoTo
  <2>2. CASE StageDone(TRUE)
    BY <1>a, <1>18, <2>2, EndsPlaced DEF FinalizeTarget
  <2> QED
    BY <1>18, <2>1, <2>2 DEF FinalizeTarget
<1>19. CASE FinalizeOld
  <2>1. /\ pc = "old" /\ GoTo("remove") /\ UNCHANGED <<database, stages, durable, incoming, manifests>>
        /\ present' = IF Referenced(old[cur]) THEN present ELSE present \ {old[cur]}
    BY <1>19 DEF FinalizeOld
  <2>2. ctx = "upload" => Referenced(target[cur])
    BY <1>a, <2>1, ConstantsAssumption DEF Referenced, ReferencedByOther
  <2>3. ctx = "upload" => target[cur] \in present'
    BY <1>a, <2>1, <2>2
  <2> QED
    BY <1>a, <2>1, <2>3 DEF GoTo
<1>20. CASE RemoveManifest \/ RemoveIncoming
  BY <1>a, <1>20 DEF RemoveManifest, RemoveIncoming
<1>21. CASE RemoveStageDir
  <2>1. /\ pc = "remove" /\ stages' = stages \ {cur} /\ UNCHANGED <<database, present, manifests>>
        /\ pending \subseteq stages' /\ cur \in Upload /\ cur <= uploads
    BY <1>a, <1>b, <1>21 DEF RemoveStageDir, TypeOK
  <2>2. CASE finalizing /\ GoTo("receipt")
    BY <1>a, <2>1, <2>2 DEF GoTo
  <2>3. CASE StageDone(FALSE)
    BY <1>a, <2>1, <2>3, EndsPlaced
  <2> QED
    BY <1>21, <2>2, <2>3 DEF RemoveStageDir
<1>22. CASE DropReceipt
  <2>1. /\ StageDone(FALSE) /\ UNCHANGED <<volume, manifests>>
        /\ \A i \in Upload : Committed(i)' => Committed(i)
    BY <1>a, <1>22 DEF DropReceipt, TypeOK
  <2> QED
    BY <1>a, <2>1, EndsPlaced
<1>23. CASE ResolutionFails
  <2>1. StageDone(TRUE) /\ UNCHANGED <<database, volume, manifests>>
    BY <1>23 DEF ResolutionFails
  <2> QED
    BY <1>a, <2>1, EndsPlaced
<1>24. ASSUME NEW i \in Upload, RecoverStage(i) PROVE PlaceInv'
  <2>1. /\ pc = "recover" /\ i \in stages /\ pending' = pending \ {i} /\ cur' = i
        /\ UNCHANGED <<database, volume, manifests>>
    BY <1>a, <1>24 DEF RecoverStage
  <2>2. CASE i \notin durable
    BY <1>a, <1>c, <1>24, <2>1, <2>2 DEF RecoverStage
  <2>3. CASE i \in durable /\ Committed(i)
    BY <1>a, <1>c, <1>24, <2>1, <2>3 DEF RecoverStage
  <2>4. CASE i \in durable /\ ~Committed(i)
    BY <1>a, <1>c, <1>24, <2>1, <2>4 DEF RecoverStage, BeginRollback
  <2> QED
    BY <2>2, <2>3, <2>4
<1>25. ASSUME NEW i \in Upload, RecoverStageFails(i) PROVE PlaceInv'
  BY <1>a, <1>c, <1>25 DEF RecoverStageFails
<1>26. CASE RecoveryDone
  BY <1>a, <1>c, <1>26 DEF RecoveryDone, GoTo
<1>27. CASE UNCHANGED vars
  BY <1>a, <1>27 DEF vars
<1>28. CASE Stop
  BY <1>a, <1>c, <1>28 DEF Stop
<1>29. ASSUME NEW g \in Game, NEW n \in Slug, ImportGame(g, n) PROVE PlaceInv'
  BY <1>a, <1>c, <1>29 DEF ImportGame, ReplaceDirectory
<1> QED
  BY <1>28, <1>29, <1>1, <1>2, <1>3, <1>4, <1>5, <1>6, <1>7, <1>8, <1>9, <1>10, <1>12, <1>13, <1>14, <1>15, <1>16, <1>17,
     <1>18, <1>19, <1>20, <1>21, <1>22, <1>23, <1>24, <1>25, <1>26, <1>27 DEF Next, Work, Fail, Request

----------------------------------------------------------------------------
(* Recovery and interruptions                                              *)

LEMMA CleanStep == ASSUME StateInv, CleanInv, [Next]_vars PROVE CleanInv'
<1>a. TypeOK /\ BornInv /\ ProcessInv /\ ctx \in {"startup", "upload"}
  BY DEF StateInv, TypeOK
<1>0. SUFFICES ASSUME ctx' = "startup", pc' \in {"recover"} \cup Resolving, ~errors'
               PROVE  stages' \subseteq pending' \cup {cur'}
  BY <1>0 DEF CleanInv
<1> USE DEF Resolving, AtRest, Forward, database, volume, manifests, process
<1>1. CASE Start
  BY <1>1 DEF Start
<1>2. ASSUME NEW E \in BOOLEAN, StageDone(E), pc \in Resolving,
             \/ UNCHANGED stages /\ (E \/ pc = "receipt")
             \/ stages' = stages \ {cur}
      PROVE  stages' \subseteq pending' \cup {cur'}
  <2>1. ctx = "startup" /\ pending' = pending /\ ~errors /\ ~E
    BY <1>a, <1>0, <1>2, StageDoneFacts
  <2>2. stages \subseteq pending \cup {cur}
    BY <1>2, <2>1 DEF CleanInv
  <2>3. pc = "receipt" => cur \notin stages
    BY <1>a DEF ProcessInv
  <2> QED
    BY <1>2, <2>1, <2>2, <2>3
<1>3. CASE RollbackTarget \/ FinalizeOld \/ RemoveManifest \/ RemoveIncoming
  BY <1>0, <1>3 DEF CleanInv, RollbackTarget, FinalizeOld, RemoveManifest, RemoveIncoming, GoTo
<1>4. CASE FinalizeTarget
  <2>1. CASE GoTo("old")
    BY <1>0, <1>4, <2>1 DEF CleanInv, FinalizeTarget, GoTo
  <2>2. CASE StageDone(TRUE)
    BY <1>2, <1>4, <2>2 DEF FinalizeTarget
  <2> QED
    BY <1>4, <2>1, <2>2 DEF FinalizeTarget
<1>5. CASE RemoveStageDir
  <2>1. CASE GoTo("receipt")
    BY <1>0, <1>5, <2>1 DEF CleanInv, RemoveStageDir, GoTo
  <2>2. CASE StageDone(FALSE)
    BY <1>2, <1>5, <2>2 DEF RemoveStageDir
  <2> QED
    BY <1>5, <2>1, <2>2 DEF RemoveStageDir
<1>6. CASE DropReceipt
  BY <1>2, <1>6 DEF DropReceipt
<1>7. CASE ResolutionFails
  <2>1. pc \in Resolving /\ StageDone(TRUE) /\ UNCHANGED stages
    BY <1>7 DEF ResolutionFails
  <2> QED
    BY <1>2, <2>1
<1>8. ASSUME NEW i \in Upload, RecoverStage(i) PROVE stages' \subseteq pending' \cup {cur'}
  <2>1. /\ pc = "recover" /\ ctx = "startup" /\ pending' = pending \ {i} /\ cur' = i /\ UNCHANGED stages
    BY <1>a, <1>8 DEF RecoverStage, ProcessInv
  <2>2. ~errors /\ cur = None
    BY <1>a, <1>0, <1>8, <2>1 DEF RecoverStage, BeginRollback, ProcessInv
  <2>3. None \notin stages
    BY <1>a, SetFacts DEF TypeOK
  <2> QED
    BY <2>1, <2>2, <2>3 DEF CleanInv
<1>9. ASSUME NEW i \in Upload PROVE ~RecoverStageFails(i)
  BY <1>0 DEF RecoverStageFails
<1>10. CASE UNCHANGED vars
  BY <1>0, <1>10 DEF CleanInv, vars
<1>11. /\ ~Crash /\ ~CleanUp /\ ~CleanUpFails /\ ~PrepareFails /\ ~ResolveFails /\ ~RecoveryDone
       /\ ~WriteManifest /\ ~Activate /\ ~MutateRejected /\ ~MutateFails
  BY <1>0 DEF Crash, CleanUp, CleanUpFails, PrepareFails, ResolveFails, RecoveryDone, Return, WriteManifest,
              Activate, MutateRejected, MutateFails, GoTo
<1>12. ~ActivateFails /\ ~Mutate /\ ~ResolveReceipt
  BY <1>a, <1>0 DEF ActivateFails, Mutate, ResolveReceipt, BeginRollback, ProcessInv
<1>13. CASE ReadBackFails
  BY <1>0, <1>13 DEF CleanInv, ReadBackFails
<1>14. \A g \in Game, n \in Slug : \A c \in Cover \cup {NoCover} : ~SaveGame(g, n, c)
  BY <1>0 DEF SaveGame
<1>15. \A g \in Game : ~DeleteGame(g)
  BY <1>0 DEF DeleteGame
<1>16. \A g \in Game, n \in Slug, c \in Cover : ~UploadCover(g, n, c)
  BY <1>0 DEF UploadCover
<1>17. ~Stop /\ \A g \in Game, n \in Slug : ~ImportGame(g, n)
  BY <1>0 DEF Stop, ImportGame, ReplaceDirectory
<1> QED
  BY <1>17, <1>1, <1>3, <1>4, <1>5, <1>6, <1>7, <1>8, <1>9, <1>10, <1>11, <1>12, <1>13, <1>14, <1>15, <1>16
     DEF Next, Work, Fail, Request

LEMMA FaultsCounted ==
  ASSUME TypeOK, [Next]_vars, faults' = 0
  PROVE  ~Fail /\ UNCHANGED faults
<1>1. faults \in Nat
  BY Counters
<1>2. ~Fault
  BY <1>1 DEF Fault
<1>3. ~Fail
  BY <1>2 DEF Fail, CleanUpFails, PrepareFails, ActivateFails, MutateFails, ResolveFails, ReadBackFails,
              ResolutionFails, RecoverStageFails
<1> QED
  BY <1>3 DEF Next, Work, Request, vars, Start, Stop, Crash, SaveGame, DeleteGame, ImportGame, ReplaceDirectory,
              UploadCover, CleanUp, WriteManifest, Activate, Mutate, MutateRejected, ResolveReceipt, RollbackTarget,
              FinalizeTarget, FinalizeOld, RemoveManifest, RemoveIncoming, RemoveStageDir, DropReceipt,
              RecoverStage, RecoveryDone

LEMMA FaultlessStep == ASSUME StateInv, CleanInv, FaultlessInv, [Next]_vars PROVE FaultlessInv'
<1>a. TypeOK /\ BornInv /\ ProcessInv /\ UploadInv /\ ctx \in {"startup", "upload"} /\ None \notin stages
  BY SetFacts DEF StateInv, TypeOK
<1> DEFINE Goal == crowded' = {} /\ (ctx' = "upload" => stages' \subseteq {cur'})
                   /\ (pc' \in {"serving", "cleanup"} => stages' = {})
<1>0. SUFFICES ASSUME faults' = 0 PROVE Goal
  BY <1>0 DEF FaultlessInv
<1>1. ~Fail /\ faults = 0
  BY <1>a, <1>0, FaultsCounted
<1>2. /\ crowded = {} /\ (ctx = "upload" => stages \subseteq {cur})
      /\ pc \in {"serving", "cleanup"} => stages = {}
  BY <1>1 DEF FaultlessInv
<1>3. pc \in AtRest \cup {"cleanup"} => ctx = "startup" /\ cur = None
  BY <1>a DEF ProcessInv
<1> USE DEF AtRest, Forward, Resolving, database, volume, manifests, process
<1>4. ASSUME NEW g \in Game, NEW n, NEW c, Write(g, n, c), stages \subseteq {cur} PROVE crowded' = {}
  <2>1. durable \ {cur} = {}
    BY <1>a, <1>4 DEF TypeOK
  <2>2. ~MayBeTaken(c, g)
    BY <2>1 DEF MayBeTaken
  <2> QED
    BY <1>2, <1>4, <2>2 DEF Write
<1>5. ASSUME NEW g \in Game, NEW n \in Slug, NEW c \in Cover \cup {NoCover}, SaveGame(g, n, c) PROVE Goal
  <2>1. stages = {} /\ UNCHANGED <<stages, ctx>> /\ ctx = "startup"
    BY <1>2, <1>3, <1>5 DEF SaveGame
  <2>2. crowded' = {}
    BY <1>4, <1>5, <2>1 DEF SaveGame
  <2> QED
    BY <2>1, <2>2
<1>6. ASSUME NEW g \in Game, DeleteGame(g) PROVE Goal
  BY <1>2, <1>6 DEF DeleteGame
<1>7. ASSUME NEW g \in Game, NEW n \in Slug, ImportGame(g, n) PROVE Goal
  BY <1>2, <1>7 DEF ImportGame, ReplaceDirectory
<1>8. ASSUME NEW g \in Game, NEW n \in Slug, NEW c \in Cover, UploadCover(g, n, c) PROVE Goal
  BY <1>2, <1>8 DEF UploadCover
<1>9. CASE Start \/ Stop \/ Crash \/ CleanUp \/ UNCHANGED vars
  BY <1>2, <1>3, <1>9 DEF Start, Stop, Crash, CleanUp, Return, vars
<1>10. CASE RecoveryDone
  <2>1. pc = "recover" /\ pending = {} /\ (~errors \/ pc' = "refused") /\ UNCHANGED <<stages, crowded, ctx>>
    BY <1>10 DEF RecoveryDone, GoTo
  <2>2. pc' = "serving" => stages = {}
    BY <1>a, <1>3, <1>10, <2>1 DEF CleanInv, RecoveryDone, GoTo
  <2> QED
    BY <1>2, <1>3, <1>10, <2>1, <2>2 DEF RecoveryDone, GoTo
<1>11. CASE WriteManifest \/ Activate \/ MutateRejected \/ RollbackTarget \/ FinalizeOld
            \/ RemoveManifest \/ RemoveIncoming
  BY <1>2, <1>11 DEF WriteManifest, Activate, MutateRejected, RollbackTarget, FinalizeOld, RemoveManifest,
                     RemoveIncoming, GoTo
<1>12. CASE ResolveReceipt
  BY <1>2, <1>12 DEF ResolveReceipt, BeginRollback
<1>13. CASE Mutate
  <2>1. ctx = "upload" /\ game \in Game /\ stages \subseteq {cur} /\ pc' = "target" /\ UNCHANGED <<ctx, cur, stages>>
    BY <1>a, <1>2, <1>13 DEF Mutate, ProcessInv
  <2>2. crowded' = {}
    BY <1>4, <1>13, <2>1 DEF Mutate, Record
  <2> QED
    BY <2>1, <2>2
<1>14. ASSUME NEW E \in BOOLEAN, StageDone(E), UNCHANGED crowded, ctx = "upload" => stages' = {} PROVE Goal
  <2>1. ctx' = "startup" /\ (ctx = "upload" => pc' = "serving") /\ (ctx = "startup" => pc' = "recover")
    BY <1>a, <1>14, StageDoneFacts
  <2> QED
    BY <1>a, <1>2, <1>14, <2>1
<1>15. CASE FinalizeTarget
  <2>1. CASE GoTo("old")
    BY <1>2, <1>15, <2>1 DEF FinalizeTarget, GoTo
  <2>2. CASE Referenced(target[cur]) /\ target[cur] \notin present /\ StageDone(TRUE)
    <3>1. ctx = "startup"
      BY <1>a, <1>15, <2>2 DEF FinalizeTarget, ProcessInv, UploadInv
    <3> QED
      BY <1>14, <1>15, <2>2, <3>1 DEF FinalizeTarget
  <2> QED
    BY <1>15, <2>1, <2>2 DEF FinalizeTarget
<1>16. CASE RemoveStageDir
  <2>1. CASE GoTo("receipt")
    BY <1>2, <1>16, <2>1 DEF RemoveStageDir, GoTo
  <2>2. CASE StageDone(FALSE)
    BY <1>2, <1>14, <1>16, <2>2 DEF RemoveStageDir
  <2> QED
    BY <1>16, <2>1, <2>2 DEF RemoveStageDir
<1>17. CASE DropReceipt
  <2>1. ctx = "upload" => stages = {}
    BY <1>a, <1>2, <1>17 DEF DropReceipt, ProcessInv
  <2> QED
    BY <1>14, <1>17, <2>1 DEF DropReceipt
<1>18. ASSUME NEW i \in Upload, RecoverStage(i) PROVE Goal
  BY <1>2, <1>3, <1>18 DEF RecoverStage, BeginRollback
<1> QED
  BY <1>1, <1>5, <1>6, <1>7, <1>8, <1>9, <1>10, <1>11, <1>12, <1>13, <1>15, <1>16, <1>17, <1>18
     DEF Next, Work, Request

----------------------------------------------------------------------------
(* The covers that rows name                                               *)

LEMMA ReferencedIs == ASSUME NEW c PROVE Referenced(c) <=> \E g \in Live : coverUrl[g] = c
BY ConstantsAssumption DEF Referenced, ReferencedByOther, Live

\* Unlinking a cover that no row names, but excepted ones, takes none that a row names.
LEMMA UnlinkUnreferenced ==
  ASSUME CoversInv, NEW c, \A g \in Live : coverUrl[g] = c => g \in Excepted, UNCHANGED database,
         present' = present \ {c}
  PROVE  CoversInv'
BY DEF CoversInv, Excepted, Live, database

LEMMA PresentGrows ==
  ASSUME CoversInv, UNCHANGED <<slug, coverUrl, crowded, overwritten>>, present \subseteq present'
  PROVE  CoversInv'
BY DEF CoversInv, Excepted, Live

\* Another row's exception outlives the writing of a row.
LEMMA OthersExcepted ==
  ASSUME TypeOK, NEW g \in Game, NEW n \in Slug, NEW c \in Cover \cup {NoCover}, Write(g, n, c)
  PROVE  /\ \A h \in Game \ {g} : h \in Excepted' <=> h \in Excepted
         /\ c \notin present => (g \in Excepted => g \in Excepted')
         /\ MayBeTaken(c, g) => g \in Excepted'
         /\ \A h \in Game \ {g} : h \in Live' <=> h \in Live
BY WriteTyped DEF Write, Excepted, Live

\* A row that is written names no cover, one that is there, or the one it named before.
LEMMA RowWritten ==
  ASSUME TypeOK, CoversInv, NEW g \in Game, NEW n \in Slug, NEW c \in Cover \cup {NoCover},
         Write(g, n, c), c \in present \cup {NoCover} \/ (g \in Live /\ c = coverUrl[g]), UNCHANGED present
  PROVE  CoversInv'
<1>1. /\ coverUrl'[g] = c /\ \A h \in Game \ {g} : slug'[h] = slug[h] /\ coverUrl'[h] = coverUrl[h]
  BY WriteTyped
<1>2. ASSUME NEW h \in Live' \ {g}, coverUrl'[h] # NoCover PROVE coverUrl'[h] \in present' \/ h \in Excepted'
  BY <1>1, <1>2, OthersExcepted DEF CoversInv, Live
<1>3. ASSUME c # NoCover PROVE c \in present' \/ g \in Excepted'
  BY <1>3, OthersExcepted DEF CoversInv
<1> QED
  BY <1>1, <1>2, <1>3 DEF CoversInv

\* A deletion takes no directory that another row's cover lies in.
LEMMA DeletionSpares ==
  ASSUME TypeOK, CoversInv, NEW g \in Game, DeleteGame(g)
  PROVE  CoversInv'
<1>1. /\ slug'[g] = NoSlug /\ \A h \in Game \ {g} : slug'[h] = slug[h] /\ coverUrl'[h] = coverUrl[h]
  BY DEF TypeOK, DeleteGame
<1>2. ASSUME NEW h \in Live \ {g}, coverUrl[h] # NoCover, coverUrl[h] \in present PROVE coverUrl[h] \in present'
  <2>1. coverUrl[h] \in Cover
    BY <1>2 DEF TypeOK, Live
  <2>2. NamespaceOf[coverUrl[h]] \in {NamespaceOf[c] : c \in Cover \cap {coverUrl[h]}}
    BY <2>1
  <2>3. NamespaceOf[coverUrl[h]] \in UNION {tracked[k] \cup {NamespaceOf[c] : c \in Cover \cap {coverUrl[k]}}
                                              : k \in Live \ {g}}
    BY <2>2
  <2> QED
    BY <1>2, <2>1, <2>3 DEF DeleteGame
<1>3. \A h \in Excepted \ {g} : h \in Excepted'
  BY DEF DeleteGame, Excepted
<1> QED
  BY <1>1, <1>2, <1>3 DEF CoversInv, Live

\* An import takes covers of other rows only from directories they do not track.
LEMMA ImportExcepts ==
  ASSUME TypeOK, NEW g \in Game, NEW n \in Slug, ImportGame(g, n)
  PROVE  /\ coverUrl'[g] = NoCover /\ \A h \in Game \ {g} : slug'[h] = slug[h] /\ coverUrl'[h] = coverUrl[h]
         /\ \A h \in Excepted \ {g} : h \in Excepted'
         /\ \A h \in Live \ {g} : coverUrl[h] \in present => coverUrl[h] \in present' \/ h \in Excepted'
<1>1. ReplaceDirectory(g, n) /\ \A h \in Game \ {g} : n \notin tracked[h]
  BY DEF ImportGame
<1>2. \A h \in Live \ {g} : Lies(coverUrl[h], n) => h \in Excepted'
  BY <1>1 DEF ReplaceDirectory, Excepted, Live
<1>3. \A h \in Excepted \ {g} : h \in Excepted'
  BY <1>1 DEF ReplaceDirectory, Excepted
<1> QED
  BY <1>1, <1>2, <1>3 DEF ReplaceDirectory, TypeOK

LEMMA CoversStep == ASSUME StateInv, KeptInv, CoversInv, [Next]_vars PROVE CoversInv'
<1>a. TypeOK /\ BornInv /\ ProcessInv /\ UploadInv
  BY DEF StateInv
<1>1. ASSUME UNCHANGED <<slug, coverUrl, crowded, overwritten, present>> PROVE CoversInv'
  BY <1>1, PresentGrows
<1>2. CASE Activate \/ ActivateFails
  BY <1>2, PresentGrows DEF Activate, ActivateFails, Installed, database
<1>3. ASSUME NEW c, ~Referenced(c), UNCHANGED database, present' = present \ {c} PROVE CoversInv'
  BY <1>3, ReferencedIs, UnlinkUnreferenced
<1>4. CASE CleanUp
  BY <1>1, <1>3, <1>4 DEF CleanUp, database
<1>5. CASE RollbackTarget
  <2>1. CASE created[cur]
    <3>1. \A g \in Live : coverUrl[g] = target[cur] => g \in Excepted
      BY <1>a, <1>5, <2>1, ConstantsAssumption DEF RollbackTarget, ProcessInv, KeptInv, Spares, Committed, Live
    <3> QED
      BY <1>5, <2>1, <3>1, UnlinkUnreferenced DEF RollbackTarget
  <2>2. CASE ~created[cur]
    BY <1>1, <1>5, <2>2 DEF RollbackTarget, database
  <2> QED
    BY <2>1, <2>2
<1>6. CASE FinalizeTarget
  BY <1>1, <1>3, <1>6 DEF FinalizeTarget, database
<1>7. CASE FinalizeOld
  BY <1>1, <1>3, <1>7 DEF FinalizeOld, database
<1>8. ASSUME Record, pc = "mutate", UNCHANGED present PROVE CoversInv'
  <2>1. ctx = "upload" /\ game \in Game /\ name \in Slug /\ target[cur] \in Cover
    BY <1>a, <1>8, InFlight DEF ProcessInv, Forward
  <2>2. target[cur] \in present
    BY <1>a, <1>8, <2>1 DEF UploadInv
  <2> QED
    BY <1>a, <1>8, <2>1, <2>2, RowWritten DEF Record
<1>9. CASE Mutate \/ MutateFails
  BY <1>1, <1>8, <1>9 DEF Mutate, MutateFails, volume, database
<1>10. ASSUME NEW g \in Game, NEW n \in Slug, NEW c \in Cover \cup {NoCover}, SaveGame(g, n, c)
       PROVE  CoversInv'
  <2>1. /\ Write(g, n, c) /\ UNCHANGED present
        /\ c \in present \cup {NoCover} \/ c \in {coverUrl[d] : d \in Live \cap {g}}
    BY <1>10 DEF SaveGame, volume
  <2>2. c \in present \cup {NoCover} \/ (g \in Live /\ c = coverUrl[g])
    BY <2>1
  <2> QED
    BY <1>a, <2>1, <2>2, RowWritten
<1>11. ASSUME NEW g \in Game, DeleteGame(g) PROVE CoversInv'
  BY <1>a, <1>11, DeletionSpares
<1>12. ASSUME NEW g \in Game, NEW n \in Slug, ImportGame(g, n) PROVE CoversInv'
  BY <1>a, <1>12, ImportExcepts DEF CoversInv, Live
<1>13. CASE DropReceipt
  BY <1>1, <1>13 DEF DropReceipt, volume
<1> QED
  BY <1>1, <1>2, <1>4, <1>5, <1>6, <1>7, <1>9, <1>10, <1>11, <1>12, <1>13
     DEF Next, Work, Fail, Request, vars, database, volume, Start, Stop, Crash, UploadCover, WriteManifest,
         PrepareFails, MutateRejected, ResolveReceipt, ResolveFails, ReadBackFails, RemoveManifest,
         RemoveIncoming, RemoveStageDir, ResolutionFails, CleanUpFails, RecoverStage,
         RecoverStageFails, RecoveryDone

\* A row that is written is excepted, or recorded, or names no cover of a kept stage.
LEMMA WriteSpares ==
  ASSUME TypeOK, NEW g \in Game, NEW n \in Slug, NEW c \in Cover \cup {NoCover}, Write(g, n, c),
         UNCHANGED manifests, NEW i \in durable, Spares(i), i = cur => receipt'[i] = g \/ g \in Excepted',
         i = cur => ~Committed(i), i # cur => receipt'[i] = receipt[i]
  PROVE  Spares(i)'
<1>1. SUFFICES ASSUME created[i], NEW h \in Live', coverUrl'[h] = target[i]
               PROVE  receipt'[i] = h \/ h \in Excepted'
  BY DEF Spares, manifests
<1>2. h \in Game
  BY <1>1 DEF Live
<1>3. CASE h = g
  <2>1. c = target[i]
    BY <1>1, <1>3, WriteTyped
  <2>2. i # cur => receipt[i] = g \/ MayBeTaken(c, g)
    BY <1>1, <2>1 DEF MayBeTaken
  <2> QED
    BY <1>3, <2>2, OthersExcepted
<1>4. CASE h # g
  <2>1. h \in Live /\ coverUrl[h] = target[i] /\ (h \in Excepted => h \in Excepted')
    BY <1>1, <1>2, <1>4, WriteTyped, OthersExcepted
  <2>2. receipt[i] = h \/ h \in Excepted
    BY <1>1, <2>1 DEF Spares
  <2>3. i = cur => receipt[i] # h
    BY <1>2, ConstantsAssumption DEF Committed
  <2> QED
    BY <2>1, <2>2, <2>3
<1> QED
  BY <1>3, <1>4

LEMMA KeptStep == ASSUME StateInv, KeptInv, CoversInv, [Next]_vars PROVE KeptInv'
<1>a. TypeOK /\ BornInv /\ ProcessInv /\ UploadInv /\ durable \subseteq Upload
  BY DEF StateInv, TypeOK
<1>b. pc \in AtRest \cup {"cleanup"} => cur = None
  BY <1>a DEF ProcessInv
<1>1. ASSUME UNCHANGED <<slug, coverUrl, crowded, overwritten>>, UNCHANGED <<target, created>>,
             \A i \in durable' : receipt'[i] = receipt[i],
             durable' \subseteq durable \/ (pc = "prepare" /\ durable' = durable \cup {cur}),
             pc' # "prepare" \/ UNCHANGED <<pc, cur, receipt>>
      PROVE  KeptInv'
  <2>1. \A i \in durable' : Spares(i)
    BY <1>1 DEF KeptInv
  <2>2. \A i \in durable' : Spares(i)'
    BY <1>1, <2>1 DEF Spares, Live, Excepted
  <2>3. pc' = "prepare" => Spares(cur)'
    BY <1>1 DEF KeptInv, Spares, Live, Excepted
  <2> QED
    BY <2>2, <2>3 DEF KeptInv
<1>2. ASSUME NEW g \in Game, NEW n \in Slug, NEW c \in Cover \cup {NoCover}, SaveGame(g, n, c) PROVE KeptInv'
  <2>1. Write(g, n, c) /\ UNCHANGED <<receipt, durable, manifests>> /\ pc' # "prepare" /\ cur = None
    BY <1>b, <1>2 DEF SaveGame, volume, AtRest
  <2>2. \A i \in durable : i # cur
    BY <1>a, <2>1, SetFacts
  <2>3. \A i \in durable : Spares(i)'
    BY <1>a, <2>1, <2>2, WriteSpares DEF KeptInv
  <2> QED
    BY <2>1, <2>3 DEF KeptInv
<1>3. ASSUME Record, pc = "mutate", UNCHANGED <<durable, manifests>>, pc' # "prepare" PROVE KeptInv'
  <2>1. game \in Game /\ name \in Slug /\ cur \in Upload /\ target[cur] \in Cover /\ ~Committed(cur)
    BY <1>a, <1>3, InFlight DEF ProcessInv, UploadInv, Forward
  <2>2. Write(game, name, target[cur]) /\ receipt' = [receipt EXCEPT ![cur] = game]
    BY <1>3 DEF Record
  <2>3. receipt'[cur] = game /\ \A i \in durable : i # cur => receipt'[i] = receipt[i]
    BY <1>a, <2>1, <2>2 DEF TypeOK
  <2>4. \A i \in durable : Spares(i)'
    BY <1>a, <1>3, <2>1, <2>2, <2>3, WriteSpares DEF KeptInv
  <2> QED
    BY <1>3, <2>4 DEF KeptInv
<1>4. CASE Mutate \/ MutateFails
  <2>1. pc = "mutate" /\ pc' # "prepare" /\ UNCHANGED <<durable, manifests>>
    BY <1>4 DEF Mutate, MutateFails, GoTo, volume
  <2>2. CASE Record
    BY <1>3, <2>1, <2>2
  <2>3. CASE UNCHANGED database
    BY <1>1, <2>1, <2>3 DEF database, manifests
  <2> QED
    BY <1>4, <2>2, <2>3 DEF Mutate, MutateFails
<1>5. ASSUME NEW g \in Game, DeleteGame(g) PROVE KeptInv'
  <2>1. /\ \A h \in Live' : h \in Live /\ h # g /\ coverUrl'[h] = coverUrl[h] /\ (h \in Excepted => h \in Excepted')
    BY <1>a, <1>5 DEF DeleteGame, Live, Excepted, TypeOK
  <2>2. \A i \in Upload : receipt[i] # g => receipt'[i] = receipt[i]
    BY <1>5 DEF DeleteGame
  <2>3. UNCHANGED <<durable, target, created>> /\ pc' # "prepare"
    BY <1>5 DEF DeleteGame, manifests, process
  <2>4. \A i \in durable : Spares(i)'
    BY <1>a, <2>1, <2>2, <2>3 DEF KeptInv, Spares
  <2> QED
    BY <2>3, <2>4 DEF KeptInv
<1>6. ASSUME NEW g \in Game, NEW n \in Slug, ImportGame(g, n) PROVE KeptInv'
  <2>1. UNCHANGED <<receipt, durable, target, created>> /\ pc' # "prepare"
    BY <1>6 DEF ImportGame, ReplaceDirectory, manifests, process
  <2>2. \A i \in durable : target[i] \in Cover
    BY <1>a DEF BornInv, TypeOK
  <2>3. \A h \in Live' : coverUrl'[h] # NoCover =>
          h \in Live /\ coverUrl'[h] = coverUrl[h] /\ (h \in Excepted => h \in Excepted')
    BY <1>a, <1>6, ImportExcepts DEF Live
  <2>4. \A i \in durable : Spares(i)'
    BY <2>1, <2>2, <2>3, ConstantsAssumption DEF KeptInv, Spares
  <2> QED
    BY <2>1, <2>4 DEF KeptInv
<1>7. ASSUME NEW g \in Game, NEW n \in Slug, NEW c \in Cover, UploadCover(g, n, c) PROVE KeptInv'
  <2>1. /\ uploads < MaxUploads /\ uploads \in Nat /\ cur' = uploads + 1
        /\ target' = [target EXCEPT ![cur'] = c] /\ created' = [created EXCEPT ![cur'] = c \notin present]
        /\ UNCHANGED <<database, durable>>
    BY <1>a, <1>7 DEF UploadCover, TypeOK
  <2>2. cur' \in Upload /\ cur' \notin durable
    BY <1>a, <2>1, SetFacts DEF BornInv, TypeOK
  <2>3. target'[cur'] = c /\ (created'[cur'] => c \notin present)
    BY <1>a, <2>1, <2>2 DEF TypeOK
  <2>4. \A i \in durable : target'[i] = target[i] /\ created'[i] = created[i]
    BY <1>a, <2>1, <2>2 DEF TypeOK
  <2>5. \A i \in durable : Spares(i)'
    BY <2>1, <2>4 DEF KeptInv, Spares, Live, Excepted, database
  <2>6. c \notin present => \A h \in Live : coverUrl[h] = c => h \in Excepted
    BY <1>7, ConstantsAssumption DEF CoversInv
  <2>7. Spares(cur)'
    BY <2>1, <2>3, <2>6 DEF Spares, Live, Excepted, database
  <2> QED
    BY <2>1, <2>5, <2>7 DEF KeptInv
<1>8. CASE DropReceipt
  <2>1. cur \notin durable /\ UNCHANGED <<slug, coverUrl, crowded, overwritten, volume, manifests>>
    BY <1>a, <1>8 DEF DropReceipt, ProcessInv, TypeOK
  <2>2. \A i \in durable : receipt'[i] = receipt[i]
    BY <1>a, <1>8, <2>1 DEF DropReceipt, TypeOK
  <2>3. pc' # "prepare"
    BY <1>a, <1>8, StageDoneFacts DEF DropReceipt, TypeOK
  <2> QED
    BY <1>1, <2>1, <2>2, <2>3 DEF volume, manifests
<1>9. CASE WriteManifest
  BY <1>1, <1>9 DEF WriteManifest, GoTo, database, manifests
<1>10. ASSUME NEW E \in BOOLEAN, StageDone(E) PROVE pc' # "prepare"
  BY <1>a, <1>10, StageDoneFacts DEF TypeOK
<1>11. CASE FinalizeTarget \/ RemoveStageDir \/ ResolutionFails
  <2>1. UNCHANGED <<database, durable, manifests>>
    BY <1>11 DEF FinalizeTarget, RemoveStageDir, ResolutionFails, volume
  <2>2. pc' # "prepare"
    BY <1>10, <1>11 DEF FinalizeTarget, RemoveStageDir, ResolutionFails, GoTo
  <2> QED
    BY <1>1, <2>1, <2>2 DEF database, manifests
<1>12. CASE \/ Start \/ Stop \/ Crash \/ CleanUp \/ CleanUpFails \/ PrepareFails \/ Activate \/ ActivateFails
            \/ MutateRejected \/ ResolveReceipt \/ ResolveFails \/ RollbackTarget \/ FinalizeOld
            \/ RecoveryDone \/ \E i \in Upload : RecoverStage(i)
  <2>1. UNCHANGED <<database, durable, manifests>>
    BY <1>12 DEF Start, Stop, Crash, CleanUp, CleanUpFails, PrepareFails, Activate, ActivateFails,
                 MutateRejected, ResolveReceipt, ResolveFails, RollbackTarget, FinalizeOld,
                 RecoveryDone, RecoverStage, volume
  <2>2. pc' # "prepare"
    BY <1>12 DEF Start, Stop, Crash, CleanUp, CleanUpFails, PrepareFails, Activate, ActivateFails,
                 MutateRejected, ResolveReceipt, ResolveFails, RollbackTarget, FinalizeOld,
                 RecoveryDone, RecoverStage, BeginRollback, Return, GoTo
  <2> QED
    BY <1>1, <2>1, <2>2 DEF database, manifests
<1>13. CASE RemoveManifest \/ RemoveIncoming \/ ReadBackFails \/ UNCHANGED vars
            \/ \E i \in Upload : RecoverStageFails(i)
  BY <1>1, <1>13 DEF RemoveManifest, RemoveIncoming, ReadBackFails, RecoverStageFails, vars, database, volume,
                     manifests, process
<1> QED
  BY <1>2, <1>4, <1>5, <1>6, <1>7, <1>8, <1>9, <1>11, <1>12, <1>13 DEF Next, Work, Fail, Request

----------------------------------------------------------------------------
(* The theorems                                                            *)

LEMMA InitCoverInv == Init => CoverInv
<1> SUFFICES ASSUME Init PROVE CoverInv
  OBVIOUS
<1>1. TypeOK
  <2>1. errors \in BOOLEAN /\ finalizing \in BOOLEAN
    BY Zenon DEF Init
  <2> QED
    BY <2>1, SetFacts DEF Init, TypeOK
<1>2. BornInv /\ ProcessInv
  BY SetFacts DEF Init, BornInv, ProcessInv, Committed, AtRest, Forward, Resolving
<1>3. UploadInv /\ CleanInv /\ FaultlessInv /\ KeptInv /\ CoversInv
  BY DEF Init, UploadInv, CleanInv, FaultlessInv, KeptInv, CoversInv, AtRest, Resolving, Live
<1> QED
  BY <1>1, <1>2, <1>3 DEF CoverInv, StateInv

LEMMA NextCoverInv == CoverInv /\ [Next]_vars => CoverInv'
<1> SUFFICES ASSUME CoverInv, [Next]_vars PROVE CoverInv'
  OBVIOUS
<1>1. StateInv'
  BY TypeStep, PlaceStep DEF CoverInv, StateInv, PlaceInv
<1> QED
  BY <1>1, CleanStep, FaultlessStep, KeptStep, CoversStep DEF CoverInv

\* The inductive invariant of an upload, over any crashes, failures, ordinary restarts
\* and imports: a rollback takes a cover only from a row that came to name it while the
\* stage was kept, or had lost it to an import before (gameCoverStage.rollback,
\* RecoverGameCoverUploads).
THEOREM CoverInvariant == Spec => []CoverInv
BY InitCoverInv, NextCoverInv, PTL DEF Spec

\* Every variable keeps its type; a manifest and an upload are below a directory
\* that exists.
THEOREM TypeCorrect == Spec => []TypeOK
<1>1. CoverInv => TypeOK
  BY DEF CoverInv, StateInv
<1> QED
  BY <1>1, CoverInvariant, PTL

\* Every content-hash cover that a row names is on the volume, whatever crashed, failed
\* or was restarted, but for a row whose cover lay in another game's directory when an
\* import replaced that directory and, once a step has failed, a row that came to name
\* a file which a kept stage had created.
THEOREM CoversPresent == Spec => []NamedCoversArePresent
<1>1. CoverInv => NamedCoversArePresent
  <2> SUFFICES ASSUME StateInv, FaultlessInv, CoversInv PROVE NamedCoversArePresent
    BY DEF CoverInv
  <2>1. faults \in Nat
    BY Counters DEF StateInv
  <2>2. \A g \in Excepted : g \in overwritten \/ (faults > 0 /\ g \in crowded)
    BY <2>1 DEF FaultlessInv, Excepted
  <2> QED
    BY <2>2 DEF CoversInv, NamedCoversArePresent
<1> QED
  BY <1>1, CoverInvariant, PTL

\* A recovery pass that ends in serving has met no error, so every directory of
\* .atri-cover-uploads was before it and has been removed.
THEOREM StartLeavesNothing == Spec => CleanStart
<1>1. CoverInv /\ [Next]_vars => [NothingPending]_vars
  <2> SUFFICES ASSUME StateInv, CleanInv, [Next]_vars, pc = "recover", pc' = "serving" PROVE stages = {}
    BY DEF CoverInv, NothingPending
  <2>1. TypeOK /\ ctx = "startup" /\ cur = None
    BY DEF StateInv, ProcessInv, AtRest
  <2>2. ASSUME NEW E \in BOOLEAN, StageDone(E) PROVE FALSE
    BY <2>1, <2>2, StageDoneFacts
  <2>3. RecoveryDone
    BY <2>2 DEF Next, Work, Fail, Request, vars, process, Start, Stop, Crash, SaveGame, DeleteGame, ImportGame, ReplaceDirectory,
                UploadCover, CleanUp, CleanUpFails, WriteManifest, PrepareFails, Activate, ActivateFails, Mutate, MutateRejected,
                MutateFails, ResolveReceipt, ResolveFails, ReadBackFails, RollbackTarget, FinalizeTarget,
                FinalizeOld, RemoveManifest, RemoveIncoming, RemoveStageDir, DropReceipt, ResolutionFails,
                RecoverStage, RecoverStageFails, BeginRollback
  <2>4. pending = {} /\ ~errors
    BY <2>3 DEF RecoveryDone, GoTo
  <2>5. None \notin stages
    BY <2>1, SetFacts DEF TypeOK
  <2> QED
    BY <2>1, <2>4, <2>5 DEF CleanInv
<1> QED
  BY <1>1, CoverInvariant, PTL DEF Spec, CleanStart

\* What an upload returns is what happened to the row and to the covers.
THEOREM UploadIsHonest == Spec => HonestUpload
<1>1. CoverInv /\ [Next]_vars => [ReturnsWhatHappened]_vars
  <2> SUFFICES ASSUME StateInv, [Next]_vars, ctx = "upload", pc' = "serving" PROVE ReturnsWhatHappened
    BY DEF CoverInv, ReturnsWhatHappened
  <2>a. /\ TypeOK /\ BornInv /\ ProcessInv /\ UploadInv /\ pc \notin AtRest \cup {"cleanup"}
    BY DEF StateInv, ProcessInv
  <2>1. CASE PrepareFails
    <3>1. pc = "prepare" /\ outcome' = "aborted" /\ UNCHANGED <<database, present>>
      BY <2>1 DEF PrepareFails, Return
    <3> QED
      BY <2>a, <3>1 DEF UploadInv, Forward, ReturnsWhatHappened, database
  <2>2. CASE ResolveFails
    BY <2>2 DEF ResolveFails, Return, ReturnsWhatHappened
  <2>3. CASE FinalizeTarget \/ RemoveStageDir \/ DropReceipt \/ ResolutionFails
    <3>1. PICK E \in BOOLEAN : StageDone(E)
      BY <2>3 DEF FinalizeTarget, RemoveStageDir, DropReceipt, ResolutionFails, GoTo
    <3>2. outcome' = IF E /\ outcome = "restored" THEN "restoreFailed" ELSE outcome
      BY <2>a, <3>1, StageDoneFacts
    <3>3. UNCHANGED <<slug, coverUrl>>
      BY <2>3 DEF FinalizeTarget, RemoveStageDir, DropReceipt, ResolutionFails, database
    <3>4. CASE finalizing
      <4>1. outcome \in {"ok", "unread"} /\ Named /\ target[cur] \in present
        BY <2>a, <3>4 DEF UploadInv
      <4>2. Referenced(target[cur])
        BY <4>1, ReferencedIs DEF Named
      <4>3. UNCHANGED present
        BY <2>3, <4>2 DEF FinalizeTarget, RemoveStageDir, DropReceipt, ResolutionFails, volume
      <4> QED
        BY <3>2, <3>3, <4>1, <4>3 DEF ReturnsWhatHappened, Named
    <3>5. CASE ~finalizing
      <4>1. (pc = "remove" /\ (RemoveStageDir \/ ResolutionFails)) \/ (pc = "rollback" /\ ResolutionFails)
        BY <2>a, <2>3, <3>5 DEF ProcessInv, FinalizeTarget, RemoveStageDir, DropReceipt, ResolutionFails
      <4>2. /\ outcome = "restored" /\ ~Committed(cur)
            /\ pc = "remove" => present = before /\ UNCHANGED present
        BY <2>a, <3>5, <4>1 DEF UploadInv, ProcessInv, RemoveStageDir, ResolutionFails, volume
      <4>3. CASE RemoveStageDir
        BY <3>2, <4>2, <4>3 DEF RemoveStageDir, ReturnsWhatHappened
      <4>4. CASE ResolutionFails
        <5>1. StageDone(TRUE)
          BY <4>4 DEF ResolutionFails
        <5>2. outcome' = "restoreFailed"
          BY <2>a, <4>2, <5>1, StageDoneFacts
        <5> QED
          BY <5>2 DEF ReturnsWhatHappened
      <4> QED
        BY <4>1, <4>3, <4>4
    <3> QED
      BY <3>4, <3>5
  <2>5. PrepareFails \/ ResolveFails \/ FinalizeTarget \/ RemoveStageDir \/ DropReceipt \/ ResolutionFails
    BY <2>a DEF Next, Work, Fail, Request, vars, process, AtRest, Start, Stop, Crash, SaveGame, DeleteGame, ImportGame,
                ReplaceDirectory, UploadCover, CleanUp, CleanUpFails, WriteManifest, Activate, ActivateFails, Mutate, MutateRejected,
                MutateFails, ResolveReceipt, ReadBackFails, RollbackTarget, FinalizeOld, RemoveManifest,
                RemoveIncoming, RecoverStage, RecoverStageFails, RecoveryDone, BeginRollback, GoTo
  <2> QED
    BY <2>1, <2>2, <2>3, <2>5
<1> QED
  BY <1>1, CoverInvariant, PTL DEF Spec, HonestUpload
=============================================================================

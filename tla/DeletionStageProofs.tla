------------------------ MODULE DeletionStageProofs ------------------------
(***************************************************************************)
(* What TLAPS proves of DeletionStage, for every set of games, assets,     *)
(* slugs and stage names, and any number of crashes and I/O errors.        *)
(*                                                                         *)
(* StageInv is inductive (InitStageInv, NextStageInv).  Its parts say what *)
(* a safety property alone cannot: that a directory without a manifest     *)
(* holds nothing of a living game, that a rollback in progress still has   *)
(* every staged item ahead of it or has failed on it, that a directory is  *)
(* unlinked only once nothing of a living game is in it, and that a        *)
(* deletion starts only after a pass that left no directory behind.        *)
(***************************************************************************)
EXTENDS DeletionStage, TLAPS

LEMMA InitStageInv == Init => StageInv
BY ConstantsAssumption
   DEF Init, StageInv, TypeOK, TrashInv, OneStage, UnwindInv, PassInv, DeleteInv,
       OutcomeInv, Staging

LEMMA NextStageInv == StageInv /\ [Next]_vars => StageInv'
<1> SUFFICES ASSUME StageInv, [Next]_vars
             PROVE  StageInv'
  OBVIOUS
<1> USE ConstantsAssumption
    DEF StageInv, TypeOK, TrashInv, OneStage, UnwindInv, PassInv, DeleteInv, OutcomeInv,
        Staging, Exclusive, Live, Asset, database, volume, process
<1>1. ASSUME Start PROVE StageInv'
  BY <1>1 DEF Start, BeginRecovery
<1>2. ASSUME Crash PROVE StageInv'
  BY <1>2 DEF Crash
<1>3. ASSUME NEW g \in Game, NEW n \in Slug, NEW U \in Urls, CreateGame(g, n, U) PROVE StageInv'
  BY <1>3 DEF CreateGame, SlugTaken, TrackGameAssets, OwnedBy, Urls, AtMostOne
<1>4. ASSUME NEW g \in Game, NEW n \in Slug, NEW U \in Urls, UpdateGame(g, n, U) PROVE StageInv'
  BY <1>4 DEF UpdateGame, SlugTaken, TrackGameAssets, OwnedBy, Urls, AtMostOne
<1>5. ASSUME NEW s \in Stage, RecoverStage(s) PROVE StageInv'
  <2>1. CASE s \notin durable
    <3>1. /\ pc = "recover" /\ pending' = pending \ {s} /\ errors' = errors \cup {s}
          /\ UNCHANGED <<pc, ctx, victim, cur, todo, failed, outcome, database, volume,
                         crashes, faults>>
      BY <1>5, <2>1 DEF RecoverStage
    <3> QED
      BY <3>1
  <2>2. CASE s \in durable /\ row[stageGame[s]] = "live"
    BY <1>5, <2>2 DEF RecoverStage, BeginRollback
  <2>3. CASE s \in durable /\ row[stageGame[s]] # "live"
    BY <1>5, <2>3 DEF RecoverStage
  <2> QED
    BY <2>1, <2>2, <2>3
<1>6. ASSUME NEW s \in Stage, RecoverStageFails(s) PROVE StageInv'
  BY <1>6 DEF RecoverStageFails, Fault
<1>7. ASSUME RecoveryDone PROVE StageInv'
  BY <1>7 DEF RecoveryDone, GoTo, Return
<1>8. ASSUME NEW a \in Asset, RollbackItem(a) PROVE StageInv'
  BY <1>8 DEF RollbackItem
<1>9. ASSUME NEW a \in Asset, RollbackItemFails(a) PROVE StageInv'
  BY <1>9 DEF RollbackItemFails, Fault
<1>10. ASSUME RollbackDone PROVE StageInv'
  <2>1. CASE failed = {}
    BY <1>10, <2>1 DEF RollbackDone, GoTo
  <2>2. CASE failed # {} /\ ctx = "delete"
    BY <1>10, <2>2 DEF RollbackDone, Return
  <2>3. CASE failed # {} /\ ctx # "delete"
    <3>1. /\ pc' = "recover" /\ cur' = NoStage /\ todo' = {} /\ failed' = {}
          /\ errors' = errors \cup {cur}
          /\ UNCHANGED <<ctx, victim, pending, outcome, database, volume, crashes, faults>>
      BY <1>10, <2>3 DEF RollbackDone, StageDone
    <3>2. cur \in Stage
      BY <1>10, <2>3 DEF RollbackDone
    <3> QED
      BY <1>10, <2>3, <3>1, <3>2 DEF RollbackDone
  <2> QED
    BY <2>1, <2>2, <2>3
<1>11. ASSUME NEW a \in Asset, RemoveStagedAsset(a) PROVE StageInv'
  BY <1>11 DEF RemoveStagedAsset
<1>12. ASSUME RemoveManifest PROVE StageInv'
  BY <1>12 DEF RemoveManifest
<1>13. ASSUME RemoveStageDir PROVE StageInv'
  BY <1>13 DEF RemoveStageDir, StageDone, Return
<1>14. ASSUME RemoveFails PROVE StageInv'
  <2>1. CASE ctx = "delete"
    BY <1>14, <2>1 DEF RemoveFails, Fault, StageDone, Return
  <2>2. CASE ctx # "delete"
    BY SMTT(30), <1>14, <2>2 DEF RemoveFails, Fault, StageDone
  <2> QED
    BY <2>1, <2>2
<1>15. ASSUME NEW g \in Game, DeleteGame(g) PROVE StageInv'
  BY <1>15 DEF DeleteGame, BeginRecovery
<1>16. ASSUME SelectAssets PROVE StageInv'
  BY <1>16 DEF SelectAssets, Return
<1>17. ASSUME SelectFails PROVE StageInv'
  BY <1>17 DEF SelectFails, Fault, Return
<1>18. ASSUME MakeStage PROVE StageInv'
  BY <1>18 DEF MakeStage, NewStage
<1>19. ASSUME WriteManifest PROVE StageInv'
  BY <1>19 DEF WriteManifest, GoTo
<1>20. ASSUME WriteManifestFails PROVE StageInv'
  BY <1>20 DEF WriteManifestFails, Fault
<1>21. ASSUME NEW a \in Asset, StageAsset(a) PROVE StageInv'
  BY <1>21 DEF StageAsset
<1>22. ASSUME StageFails PROVE StageInv'
  BY <1>22 DEF StageFails, Fault, BeginRollback
<1>23. ASSUME CommitDelete PROVE StageInv'
  BY <1>23 DEF CommitDelete, DeleteRow
<1>24. ASSUME CommitFails PROVE StageInv'
  BY <1>24 DEF CommitFails, Fault, DeleteRow, GoTo
<1>25. ASSUME QueryOutcome PROVE StageInv'
  BY <1>25 DEF QueryOutcome, BeginRollback
<1>26. ASSUME QueryFails PROVE StageInv'
  BY <1>26 DEF QueryFails, Fault, Return
<1>27. ASSUME MakeStageFails PROVE StageInv'
  BY <1>27 DEF MakeStageFails, NewStage, Fault, Return
<1>28. ASSUME UNCHANGED vars PROVE StageInv'
  BY <1>28 DEF vars
<1> QED
  BY <1>1, <1>2, <1>3, <1>4, <1>5, <1>6, <1>7, <1>8, <1>9,
     <1>10, <1>11, <1>12, <1>13, <1>14, <1>15, <1>16, <1>17, <1>18,
     <1>19, <1>20, <1>21, <1>22, <1>23, <1>24, <1>25, <1>26, <1>27, <1>28
  DEF Next, Recover, Delete, Fail, Request

\* Only a rename into the stage, a rename back, or an unlink changes what is staged.
LEMMA StagedUnchanged ==
  ASSUME [Next]_vars,
         ~ \E a \in Asset : RollbackItem(a) \/ RemoveStagedAsset(a) \/ StageAsset(a)
  PROVE  UNCHANGED staged
BY DEF Next, Recover, Delete, Fail, Request, vars, volume, Start, Crash, CreateGame,
       UpdateGame, RecoverStage, RecoverStageFails, RecoveryDone, RollbackItemFails,
       RollbackDone, RemoveManifest, RemoveStageDir, RemoveFails, DeleteGame, SelectAssets,
       SelectFails, MakeStage, MakeStageFails, NewStage, WriteManifest, WriteManifestFails, StageFails, CommitDelete,
       CommitFails, QueryOutcome, QueryFails

LEMMA StageInvariant == Spec => []StageInv
BY InitStageInv, NextStageInv, PTL DEF Spec

----------------------------------------------------------------------------
\* Every variable keeps its type: the state of the journal, of the rows and of
\* the process stays in the sets TypeOK gives.
THEOREM TypeCorrect == Spec => []TypeOK
<1>1. StageInv => TypeOK
  BY DEF StageInv
<1> QED
  BY <1>1, StageInvariant, PTL

\* .atri-trash never holds two stages.
THEOREM NeverTwoStages == Spec => []OneStage
<1>1. StageInv => OneStage
  BY DEF StageInv, TrashInv
<1> QED
  BY <1>1, StageInvariant, PTL

\* What DeleteGame returns is what happened to the row and to the files.
THEOREM OutcomeIsHonest == Spec => []HonestOutcome
<1>1. StageInv => HonestOutcome
  BY DEF StageInv, TypeOK, TrashInv, OutcomeInv, HonestOutcome, Live
<1> QED
  BY <1>1, StageInvariant, PTL

\* A staged file is unlinked only after the commit, renamed back only before it.
THEOREM UnlinkOnlyAfterCommit == Spec => CommitDecides
<1>1. StageInv /\ [Next]_vars => [RowDecides]_vars
  <2> SUFFICES ASSUME StageInv, [Next]_vars
               PROVE  RowDecides
    OBVIOUS
  <2> USE DEF StageInv, TypeOK, TrashInv, UnwindInv, DeleteInv, Staging, RowDecides,
              database, volume, process
  <2>1. ASSUME UNCHANGED staged
        PROVE  RowDecides
    BY <2>1
  <2>2. ASSUME NEW a \in Asset, RollbackItem(a)
        PROVE  RowDecides
    <3>1. CASE a \notin original /\ a \in staged[cur]
      <4>1. cur \in Stage /\ row[stageGame[cur]] = "live"
        BY <2>2, <3>1 DEF RollbackItem
      <4>2. original' = original \cup {a} /\ staged' = [staged EXCEPT ![cur] = @ \ {a}]
        BY <2>2, <3>1 DEF RollbackItem
      <4> QED
        BY <4>1, <4>2
    <3>2. CASE ~(a \notin original /\ a \in staged[cur])
      BY <2>2, <3>2, <2>1 DEF RollbackItem
    <3> QED
      BY <3>1, <3>2
  <2>3. ASSUME NEW a \in Asset, RemoveStagedAsset(a)
        PROVE  RowDecides
    BY <2>3 DEF RemoveStagedAsset
  <2>4. ASSUME NEW a \in Asset, StageAsset(a)
        PROVE  RowDecides
    BY <2>4 DEF StageAsset
  <2> QED
    BY <2>1, <2>2, <2>3, <2>4, StagedUnchanged
<1> QED
  BY <1>1, StageInvariant, PTL DEF Spec, CommitDecides

\* A start that ends in serving leaves nothing in .atri-trash and no file away
\* from its public path.
THEOREM StartLeavesNothing == Spec => CleanStart
<1>1. StageInv /\ [Next]_vars => [NothingPending]_vars
  <2> SUFFICES ASSUME StageInv, [Next]_vars, pc = "recover", ctx = "startup", pc' = "serving"
               PROVE  stages = {} /\ Safe = original
    BY DEF NothingPending
  <2>1. RecoveryDone
    BY DEF Next, Recover, Delete, Fail, Request, vars, process, Start, Crash, CreateGame,
           UpdateGame, RecoverStage, BeginRollback, RecoverStageFails, RollbackItem,
           RollbackItemFails, RollbackDone, RemoveStagedAsset, RemoveManifest, RemoveStageDir,
           RemoveFails, DeleteGame, BeginRecovery, SelectAssets, SelectFails, MakeStage,
           MakeStageFails, WriteManifest, WriteManifestFails, StageAsset, StageFails,
           CommitDelete, CommitFails, QueryOutcome, QueryFails
  <2>2. pending = {} /\ errors = {}
    BY <2>1 DEF RecoveryDone, GoTo
  <2>3. stages = {} /\ durable = {}
    BY <2>2 DEF StageInv, PassInv, TrashInv
  <2> QED
    BY <2>3 DEF Safe
<1> QED
  BY <1>1, StageInvariant, PTL DEF Spec, CleanStart

----------------------------------------------------------------------------
(* The refinement: Save is CreateGame or UpdateGame, Delete is the commit, *)
(* and every other step leaves the rows and Safe as they are.              *)

LEMMA SameSafe ==
  ASSUME \A a : (\/ a \in original
                \/ \E s \in durable : row[stageGame[s]] = "live" /\ a \in staged[s])
             <=>
               (\/ a \in original'
                \/ \E s \in durable' : row'[stageGame'[s]] = "live" /\ a \in staged'[s])
  PROVE  UNCHANGED Safe
<1>1. \A a : a \in Safe <=> a \in Safe'
  BY DEF Safe
<1> QED
  BY <1>1

\* While the rows and the manifests stand, a rename moves a file within Safe,
\* and an unlink takes only what is already outside it.
LEMMA FilesMove ==
  ASSUME StageInv,
         NEW a \in Asset, RollbackItem(a) \/ RemoveStagedAsset(a) \/ StageAsset(a)
  PROVE  UNCHANGED Safe
<1> USE DEF StageInv, TypeOK, TrashInv, UnwindInv, DeleteInv, Staging, database, volume, process
<1>1. CASE RollbackItem(a)
  <2>1. CASE a \notin original /\ a \in staged[cur]
    <3>1. cur \in durable /\ row[stageGame[cur]] = "live" /\ cur \in Stage
      BY <1>1, <2>1 DEF RollbackItem
    <3>2. /\ original' = original \cup {a}
          /\ staged' = [staged EXCEPT ![cur] = @ \ {a}]
          /\ durable' = durable /\ row' = row /\ stageGame' = stageGame
      BY <1>1, <2>1 DEF RollbackItem
    <3>3. staged'[cur] = staged[cur] \ {a} /\ \A s \in durable \ {cur} : staged'[s] = staged[s]
      BY <3>1, <3>2
    <3> QED
      BY <3>1, <3>2, <3>3, <2>1, SameSafe
  <2>2. CASE ~(a \notin original /\ a \in staged[cur])
    BY <1>1, <2>2 DEF RollbackItem, Safe
  <2> QED
    BY <2>1, <2>2
<1>2. CASE RemoveStagedAsset(a)
  <2>1. /\ original' = original /\ durable' = durable /\ row' = row /\ stageGame' = stageGame
        /\ cur \in Stage /\ row[stageGame[cur]] # "live"
        /\ \A s \in Stage \ {cur} : staged'[s] = staged[s]
    BY <1>2 DEF RemoveStagedAsset
  <2> QED
    BY <2>1, SameSafe
<1>3. CASE StageAsset(a)
  <2>1. /\ original' = original \ {a}
        /\ durable' = durable /\ row' = row /\ stageGame' = stageGame
        /\ a \in original /\ cur \in Stage /\ cur \in durable /\ row[stageGame[cur]] = "live"
        /\ staged' = [staged EXCEPT ![cur] = @ \cup {a}]
    BY <1>3 DEF StageAsset
  <2>2. staged'[cur] = staged[cur] \cup {a} /\ \A s \in durable \ {cur} : staged'[s] = staged[s]
    BY <2>1
  <2> QED
    BY <2>1, <2>2, SameSafe
<1> QED
  BY <1>1, <1>2, <1>3

\* The step that commits the DELETE takes from Safe what the victim alone tracks.
LEMMA CommitTakes ==
  ASSUME StageInv, pc = "stage", todo = {}, DeleteRow(victim), UNCHANGED volume
  PROVE  DeletionIsAtomic!Delete(victim)
<1> USE ConstantsAssumption DEF StageInv, TypeOK, TrashInv, DeleteInv, Staging, volume, DeleteRow
<1>1. victim \in Game /\ row[victim] = "live" /\ row'[victim] = "deleted"
  OBVIOUS
<1>2. Exclusive(victim) \cap original = {}
  OBVIOUS
<1>3. DeletionIsAtomic!Exclusive(victim) = Exclusive(victim)
  BY DEF DeletionIsAtomic!Exclusive, DeletionIsAtomic!Live, Exclusive, Live
<1>4. Safe' = original
  <2>1. \A s \in durable : s = cur /\ stageGame[s] = victim
    <3>1. durable \subseteq {cur}
      OBVIOUS
    <3>2. cur \in durable => stageGame[cur] = victim
      OBVIOUS
    <3> QED
      BY <3>1, <3>2
  <2> QED
    BY <1>1, <2>1 DEF Safe
<1>5. Safe \subseteq original \cup Exclusive(victim)
  <2>1. \A s \in durable : staged[s] \subseteq Exclusive(victim)
    <3>1. durable \subseteq {cur} /\ (cur \in durable => staged[cur] \subseteq items[cur])
      OBVIOUS
    <3>2. cur \in durable => items[cur] \subseteq Exclusive(victim)
      OBVIOUS
    <3> QED
      BY <3>1, <3>2
  <2> QED
    BY <2>1 DEF Safe
<1>6. Safe' = Safe \ Exclusive(victim)
  <2>1. original \subseteq Safe
    BY DEF Safe
  <2> QED
    BY <1>2, <1>4, <1>5, <2>1
<1> QED
  BY <1>1, <1>3, <1>6 DEF DeletionIsAtomic!Delete

\* Creating or editing a game leaves every staged file as safe as it was: a
\* manifest never names a game that is not yet born.
LEMMA SaveKeeps ==
  ASSUME StageInv, NEW g \in Game, NEW n \in Slug, NEW U \in Urls,
         CreateGame(g, n, U) \/ UpdateGame(g, n, U)
  PROVE  DeletionIsAtomic!Save(g)
<1> USE DEF StageInv, TypeOK, TrashInv, CreateGame, UpdateGame, TrackGameAssets, volume
<1>1. row[g] # "deleted" /\ row' = [row EXCEPT ![g] = "live"]
  OBVIOUS
<1>2. U \in SUBSET Asset /\ OwnedBy(n, U) \in SUBSET Asset
  BY DEF Urls, AtMostOne, Asset, OwnedBy
<1>3. urls' = [urls EXCEPT ![g] = U] /\ tracked' = [tracked EXCEPT ![g] = @ \cup OwnedBy(n, U)]
  OBVIOUS
<1>4. UNCHANGED Safe
  <2>1. \A s \in durable : row'[stageGame[s]] = "live" <=> row[stageGame[s]] = "live"
    OBVIOUS
  <2> QED
    BY <2>1, SameSafe
<1> QED
  BY <1>1, <1>2, <1>3, <1>4 DEF DeletionIsAtomic!Save

\* Making and removing a stage directory or its manifest leaves Safe as it is.
LEMMA JournalMoves ==
  ASSUME StageInv,
         RemoveManifest \/ RemoveStageDir \/ MakeStage \/ MakeStageFails \/ WriteManifest
  PROVE  UNCHANGED Safe
<1> USE DEF StageInv, TypeOK, TrashInv, UnwindInv, DeleteInv, Staging, database, volume
<1>1. CASE RemoveManifest
  <2>1. /\ original' = original /\ staged' = staged /\ row' = row /\ stageGame' = stageGame
        /\ durable' = durable \ {cur}
    BY <1>1 DEF RemoveManifest
  <2>2. row[stageGame[cur]] = "live" => staged[cur] = {}
    BY <1>1, ConstantsAssumption DEF RemoveManifest
  <2> QED
    BY <2>1, <2>2, SameSafe
<1>2. CASE RemoveStageDir
  <2>1. /\ original' = original /\ staged' = staged /\ row' = row /\ durable' = durable
        /\ \A s \in durable : stageGame'[s] = stageGame[s]
    BY <1>2 DEF RemoveStageDir
  <2> QED
    BY <2>1, SameSafe
<1>3. CASE MakeStage \/ MakeStageFails
  <2>1. /\ original' = original /\ staged' = staged /\ row' = row /\ durable' = durable
        /\ \A s \in durable : stageGame'[s] = stageGame[s]
    BY <1>3 DEF MakeStage, MakeStageFails, NewStage
  <2> QED
    BY <2>1, SameSafe
<1>4. CASE WriteManifest
  <2>1. /\ original' = original /\ staged' = staged /\ row' = row /\ stageGame' = stageGame
        /\ durable' = durable \cup {cur}
        /\ staged[cur] = {}
    BY <1>4 DEF WriteManifest
  <2> QED
    BY <2>1, SameSafe
<1> QED
  BY <1>1, <1>2, <1>3, <1>4

LEMMA StepRefines ==
  StageInv /\ [Next]_vars => [DeletionIsAtomic!Next]_(DeletionIsAtomic!vars)
<1> SUFFICES ASSUME StageInv, [Next]_vars
             PROVE  DeletionIsAtomic!Next \/ UNCHANGED <<row, urls, tracked, Safe>>
  BY DEF DeletionIsAtomic!vars
<1> USE DEF database, volume, process
<1>1. ASSUME NEW g \in Game, NEW n \in Slug, NEW U \in Urls,
             CreateGame(g, n, U) \/ UpdateGame(g, n, U)
      PROVE  DeletionIsAtomic!Next
  BY <1>1, SaveKeeps DEF DeletionIsAtomic!Next
<1>2. ASSUME CommitDelete \/ CommitFails
      PROVE  DeletionIsAtomic!Next \/ UNCHANGED <<row, urls, tracked, Safe>>
  <2>1. CASE DeleteRow(victim)
    <3>1. pc = "stage" /\ todo = {} /\ UNCHANGED volume /\ victim \in Game
      BY <1>2 DEF CommitDelete, CommitFails, StageInv, DeleteInv, Staging
    <3> QED
      BY <2>1, <3>1, CommitTakes DEF DeletionIsAtomic!Next
  <2>2. CASE ~DeleteRow(victim)
    BY <1>2, <2>2 DEF CommitDelete, CommitFails, Safe
  <2> QED
    BY <2>1, <2>2
<1>3. ASSUME NEW a \in Asset, RollbackItem(a) \/ RemoveStagedAsset(a) \/ StageAsset(a)
      PROVE  UNCHANGED <<row, urls, tracked, Safe>>
  BY <1>3, FilesMove DEF RollbackItem, RemoveStagedAsset, StageAsset
<1>4. ASSUME RemoveManifest \/ RemoveStageDir \/ MakeStage \/ MakeStageFails \/ WriteManifest
      PROVE  UNCHANGED <<row, urls, tracked, Safe>>
  BY <1>4, JournalMoves DEF RemoveManifest, RemoveStageDir, MakeStage, MakeStageFails, WriteManifest
<1>5. ASSUME UNCHANGED <<database, volume>>
      PROVE  UNCHANGED <<row, urls, tracked, Safe>>
  BY <1>5 DEF Safe
<1>6. \/ \E g \in Game, n \in Slug, U \in Urls : CreateGame(g, n, U) \/ UpdateGame(g, n, U)
      \/ CommitDelete \/ CommitFails
      \/ \E a \in Asset : RollbackItem(a) \/ RemoveStagedAsset(a) \/ StageAsset(a)
      \/ RemoveManifest \/ RemoveStageDir \/ MakeStage \/ MakeStageFails \/ WriteManifest
      \/ UNCHANGED <<database, volume>>
  BY DEF Next, Recover, Delete, Fail, Request, vars, Start, Crash, RecoverStage,
         RecoverStageFails, RecoveryDone, RollbackItemFails, RollbackDone, RemoveFails,
         DeleteGame, SelectAssets, SelectFails, WriteManifestFails, StageFails, QueryOutcome,
         QueryFails
<1> QED
  BY <1>1, <1>2, <1>3, <1>4, <1>5, <1>6

\* The journal implements atomic deletion: seen through what recovery will
\* restore, a game and the files only it uses go in one step, and nothing else
\* ever goes.
THEOREM DeletionImplementsAtomic == Spec => ImplementsAtomicDeletion
<1>1. Init => DeletionIsAtomic!Init
  BY DEF Init, DeletionIsAtomic!Init, Safe
<1> QED
  BY <1>1, StepRefines, StageInvariant, PTL
  DEF Spec, ImplementsAtomicDeletion, DeletionIsAtomic!Spec
=============================================================================

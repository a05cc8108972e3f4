------------------------------- MODULE Parts -------------------------------
(***************************************************************************)
(* The parts of the system that share no state with one another, side by   *)
(* side: the first state says which part a behaviour is about, and the     *)
(* others stay as they are at the start.                                   *)
(***************************************************************************)
EXTENDS HistoricalSeed, ReviewerLog, DiscretionarySignals, TechnicalAnalyst,
        SampleWeights, MpEngine, RecipeStore

VARIABLE subject
Subjects == {"seed", "reviewer", "ideas", "analyst", "weights", "engine", "store"}
partsVars == <<subject, seedVars, reviewerVars, ideasVars, analystVars, weightVars,
               engineVars, storeVars>>

PartsInit ==
  /\ subject \in Subjects
  /\ SeedInit /\ ReviewerInit /\ IdeasInit /\ AnalystInit /\ WeightInit /\ EngineInit /\ StoreInit

SeedAlone == subject = "seed" /\ SeedNext
  /\ UNCHANGED <<subject, reviewerVars, ideasVars, analystVars, weightVars, engineVars, storeVars>>
ReviewerAlone == subject = "reviewer" /\ ReviewerNext
  /\ UNCHANGED <<subject, seedVars, ideasVars, analystVars, weightVars, engineVars, storeVars>>
IdeasAlone == subject = "ideas" /\ IdeasNext
  /\ UNCHANGED <<subject, seedVars, reviewerVars, analystVars, weightVars, engineVars, storeVars>>
AnalystAlone == subject = "analyst" /\ AnalystNext
  /\ UNCHANGED <<subject, seedVars, reviewerVars, ideasVars, weightVars, engineVars, storeVars>>
WeightsAlone == subject = "weights" /\ WeightNext
  /\ UNCHANGED <<subject, seedVars, reviewerVars, ideasVars, analystVars, engineVars, storeVars>>
EngineAlone == subject = "engine" /\ EngineNext
  /\ UNCHANGED <<subject, seedVars, reviewerVars, ideasVars, analystVars, weightVars, storeVars>>
StoreAlone == subject = "store" /\ StoreNext
  /\ UNCHANGED <<subject, seedVars, reviewerVars, ideasVars, analystVars, weightVars, engineVars>>

PartsNext ==
  \/ SeedAlone \/ ReviewerAlone \/ IdeasAlone \/ AnalystAlone
  \/ WeightsAlone \/ EngineAlone \/ StoreAlone

\* The fairness of the parts that have one.
PartsSpec ==
  /\ PartsInit /\ [][PartsNext]_partsVars
  /\ WF_seedVars(subject = "seed" /\ SeedStep)
  /\ WF_engineVars(subject = "engine" /\ EngineStep)

\* The variables of every part keep their types.
PartsTypeOK ==
  /\ SeedTypeOK /\ ReviewerTypeOK /\ IdeasTypeOK /\ AnalystTypeOK
  /\ WeightTypeOK /\ EngineTypeOK /\ StoreTypeOK


=============================================================================

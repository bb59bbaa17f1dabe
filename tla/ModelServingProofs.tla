------------------------- MODULE ModelServingProofs -------------------------
(***************************************************************************)
(* Theorems about Promotion and ModelServing, for any number of reloads,   *)
(* predictions, runs of the chain, rollbacks and restarts: what            *)
(* serves and is recorded was in production, the audit log claims no       *)
(* reload that did not happen, and the aliases implement ModelAliases.     *)
(***************************************************************************)
EXTENDS ModelServing, SequenceTheorems, TLAPS

Version == [source : {"run", "logged"}, metrics : Metrics \cup {None}, valid : BOOLEAN]

Known == 0 .. Len(registry)

Chain ==
  [task : {"dataset", "train", "eval", "gates", "mlflow", "save", "save_alias", "promote", "resolve",
           "reload", "done"},
   stage : TargetStages \cup {"test"}, metrics : Metrics \cup {None}, version : Known, prod : Known,
   number : Nat, failed : BOOLEAN]

Rollback ==
  [step : {"idle", "read", "restore", "archive"}, faulty : Known, previous : Known,
   success : BOOLEAN, number : Nat]

PromotionTypes ==
  /\ registry \in Seq(Version)
  /\ alias \in [Stages -> Known]
  /\ was_prod \subseteq DOMAIN registry
  /\ chain \in Chain
  /\ rollback \in Rollback

Approved == {v \in DOMAIN registry : registry[v].source = "logged" \/ MeetsGates(registry[v].metrics)}

(* What a task relies on of the tasks before it: an evaluation, and a version that has it. *)
ChainInv ==
  /\ chain.task \in {"gates", "mlflow", "save", "save_alias", "promote", "resolve"} =>
       chain.metrics \in Metrics
  /\ chain.task \in {"save", "save_alias", "promote", "resolve"} =>
       /\ chain.version \in DOMAIN registry
       /\ registry[chain.version].metrics = chain.metrics
  /\ chain.task = "save_alias" => chain.prod \in was_prod

(* Whatever prod named was approved; previous_prod and a rollback only name such versions. *)
ProdInv ==
  /\ was_prod \subseteq Approved
  /\ alias["prod"] \in was_prod \cup {0}
  /\ alias["previous_prod"] \in was_prod \cup {0}
  /\ rollback.step = "restore" => rollback.previous \in was_prod

PromotionInv == PromotionTypes /\ ChainInv /\ ProdInv

ServingTypes ==
  /\ runtime \in Known
  /\ swapped \subseteq Requests \X Known
  /\ request \in [Requests -> {"new", "waiting", "done", "broken"}]
  /\ reload \in [Requests -> [step : {"none", "asked", "resolved", "swapped", "refused", "lost"},
                              version : Known]]
  /\ prediction \in [Predictions -> [step : {"none", "asked", "running", "answered", "failed"},
                                     checkpoint : Known, thresholds : Known]]
  /\ recorded \in [Predictions -> [status : {"new", "waiting", "recorded", "refused"}, version : Known]]
  /\ audit \subseteq [request : Requests, status : {"reloaded", "failed", "refused"}, version : Known]

(* A reload that resolved holds a version that was in production, and its swap is on record. *)
ReloadInv ==
  \A r \in Requests :
    /\ reload[r].step \in {"resolved", "swapped"} => reload[r].version \in was_prod
    /\ reload[r].step = "swapped" => <<r, reload[r].version>> \in swapped

(* A prediction holds one version, that of a runtime which served. *)
PredictionInv ==
  \A p \in Predictions : prediction[p].checkpoint \in was_prod \cup {0}

ServingInv ==
  /\ ServingTypes /\ ReloadInv /\ PredictionInv
  /\ ServedWasProd /\ PredictionIsOneVersion /\ ReloadedWasSwapped

IInv == PromotionInv /\ ServingInv

-----------------------------------------------------------------------------
(* What a step of Promotion can do to the registry and to the aliases. *)

Grows == registry' = registry \/ \E v \in Version : registry' = Append(registry, v)

AliasStep ==
  \/ UNCHANGED <<alias, was_prod>>
  \/ \E s \in Stages \ {"prod", "previous_prod"}, v \in Known' : SetAlias(s, v)
  \/ registry' = registry /\ \E v \in was_prod : SetAlias("previous_prod", v)
  \/ \E v \in Approved' : SetAlias("prod", v)

LEMMA VersionsStay ==
  ASSUME registry \in Seq(Version), Grows
  PROVE  /\ registry' \in Seq(Version)
         /\ Known \subseteq Known'
         /\ DOMAIN registry = 1 .. Len(registry) /\ DOMAIN registry' = 1 .. Len(registry')
         /\ DOMAIN registry \subseteq DOMAIN registry'
         /\ \A v \in DOMAIN registry : registry'[v] = registry[v]
         /\ Approved \subseteq Approved'
<1>0. DOMAIN registry = 1 .. Len(registry) /\ Len(registry) \in Nat
  OBVIOUS
<1>1. CASE registry' = registry
  BY <1>0, <1>1 DEF Known, Approved
<1>2. ASSUME NEW v \in Version, registry' = Append(registry, v)
      PROVE  /\ registry' \in Seq(Version) /\ Len(registry') = Len(registry) + 1
             /\ \A w \in 1 .. Len(registry) : registry'[w] = registry[w]
  BY <1>2, AppendProperties
<1> QED
  BY <1>0, <1>1, <1>2 DEF Grows, Known, Approved

(* The first three conjuncts of ProdInv and the types of the aliases. *)
LEMMA AliasesStay ==
  ASSUME PromotionTypes, ProdInv, Grows, AliasStep
  PROVE  /\ alias' \in [Stages -> Known'] /\ was_prod' \subseteq DOMAIN registry'
         /\ was_prod \subseteq was_prod' /\ was_prod' \subseteq Approved'
         /\ alias'["prod"] \in was_prod' \cup {0}
         /\ alias'["previous_prod"] \in was_prod' \cup {0}
<1>0. /\ Known \subseteq Known' /\ Approved \subseteq Approved'
      /\ DOMAIN registry \subseteq DOMAIN registry' /\ DOMAIN registry' = 1 .. Len(registry')
      /\ DOMAIN registry' \subseteq Known' /\ Approved' \subseteq DOMAIN registry'
  BY VersionsStay DEF PromotionTypes, Known, Approved
<1>1. /\ alias \in [Stages -> Known] /\ was_prod \subseteq DOMAIN registry
      /\ was_prod \subseteq Approved
      /\ alias["prod"] \in was_prod \cup {0} /\ alias["previous_prod"] \in was_prod \cup {0}
  BY DEF PromotionTypes, ProdInv
<1> HIDE DEF Known, Approved
<1>2. CASE UNCHANGED <<alias, was_prod>>
  BY <1>0, <1>1, <1>2
<1>3. ASSUME NEW s \in Stages \ {"prod", "previous_prod"}, NEW v \in Known', SetAlias(s, v)
      PROVE  /\ alias' \in [Stages -> Known'] /\ was_prod' = was_prod
             /\ alias'["prod"] = alias["prod"] /\ alias'["previous_prod"] = alias["previous_prod"]
  BY <1>0, <1>1, <1>3 DEF SetAlias, Stages
<1>4. ASSUME NEW v \in was_prod, SetAlias("previous_prod", v)
      PROVE  /\ alias' \in [Stages -> Known'] /\ was_prod' = was_prod
             /\ alias'["prod"] = alias["prod"] /\ alias'["previous_prod"] = v
  BY <1>0, <1>1, <1>4 DEF SetAlias, Stages
<1>5. ASSUME NEW v \in Approved', SetAlias("prod", v)
      PROVE  /\ alias' \in [Stages -> Known'] /\ was_prod' = was_prod \cup {v}
             /\ alias'["prod"] = v /\ alias'["previous_prod"] = alias["previous_prod"]
  BY <1>0, <1>1, <1>5 DEF SetAlias, Stages
<1> QED
  BY <1>0, <1>1, <1>2, <1>3, <1>4, <1>5 DEF AliasStep

(* Tasks and rollbacks keep what they rely on as long as they only go on with it. *)
LEMMA ChainStays ==
  ASSUME PromotionInv, Grows, AliasStep, chain' = chain
  PROVE  chain' \in Chain' /\ ChainInv'
<1>0. /\ Known \subseteq Known' /\ DOMAIN registry \subseteq DOMAIN registry'
      /\ \A v \in DOMAIN registry : registry'[v] = registry[v]
      /\ was_prod \subseteq was_prod'
  BY VersionsStay, AliasesStay DEF PromotionInv, PromotionTypes
<1> QED
  BY <1>0 DEF PromotionInv, PromotionTypes, ChainInv, Chain

LEMMA RollbackStays ==
  ASSUME PromotionInv, Grows, AliasStep, rollback' = rollback
  PROVE  rollback' \in Rollback' /\ (rollback'.step = "restore" => rollback'.previous \in was_prod')
<1>0. Known \subseteq Known' /\ was_prod \subseteq was_prod'
  BY VersionsStay, AliasesStay DEF PromotionInv, PromotionTypes
<1> QED
  BY <1>0 DEF PromotionInv, PromotionTypes, ProdInv, Rollback

LEMMA PromotionInvHolds ==
  ASSUME PromotionInv, Grows, AliasStep, chain' \in Chain', ChainInv', rollback' \in Rollback',
         rollback'.step = "restore" => rollback'.previous \in was_prod'
  PROVE  PromotionInv'
<1>1. PromotionTypes'
  BY VersionsStay, AliasesStay DEF PromotionInv, PromotionTypes
<1>2. ProdInv'
  BY AliasesStay DEF PromotionInv, ProdInv
<1> QED
  BY <1>1, <1>2 DEF PromotionInv

(* The gates let through what MeetsGates asks for, whatever else the file sets. *)
LEMMA PassedGates ==
  ASSUME NEW metrics \in Metrics, GatesPassed(metrics)
  PROVE  MeetsGates(metrics)
<1>1. /\ metrics.recall \in Int /\ metrics.latency_ms \in Int
      /\ Threshold(GatesConfig, "recall_defect_min") \in Int
      /\ Threshold(GatesConfig, "recall_defect_min") >= 100
      /\ Threshold(GatesConfig, "latency_p95_ms_max") \in Int
      /\ Threshold(GatesConfig, "latency_p95_ms_max") <= 1000
  BY GatesAssumption
<1>2. /\ ~ (metrics.recall < Threshold(GatesConfig, "recall_defect_min"))
      /\ ~ (metrics.latency_ms > Threshold(GatesConfig, "latency_p95_ms_max"))
  BY Zenon DEF GatesPassed, FailedGates
<1> QED
  BY <1>1, <1>2 DEF MeetsGates

-----------------------------------------------------------------------------
(* One lemma per group of actions: the aliases take one of the four steps, *)
(* and what the later tasks rely on holds.                                 *)

(* Tasks that only move the chain. *)
LEMMA TaskSteps ==
  ASSUME PromotionInv,
         \/ TaskLifecycleDecision \/ TaskDataset \/ TaskTrain \/ TaskEval \/ TaskGates
         \/ SavePreviousProd \/ ResolveArtifacts \/ TaskReload \/ SupplyDataset
  PROVE  Grows /\ AliasStep /\ PromotionInv'
<1>1. UNCHANGED <<registry, alias, was_prod, rollback>>
  BY Zenon DEF TaskLifecycleDecision, TaskDataset, TaskTrain, TaskEval, TaskGates, SavePreviousProd,
         ResolveArtifacts, TaskReload, SupplyDataset
<1>2. Grows /\ AliasStep
  BY <1>1 DEF Grows, AliasStep
<1>3. chain \in Chain /\ ChainInv /\ alias["prod"] \in Known /\ alias["prod"] \in was_prod \cup {0}
  BY DEF PromotionInv, PromotionTypes, ProdInv, Stages
<1>4. chain' \in Chain /\ ChainInv'
  <2> USE <1>1, <1>3 DEF Chain, ChainInv
  <2>1. CASE TaskLifecycleDecision
    <3>1. 0 \in Known /\ chain.number \in Nat /\ chain.number + 1 \in Nat
      BY DEF PromotionInv, PromotionTypes, Known
    <3>2. PICK stage \in TargetStages, task \in {"dataset", "reload"} :
            chain' = [task |-> task, stage |-> stage, metrics |-> None, version |-> 0, prod |-> 0,
                      number |-> chain.number + 1, failed |-> FALSE]
      BY <2>1, ZenonT(30) DEF TaskLifecycleDecision, NoChain
    <3> QED
      BY <3>1, <3>2
  <2>2. CASE TaskDataset
    BY <2>2 DEF TaskDataset, At, Raises
  <2>3. CASE TaskTrain
    BY <2>3 DEF TaskTrain, At, Goes, Raises
  <2>4. CASE TaskEval
    BY <2>4 DEF TaskEval, At, Goes, Raises
  <2>5. CASE TaskGates
    BY <2>5, ZenonT(30) DEF TaskGates, At, Goes, Raises
  <2>6. CASE SavePreviousProd
    BY <2>6, ZenonT(30) DEF SavePreviousProd, At, Raises
  <2>7. CASE ResolveArtifacts
    BY <2>7 DEF ResolveArtifacts, At, Goes, Raises
  <2>8. CASE TaskReload
    BY <2>8 DEF TaskReload, At, Goes, Raises
  <2>9. CASE SupplyDataset
    <3>1. 0 \in Known /\ chain.number \in Nat /\ chain.number + 1 \in Nat
      BY DEF PromotionInv, PromotionTypes, Known
    <3>2. PICK stage \in TargetStages :
            chain' = [task |-> "train", stage |-> stage, metrics |-> None, version |-> 0, prod |-> 0,
                      number |-> chain.number + 1, failed |-> FALSE]
      BY <2>9, ZenonT(30) DEF SupplyDataset, NoChain
    <3> QED
      BY <3>1, <3>2
  <2> QED
    BY <2>1, <2>2, <2>3, <2>4, <2>5, <2>6, <2>7, <2>8, <2>9
<1>5. chain' \in Chain'
  BY <1>1, <1>4 DEF Chain, Known
<1> QED
  BY <1>1, <1>2, <1>4, <1>5, RollbackStays, PromotionInvHolds

(* register_run_to_model: the version has the metrics the gates judged. *)
LEMMA MlflowStep ==
  ASSUME PromotionInv, TaskMlflow
  PROVE  Grows /\ AliasStep /\ PromotionInv'
<1>1. /\ registry \in Seq(Version) /\ Len(registry) \in Nat
      /\ chain \in Chain /\ chain.task = "mlflow" /\ chain.metrics \in Metrics
  BY DEF PromotionInv, PromotionTypes, ChainInv, TaskMlflow, At
<1> DEFINE new == [source |-> "run", metrics |-> chain.metrics, valid |-> TRUE]
           version == Len(registry) + 1
<1>2. new \in Version
  BY <1>1 DEF Version
<1>3. CASE /\ registry' = Append(registry, new)
           /\ SetAlias("candidate", version) \/ UNCHANGED <<alias, was_prod>>
           /\ \/ chain' = [chain EXCEPT !.version = version,
                                        !.task = IF chain.stage = "prod" THEN "save" ELSE "promote"]
              \/ Raises
  <2>1. Grows
    BY <1>2, <1>3 DEF Grows
  <2>2. /\ Len(registry') = version /\ registry'[version] = new
        /\ version \in DOMAIN registry' /\ version \in Known' /\ Known \subseteq Known'
    BY <1>1, <1>2, <1>3, <2>1, VersionsStay, AppendProperties DEF Known
  <2>3. AliasStep
    BY <1>3, <2>2 DEF AliasStep, Stages
  <2>4. chain' \in Chain'
    BY <1>1, <1>3, <2>2 DEF Chain, Raises
  <2>5. ChainInv'
    <3>1. CASE Raises
      BY <1>1, <3>1 DEF Raises, ChainInv, Chain
    <3>2. CASE chain' = [chain EXCEPT !.version = version,
                                      !.task = IF chain.stage = "prod" THEN "save" ELSE "promote"]
      BY <1>1, <2>2, <3>2 DEF ChainInv, Chain
    <3> QED
      BY <1>3, <3>1, <3>2
  <2> QED
    BY <2>1, <2>3, <2>4, <2>5, RollbackStays, PromotionInvHolds DEF TaskMlflow
<1>4. CASE Raises /\ UNCHANGED <<registry, alias, was_prod>>
  <2>1. Grows /\ AliasStep
    BY <1>4 DEF Grows, AliasStep
  <2>2. chain' \in Chain' /\ ChainInv'
    BY <1>1, <1>4 DEF Raises, ChainInv, Chain, Known
  <2> QED
    BY <2>1, <2>2, RollbackStays, PromotionInvHolds DEF TaskMlflow
<1> QED
  BY <1>3, <1>4 DEF TaskMlflow

(* previous_prod takes the version the task read from prod. *)
LEMMA SaveAliasStep ==
  ASSUME PromotionInv, SavePreviousAlias
  PROVE  Grows /\ AliasStep /\ PromotionInv'
<1>1. /\ chain \in Chain /\ ChainInv /\ chain.task = "save_alias" /\ chain.prod \in was_prod
  BY DEF PromotionInv, PromotionTypes, ChainInv, SavePreviousAlias, At
<1>2. registry' = registry /\ rollback' = rollback
  BY DEF SavePreviousAlias
<1>3. SetAlias("previous_prod", chain.prod) \/ UNCHANGED <<alias, was_prod>>
  BY DEF SavePreviousAlias, SavedVersion
<1>4. Grows /\ AliasStep
  BY <1>1, <1>2, <1>3 DEF Grows, AliasStep
<1>5. chain' \in Chain' /\ ChainInv'
  <2>1. Raises \/ Goes("promote")
    BY DEF SavePreviousAlias
  <2>2. was_prod' = was_prod
    BY <1>3 DEF SetAlias
  <2> QED
    BY <1>1, <1>2, <2>1, <2>2 DEF Raises, Goes, Chain, ChainInv, Known
<1> QED
  BY <1>2, <1>4, <1>5, RollbackStays, PromotionInvHolds

(* The alias of the stage takes a version that has just passed the gates. *)
LEMMA PromoteStep ==
  ASSUME PromotionInv, Promote
  PROVE  Grows /\ AliasStep /\ PromotionInv'
<1>1. /\ chain \in Chain /\ ChainInv /\ chain.task = "promote" /\ chain.metrics \in Metrics
      /\ chain.version \in DOMAIN registry /\ registry[chain.version].metrics = chain.metrics
  BY DEF PromotionInv, PromotionTypes, ChainInv, Promote, At
<1>2. registry' = registry /\ rollback' = rollback
  BY DEF Promote
<1>3. \/ UNCHANGED <<alias, was_prod>>
      \/ GatesPassed(chain.metrics) /\ SetAlias(chain.stage, chain.version)
  BY DEF Promote
<1>4. AliasStep
  <2>1. CASE GatesPassed(chain.metrics) /\ SetAlias(chain.stage, chain.version)
    <3>1. chain.version \in Approved'
      BY <1>1, <1>2, <2>1, PassedGates DEF Approved
    <3>2. chain.version \in Known'
      BY <1>1, <1>2 DEF Chain, Known
    <3>3. chain.stage = "prod" \/ chain.stage \in Stages \ {"prod", "previous_prod"}
      BY <1>1, PromotionAssumption DEF Chain, Stages
    <3> QED
      BY <2>1, <3>1, <3>2, <3>3 DEF AliasStep
  <2> QED
    BY <1>3, <2>1 DEF AliasStep
<1>5. Grows
  BY <1>2 DEF Grows
<1>6. chain' \in Chain' /\ ChainInv'
  <2>1. Raises \/ Goes("resolve")
    BY DEF Promote
  <2> QED
    BY <1>1, <1>2, <2>1 DEF Raises, Goes, Chain, ChainInv, Known
<1> QED
  BY <1>2, <1>4, <1>5, <1>6, RollbackStays, PromotionInvHolds

(* A bundle put in production by hand is approved as it is registered. *)
LEMMA RegisterStep ==
  ASSUME PromotionInv, RegisterLoggedModel
  PROVE  Grows /\ AliasStep /\ PromotionInv'
<1>1. registry \in Seq(Version) /\ Len(registry) \in Nat
  BY DEF PromotionInv, PromotionTypes
<1>2. PICK valid \in BOOLEAN :
        registry' = Append(registry, [source |-> "logged", metrics |-> None, valid |-> valid])
  BY DEF RegisterLoggedModel
<1> DEFINE new == [source |-> "logged", metrics |-> None, valid |-> valid]
<1>3. new \in Version
  BY DEF Version
<1>4. Grows
  BY <1>2, <1>3 DEF Grows
<1>5. Len(registry) + 1 \in Approved'
  BY <1>1, <1>2, <1>3, AppendProperties DEF Approved
<1>6. AliasStep
  BY <1>5 DEF RegisterLoggedModel, AliasStep
<1> QED
  BY <1>4, <1>6, ChainStays, RollbackStays, PromotionInvHolds DEF RegisterLoggedModel

(* A rollback puts back what was in production, whatever was promoted since it read the alias. *)
LEMMA RollbackSteps ==
  ASSUME PromotionInv, StartRollback \/ GetPreviousProd \/ RestoreProd \/ ArchiveFaulty
  PROVE  Grows /\ AliasStep /\ PromotionInv'
<1>1. /\ registry' = registry /\ chain' = chain
  BY DEF StartRollback, GetPreviousProd, RestoreProd, ArchiveFaulty
<1>2. /\ rollback \in Rollback /\ alias["prod"] \in Known /\ alias["previous_prod"] \in Known
      /\ alias["previous_prod"] \in was_prod \cup {0} /\ was_prod \subseteq Approved
      /\ rollback.step = "restore" => rollback.previous \in was_prod
      /\ 0 \in Known
  BY DEF PromotionInv, PromotionTypes, ProdInv, Stages, Known
<1>3. Grows /\ Known' = Known /\ Approved' = Approved
  BY <1>1 DEF Grows, Known, Approved
<1>4. AliasStep
  <2>1. CASE StartRollback \/ GetPreviousProd
    BY <2>1 DEF StartRollback, GetPreviousProd, AliasStep
  <2>2. CASE RestoreProd
    BY <1>2, <1>3, <2>2 DEF RestoreProd, AliasStep
  <2>3. CASE ArchiveFaulty
    BY <1>2, <1>3, <2>3 DEF ArchiveFaulty, AliasStep, Rollback, Stages
  <2> QED
    BY <2>1, <2>2, <2>3
<1>5. rollback' \in Rollback /\ (rollback'.step = "restore" => rollback'.previous \in was_prod')
  <2>1. CASE StartRollback
    <3>1. rollback.number + 1 \in Nat
      BY <1>2 DEF Rollback
    <3>2. rollback' = [step |-> "read", faulty |-> alias["prod"], previous |-> 0, success |-> FALSE,
                       number |-> rollback.number + 1]
      BY <2>1 DEF StartRollback, NoRollback
    <3> QED
      BY <1>2, <3>1, <3>2 DEF Rollback
  <2>2. CASE GetPreviousProd
    BY <1>2, <2>2 DEF GetPreviousProd, RollbackEnds, Rollback
  <2>3. CASE RestoreProd
    BY <1>2, <2>3 DEF RestoreProd, RollbackEnds, Rollback
  <2>4. CASE ArchiveFaulty
    <3>1. PICK success \in BOOLEAN : RollbackEnds(success)
      BY <2>4 DEF ArchiveFaulty
    <3> QED
      BY <1>2, <3>1 DEF RollbackEnds, Rollback
  <2> QED
    BY <2>1, <2>2, <2>3, <2>4
<1>6. rollback' \in Rollback'
  BY <1>3, <1>5 DEF Rollback
<1> QED
  BY <1>1, <1>3, <1>4, <1>5, <1>6, ChainStays, PromotionInvHolds

LEMMA RegistrySteps ==
  ASSUME PromotionInv, Registry
  PROVE  Grows /\ AliasStep /\ PromotionInv' /\ UNCHANGED servingVars
BY TaskSteps, MlflowStep, SaveAliasStep, PromoteStep, RegisterStep, RollbackSteps, Zenon
DEF Registry, Promoting

-----------------------------------------------------------------------------
(* The inference service and the API. *)

LEMMA InitHolds == Init => IInv
<1> SUFFICES ASSUME Init PROVE IInv
  OBVIOUS
<1>1. PICK first \in {<<>>, <<[source |-> "logged", metrics |-> None, valid |-> TRUE]>>} :
        registry = first
  BY DEF Init, PromotionInit
<1>2. /\ registry \in Seq(Version) /\ Len(registry) \in 0 .. 1 /\ DOMAIN registry = 1 .. Len(registry)
      /\ \A v \in DOMAIN registry : registry[v].source = "logged"
  <2>1. CASE registry = <<>>
    BY <2>1
  <2>2. CASE registry = <<[source |-> "logged", metrics |-> None, valid |-> TRUE]>>
    BY <2>2 DEF Version
  <2> QED
    BY <1>1, <2>1, <2>2
<1>3. /\ alias \in [Stages -> Known] /\ 0 \in Known
      /\ alias["prod"] = Len(registry) /\ alias["previous_prod"] = 0 /\ was_prod = DOMAIN registry
  BY <1>2 DEF Init, PromotionInit, Stages, Known
<1>4. PromotionTypes
  BY <1>2, <1>3, PromotionAssumption
  DEF PromotionTypes, Init, PromotionInit, NoChain, NoRollback, Chain, Rollback
<1>5. ChainInv
  BY DEF ChainInv, Init, PromotionInit, NoChain
<1>6. ProdInv
  BY <1>2, <1>3 DEF ProdInv, Approved, Init, PromotionInit, NoRollback
<1>7. ServingTypes
  BY <1>3 DEF ServingTypes, Init, NoReload, NoPrediction, NotRecorded
<1>8. ReloadInv /\ PredictionInv /\ ServedWasProd /\ PredictionIsOneVersion /\ ReloadedWasSwapped
  BY DEF ReloadInv, PredictionInv, ServedWasProd, PredictionIsOneVersion, ReloadedWasSwapped,
         Init, NoReload, NoPrediction, NotRecorded
<1> QED
  BY <1>4, <1>5, <1>6, <1>7, <1>8 DEF IInv, PromotionInv, ServingInv

(* Versions and what was in production stay, so nothing that names them is disturbed. *)
LEMMA RegistryKeepsServing ==
  ASSUME IInv, Registry PROVE IInv'
<1>1. Grows /\ AliasStep /\ PromotionInv' /\ UNCHANGED servingVars
  BY RegistrySteps DEF IInv
<1>2. /\ Known \subseteq Known' /\ was_prod \subseteq was_prod' /\ was_prod \subseteq DOMAIN registry
      /\ \A v \in DOMAIN registry : registry'[v] = registry[v]
  BY <1>1, VersionsStay, AliasesStay DEF IInv, PromotionInv, PromotionTypes
<1>3. /\ ServingTypes /\ ReloadInv /\ PredictionInv /\ ServedWasProd /\ PredictionIsOneVersion
      /\ ReloadedWasSwapped
  BY DEF IInv, ServingInv
<1>4. ServingTypes'
  BY <1>1, <1>2, <1>3 DEF ServingTypes, servingVars
<1>5. ServedWasProd'
  BY <1>1, <1>2, <1>3 DEF ServedWasProd, servingVars
<1>6. ReloadInv' /\ PredictionInv'
  BY <1>1, <1>2, <1>3 DEF ReloadInv, PredictionInv, servingVars
<1>7. PredictionIsOneVersion' /\ ReloadedWasSwapped'
  BY <1>1, <1>2, <1>3 DEF PredictionIsOneVersion, ReloadedWasSwapped, servingVars
<1> QED
  BY <1>1, <1>4, <1>5, <1>6, <1>7 DEF IInv, ServingInv

(* The steps of the service and of the API leave the aliases alone. *)
LEMMA PromotionUnchanged ==
  ASSUME PromotionInv, UNCHANGED promotionVars
  PROVE  PromotionInv' /\ Known' = Known /\ was_prod' = was_prod /\ registry' = registry
BY DEF PromotionInv, PromotionTypes, ChainInv, ProdInv, Chain, Rollback, Known, Approved, promotionVars

LEMMA ReloadSteps ==
  ASSUME IInv, NEW r \in Requests,
         ResolveModel(r) \/ LoadModel(r) \/ LoadFails(r) \/ AskReload(r)
  PROVE  IInv'
<1>2. UNCHANGED <<promotionVars, prediction, recorded, audit, restarts>>
  BY DEF ResolveModel, LoadModel, LoadFails, AskReload
<1>3. PromotionInv' /\ Known' = Known /\ was_prod' = was_prod /\ registry' = registry
  BY <1>2, PromotionUnchanged DEF IInv
<1>4. /\ ServingTypes /\ ReloadInv /\ PredictionInv /\ ServedWasProd /\ PredictionIsOneVersion
      /\ ReloadedWasSwapped /\ was_prod \subseteq Known
      /\ alias["prod"] \in was_prod \cup {0} /\ alias["prod"] \in Known /\ 0 \in Known
  BY DEF IInv, ServingInv, PromotionInv, PromotionTypes, ProdInv, Stages, Known
<1> HIDE DEF Known
<1>5. PredictionInv' /\ PredictionIsOneVersion'
  BY <1>2, <1>3, <1>4 DEF PredictionInv, PredictionIsOneVersion
<1>6. CASE ResolveModel(r)
  <2>1. ServingTypes'
    BY <1>2, <1>3, <1>4, <1>6 DEF ServingTypes, ResolveModel, Resolved
  <2>2. ReloadInv'
    BY <1>2, <1>3, <1>4, <1>6 DEF ServingTypes, ReloadInv, ResolveModel, Resolved
  <2>3. ServedWasProd' /\ ReloadedWasSwapped'
    BY <1>3, <1>4, <1>6 DEF ServedWasProd, ReloadedWasSwapped, ResolveModel
  <2> QED
    BY <1>3, <1>5, <2>1, <2>2, <2>3 DEF IInv, ServingInv
<1>7. CASE LoadModel(r)
  <2>0. reload[r].version \in was_prod /\ reload[r].version \in Known
    BY <1>4, <1>7 DEF ReloadInv, LoadModel
  <2>1. ServingTypes'
    BY <1>2, <1>3, <1>4, <1>7, <2>0 DEF ServingTypes, LoadModel
  <2>2. ReloadInv'
    BY <1>2, <1>3, <1>4, <1>7, <2>0 DEF ServingTypes, ReloadInv, LoadModel
  <2>3. ServedWasProd'
    BY <1>3, <1>4, <1>7, <2>0 DEF ServedWasProd, LoadModel, Loads
  <2>4. ReloadedWasSwapped'
    BY <1>2, <1>4, <1>7 DEF ReloadedWasSwapped, LoadModel
  <2> QED
    BY <1>3, <1>5, <2>1, <2>2, <2>3, <2>4 DEF IInv, ServingInv
<1>8. CASE LoadFails(r)
  <2>1. ServingTypes'
    BY <1>2, <1>3, <1>4, <1>8 DEF ServingTypes, LoadFails
  <2>2. ReloadInv'
    BY <1>2, <1>3, <1>4, <1>8 DEF ServingTypes, ReloadInv, LoadFails
  <2>3. ServedWasProd' /\ ReloadedWasSwapped'
    BY <1>3, <1>4, <1>8 DEF ServedWasProd, ReloadedWasSwapped, LoadFails
  <2> QED
    BY <1>3, <1>5, <2>1, <2>2, <2>3 DEF IInv, ServingInv
<1>9. CASE AskReload(r)
  <2>0. PICK step \in {"refused", "asked"} : reload' = [reload EXCEPT ![r].step = step]
    BY <1>9 DEF AskReload
  <2>1. ServingTypes'
    BY <1>2, <1>3, <1>4, <1>9, <2>0 DEF ServingTypes, AskReload
  <2>2. ReloadInv'
    BY <1>2, <1>3, <1>4, <1>9, <2>0 DEF ServingTypes, ReloadInv, AskReload
  <2>3. ServedWasProd' /\ ReloadedWasSwapped'
    BY <1>3, <1>4, <1>9 DEF ServedWasProd, ReloadedWasSwapped, AskReload
  <2> QED
    BY <1>3, <1>5, <2>1, <2>2, <2>3 DEF IInv, ServingInv
<1> QED
  BY <1>6, <1>7, <1>8, <1>9

(* What is audited as reloaded is a reload that has been swapped. *)
LEMMA AuditSteps ==
  ASSUME IInv, NEW r \in Requests, RefuseReload(r) \/ AnswerReload(r)
  PROVE  IInv'
<1>1. UNCHANGED <<promotionVars, runtime, swapped, reload, prediction, recorded, restarts>>
  BY DEF RefuseReload, AnswerReload
<1>2. PromotionInv' /\ Known' = Known /\ was_prod' = was_prod /\ registry' = registry
  BY <1>1, PromotionUnchanged DEF IInv
<1>3. /\ ServingTypes /\ ReloadInv /\ PredictionInv /\ ServedWasProd /\ PredictionIsOneVersion
      /\ ReloadedWasSwapped /\ 0 \in Known
  BY DEF IInv, ServingInv, PromotionInv, PromotionTypes, Known
<1> HIDE DEF Known
<1>4. PICK ended \in {"done", "broken"} : request' = [request EXCEPT ![r] = ended]
  BY DEF RefuseReload, AnswerReload
<1>5. PICK e \in [request : Requests, status : {"reloaded", "failed", "refused"}, version : Known] :
        /\ audit' \in {audit, audit \cup {e}}
        /\ e.status = "reloaded" => <<e.request, e.version>> \in swapped
  <2>1. CASE RefuseReload(r)
    <3> DEFINE e == [request |-> r, status |-> "refused", version |-> 0]
    <3>1. e \in [request : Requests, status : {"reloaded", "failed", "refused"}, version : Known]
      BY <1>3
    <3>2. audit' = audit \cup {e} /\ e.status # "reloaded"
      BY <2>1 DEF RefuseReload, Audits
    <3> QED
      BY <3>1, <3>2
  <2>2. CASE AnswerReload(r)
    <3>1. PICK answer \in Answers(r) :
            IF Audited(answer) THEN Audits(r, AuditStatus(answer), reload[r].version) ELSE UNCHANGED audit
      BY <2>2 DEF AnswerReload
    <3>2. AuditStatus(answer) \in {"reloaded", "failed"}
      BY DEF AuditStatus
    <3>3. AuditStatus(answer) = "reloaded" => <<r, reload[r].version>> \in swapped
      BY <1>3, <3>1 DEF AuditStatus, Answers, ReloadInv
    <3>4. reload[r].version \in Known
      BY <1>3 DEF ServingTypes
    <3> DEFINE e == [request |-> r, status |-> AuditStatus(answer), version |-> reload[r].version]
    <3>5. e \in [request : Requests, status : {"reloaded", "failed", "refused"}, version : Known]
      BY <3>2, <3>4
    <3>6. /\ audit' \in {audit, audit \cup {e}} /\ e.request = r
          /\ e.version = reload[r].version /\ e.status = AuditStatus(answer)
      BY <3>1 DEF Audits
    <3> HIDE DEF e
    <3> QED
      BY <3>3, <3>5, <3>6
  <2> QED
    BY <2>1, <2>2
<1>6. ServingTypes'
  BY <1>1, <1>2, <1>3, <1>4, <1>5 DEF ServingTypes
<1>7. ReloadInv' /\ PredictionInv' /\ ServedWasProd' /\ PredictionIsOneVersion'
  BY <1>1, <1>2, <1>3 DEF ReloadInv, PredictionInv, ServedWasProd, PredictionIsOneVersion
<1>8. ReloadedWasSwapped'
  BY <1>1, <1>3, <1>5 DEF ReloadedWasSwapped
<1> QED
  BY <1>2, <1>6, <1>7, <1>8 DEF IInv, ServingInv

(* A prediction keeps the snapshot it took, and is recorded under it. *)
LEMMA PredictionSteps ==
  ASSUME IInv, NEW p \in Predictions,
         \/ StartPrediction(p) \/ Decide(p) \/ PredictFails(p)
         \/ AskPrediction(p) \/ RecordPrediction(p) \/ RefusePrediction(p)
  PROVE  IInv'
<1>1. UNCHANGED <<promotionVars, runtime, swapped, request, reload, audit, restarts>>
  BY DEF StartPrediction, Decide, PredictFails, AskPrediction, RecordPrediction, RefusePrediction
<1>2. PromotionInv' /\ Known' = Known /\ was_prod' = was_prod /\ registry' = registry
  BY <1>1, PromotionUnchanged DEF IInv
<1>3. /\ ServingTypes /\ ReloadInv /\ PredictionInv /\ ServedWasProd /\ PredictionIsOneVersion
      /\ ReloadedWasSwapped /\ was_prod \subseteq Known /\ 0 \in Known
      /\ runtime \in was_prod \cup {0}
  BY DEF IInv, ServingInv, PromotionInv, PromotionTypes, Known, ServedWasProd
<1>4. ReloadInv' /\ ServedWasProd' /\ ReloadedWasSwapped'
  BY <1>1, <1>2, <1>3 DEF ReloadInv, ServedWasProd, ReloadedWasSwapped
<1> HIDE DEF Known
<1> DEFINE Kept == ServingTypes' /\ PredictionInv' /\ PredictionIsOneVersion'
<1>5. ASSUME StartPrediction(p) PROVE Kept
  BY <1>1, <1>2, <1>3, <1>5 DEF StartPrediction, ServingTypes, PredictionInv, PredictionIsOneVersion
<1>6. ASSUME Decide(p) PROVE Kept
  <2>1. /\ prediction[p].step = "running" /\ recorded' = recorded
        /\ prediction' = [prediction EXCEPT ![p].step = "answered",
                                            ![p].thresholds = prediction[p].thresholds]
    BY <1>6 DEF Decide, ThresholdsOf
  <2>2. ServingTypes'
    <3>1. prediction' \in [Predictions -> [step : {"none", "asked", "running", "answered", "failed"},
                                           checkpoint : Known, thresholds : Known]]
      BY <1>3, <2>1, ZenonT(30) DEF ServingTypes
    <3> QED
      BY <1>1, <1>2, <1>3, <2>1, <3>1 DEF ServingTypes
  <2>3. \A q \in Predictions :
          /\ prediction'[q].checkpoint = prediction[q].checkpoint
          /\ prediction'[q].thresholds = prediction[q].thresholds
          /\ prediction[q].step = "answered" => prediction'[q].step = "answered"
    BY <1>3, <2>1 DEF ServingTypes
  <2> QED
    BY <1>2, <1>3, <2>1, <2>2, <2>3 DEF PredictionInv, PredictionIsOneVersion
<1>7. ASSUME PredictFails(p) PROVE Kept
  BY <1>1, <1>2, <1>3, <1>7 DEF PredictFails, ServingTypes, PredictionInv, PredictionIsOneVersion
<1>8. ASSUME AskPrediction(p) PROVE Kept
  <2>1. PICK status \in {"waiting", "refused"} : recorded' = [recorded EXCEPT ![p].status = status]
    BY <1>8 DEF AskPrediction
  <2>2. prediction' \in {prediction, [prediction EXCEPT ![p].step = "asked"]} /\ recorded[p].status = "new"
    BY <1>8 DEF AskPrediction
  <2>3. ServingTypes'
    <3>1. prediction' \in [Predictions -> [step : {"none", "asked", "running", "answered", "failed"},
                                           checkpoint : Known, thresholds : Known]]
      <4>1. CASE prediction' = prediction
        BY <1>3, <4>1 DEF ServingTypes
      <4>2. CASE prediction' = [prediction EXCEPT ![p].step = "asked"]
        BY <1>3, <4>2, ZenonT(30) DEF ServingTypes
      <4> QED
        BY <2>2, <4>1, <4>2
    <3>2. recorded' \in [Predictions -> [status : {"new", "waiting", "recorded", "refused"},
                                         version : Known]]
      BY <1>3, <2>1 DEF ServingTypes
    <3> QED
      BY <1>1, <1>2, <1>3, <3>1, <3>2 DEF ServingTypes
  <2>4. \A q \in Predictions :
          /\ prediction'[q].checkpoint = prediction[q].checkpoint
          /\ prediction'[q].thresholds = prediction[q].thresholds
          /\ q # p => prediction'[q] = prediction[q] /\ recorded'[q] = recorded[q]
    BY <1>3, <2>1, <2>2 DEF ServingTypes
  <2>5. recorded'[p].status # "recorded"
    BY <1>3, <2>1 DEF ServingTypes
  <2> QED
    BY <1>2, <1>3, <2>3, <2>4, <2>5 DEF PredictionInv, PredictionIsOneVersion
<1>9. ASSUME RecordPrediction(p) PROVE Kept
  <2>1. PICK new \in {[status |-> "recorded", version |-> prediction[p].checkpoint],
                       [recorded[p] EXCEPT !.status = "refused"]} :
          recorded' = [recorded EXCEPT ![p] = new]
    BY <1>9 DEF RecordPrediction
  <2>2. prediction' = prediction /\ prediction[p].step = "answered"
    BY <1>9 DEF RecordPrediction
  <2>3. /\ new \in [status : {"new", "waiting", "recorded", "refused"}, version : Known]
        /\ new.status = "recorded" => new.version = prediction[p].checkpoint
    BY <1>3 DEF ServingTypes
  <2>4. ServingTypes'
    BY <1>1, <1>2, <1>3, <2>1, <2>2, <2>3 DEF ServingTypes
  <2>5. \A q \in Predictions : recorded'[q] = IF q = p THEN new ELSE recorded[q]
    BY <1>3, <2>1 DEF ServingTypes
  <2> QED
    BY <1>2, <1>3, <2>2, <2>3, <2>4, <2>5 DEF PredictionInv, PredictionIsOneVersion
<1>10. ASSUME RefusePrediction(p) PROVE Kept
  BY <1>1, <1>2, <1>3, <1>10 DEF RefusePrediction, ServingTypes, PredictionInv, PredictionIsOneVersion
<1> QED
  BY <1>2, <1>4, <1>5, <1>6, <1>7, <1>8, <1>9, <1>10 DEF IInv, ServingInv

(* A restart loses what was under way; the bootstrap serves. *)
LEMMA RestartKeeps ==
  ASSUME IInv, RestartInference PROVE IInv'
<1>1. UNCHANGED <<promotionVars, swapped, request, recorded, audit>> /\ runtime' = 0
  BY DEF RestartInference
<1>2. PromotionInv' /\ Known' = Known /\ was_prod' = was_prod /\ registry' = registry
  BY <1>1, PromotionUnchanged DEF IInv
<1>3. /\ ServingTypes /\ ReloadInv /\ PredictionInv /\ PredictionIsOneVersion /\ ReloadedWasSwapped
      /\ 0 \in Known
  BY DEF IInv, ServingInv, PromotionInv, PromotionTypes, Known
<1> HIDE DEF Known
<1>4. \A r \in Requests : reload'[r] \in {[step |-> "none", version |-> 0], [step |-> "lost", version |-> 0]}
  BY DEF RestartInference, NoReload
<1>5. \A p \in Predictions :
        prediction'[p] \in {prediction[p], [step |-> "failed", checkpoint |-> 0, thresholds |-> 0]}
        /\ (prediction[p].step = "answered" => prediction'[p] = prediction[p])
  BY DEF RestartInference, NoPrediction
<1>6. /\ DOMAIN reload' = Requests /\ DOMAIN prediction' = Predictions
      /\ reload' = [r \in Requests |-> reload'[r]] /\ prediction' = [p \in Predictions |-> prediction'[p]]
  BY DEF RestartInference
<1>7. ServingTypes'
  BY <1>1, <1>2, <1>3, <1>4, <1>5, <1>6 DEF ServingTypes
<1>8. ReloadInv' /\ ServedWasProd' /\ ReloadedWasSwapped'
  BY <1>1, <1>2, <1>3, <1>4 DEF ReloadInv, ServedWasProd, ReloadedWasSwapped
<1>9. PredictionInv' /\ PredictionIsOneVersion'
  BY <1>1, <1>2, <1>3, <1>5 DEF PredictionInv, PredictionIsOneVersion
<1> QED
  BY <1>2, <1>7, <1>8, <1>9 DEF IInv, ServingInv

-----------------------------------------------------------------------------
(* The theorems. *)

LEMMA StepKeeps == IInv /\ [Next]_vars => IInv'
<1> SUFFICES ASSUME IInv, [Next]_vars PROVE IInv'
  OBVIOUS
<1>1. CASE Registry
  BY <1>1, RegistryKeepsServing
<1>2. CASE Inference
  BY <1>2, ReloadSteps, PredictionSteps, RestartKeeps DEF Inference
<1>3. CASE Api
  BY <1>3, ReloadSteps, AuditSteps, PredictionSteps DEF Api
<1>4. CASE UNCHANGED vars
  <2>1. PromotionInv' /\ Known' = Known /\ was_prod' = was_prod /\ registry' = registry
    BY <1>4, PromotionUnchanged DEF IInv, vars
  <2>2. ServingInv'
    BY <1>4, <2>1
    DEF IInv, ServingInv, ServingTypes, ReloadInv, PredictionInv, ServedWasProd,
        PredictionIsOneVersion, ReloadedWasSwapped, vars, servingVars
  <2> QED
    BY <2>1, <2>2 DEF IInv
<1> QED
  BY <1>1, <1>2, <1>3, <1>4 DEF Next

LEMMA IInvHolds == Spec => []IInv
<1> QED
  BY InitHolds, StepKeeps, PTL DEF Spec

(* The variables keep their types, and an alias names a version that exists, whatever fails. *)
THEOREM ServingTypeCorrect == Spec => []TypeOK
<1>1. IInv => TypeOK
  <2> SUFFICES ASSUME IInv PROVE TypeOK
    OBVIOUS
  <2>1. PromotionTypes /\ ServingTypes
    BY DEF IInv, PromotionInv, ServingInv
  <2>2. \A v \in DOMAIN registry : registry[v].source \in {"run", "logged"}
    <3>1. \A v \in DOMAIN registry : registry[v] \in Version
      BY <2>1, ElementOfSeq DEF PromotionTypes
    <3> QED
      BY <3>1 DEF Version
  <2>3. /\ alias \in [Stages -> 0 .. Len(registry)] /\ was_prod \subseteq DOMAIN registry
        /\ runtime \in 0 .. Len(registry)
    BY <2>1 DEF PromotionTypes, ServingTypes, Known
  <2>4. /\ chain.task \in {"dataset", "train", "eval", "gates", "mlflow", "save", "save_alias", "promote",
                           "resolve", "reload", "done"}
        /\ rollback.step \in {"idle", "read", "restore", "archive"}
    BY <2>1 DEF PromotionTypes, Chain, Rollback
  <2>5. \A r \in Requests : reload[r].step \in {"none", "asked", "resolved", "swapped", "refused", "lost"}
                            /\ request[r] \in {"new", "waiting", "done", "broken"}
    BY <2>1 DEF ServingTypes
  <2>6. \A p \in Predictions : prediction[p].step \in {"none", "asked", "running", "answered", "failed"}
                               /\ recorded[p].status \in {"new", "waiting", "recorded", "refused"}
    BY <2>1 DEF ServingTypes
  <2>7. \A e \in audit : e.status \in {"reloaded", "failed", "refused"}
    BY <2>1 DEF ServingTypes
  <2> QED
    BY <2>2, <2>3, <2>4, <2>5, <2>6, <2>7 DEF TypeOK
<1> QED
  BY <1>1, IInvHolds, PTL

(* Only a whole bundle that was in production ever serves, in whatever order reloads end. *)
THEOREM OnlyProdServes == Spec => []ServedWasProd
<1>1. IInv => ServedWasProd
  BY DEF IInv, ServingInv
<1> QED
  BY <1>1, IInvHolds, PTL

(* Every recorded prediction is of one version, that of its score and of its thresholds. *)
THEOREM PredictionsAreOfOneVersion == Spec => []PredictionIsOneVersion
<1>1. IInv => PredictionIsOneVersion
  BY DEF IInv, ServingInv
<1> QED
  BY <1>1, IInvHolds, PTL

(* The audit log never claims a reload that did not happen. *)
THEOREM AuditIsTruthful == Spec => []ReloadedWasSwapped
<1>1. IInv => ReloadedWasSwapped
  BY DEF IInv, ServingInv
<1> QED
  BY <1>1, IInvHolds, PTL

-----------------------------------------------------------------------------
(* The refinement of ModelAliases. *)

LEMMA InitRefines == Init => Aliases!Init
<1> SUFFICES ASSUME Init PROVE Aliases!Init
  OBVIOUS
<1>1. /\ alias["previous_prod"] = 0 /\ alias["prod"] = Len(registry) /\ was_prod = DOMAIN registry
      /\ Len(registry) \in {0, 1} /\ DOMAIN registry = 1 .. Len(registry)
  BY DEF Init, PromotionInit, Stages
<1>2. ProdInv
  BY InitHolds DEF IInv, PromotionInv
<1> QED
  BY <1>1, <1>2 DEF Aliases!Init, ProdInv, Approved

(* A step that moves no alias, or one of the others, approves at most; one that moves      *)
(* previous_prod saves; one that moves prod promotes, also when a rollback does it.        *)
LEMMA StepRefines ==
  ASSUME IInv, [Next]_vars
  PROVE  [Aliases!Next]_(Aliases!vars)
<1>1. /\ PromotionInv /\ alias \in [Stages -> Known] /\ {"prod", "previous_prod"} \subseteq Stages
  BY DEF IInv, PromotionInv, PromotionTypes, Stages
<1>2. CASE Registry
  <2>1. Grows /\ AliasStep
    BY <1>1, <1>2, RegistrySteps
  <2>2. Approved \subseteq Approved'
    BY <1>1, <2>1, VersionsStay DEF PromotionInv, PromotionTypes
  <2>3. CASE \/ UNCHANGED <<alias, was_prod>>
             \/ \E s \in Stages \ {"prod", "previous_prod"}, v \in Known' : SetAlias(s, v)
    <3>1. alias'["prod"] = alias["prod"] /\ alias'["previous_prod"] = alias["previous_prod"]
          /\ was_prod' = was_prod
      BY <1>1, <2>3 DEF SetAlias
    <3> QED
      BY <2>2, <3>1 DEF Aliases!Next, Aliases!Approve, Approved
  <2>4. CASE registry' = registry /\ \E v \in was_prod : SetAlias("previous_prod", v)
    <3>1. alias'["prod"] = alias["prod"] /\ alias'["previous_prod"] \in was_prod
          /\ was_prod' = was_prod /\ registry' = registry
      BY <1>1, <2>4 DEF SetAlias
    <3> QED
      BY <3>1 DEF Aliases!Next, Aliases!Save
  <2>5. CASE \E v \in Approved' : SetAlias("prod", v)
    <3>1. alias'["prod"] \in Approved' /\ alias'["previous_prod"] = alias["previous_prod"]
          /\ was_prod' = was_prod \cup {alias'["prod"]}
      BY <1>1, <2>5 DEF SetAlias
    <3> QED
      BY <2>2, <3>1 DEF Aliases!Next, Aliases!Promote, Approved
  <2> QED
    BY <2>1, <2>3, <2>4, <2>5 DEF AliasStep
<1>3. CASE Inference \/ Api \/ UNCHANGED vars
  <2>1. UNCHANGED promotionVars
    BY <1>3, Zenon
    DEF Inference, Api, vars, ResolveModel, LoadModel, LoadFails, StartPrediction, Decide, PredictFails,
        RestartInference, AskReload, RefuseReload, AnswerReload, AskPrediction, RecordPrediction,
        RefusePrediction
  <2> QED
    BY <2>1 DEF promotionVars, Aliases!vars
<1> QED
  BY <1>2, <1>3 DEF Next

(* docs/gates.md, docs/rollback.md: whatever fails or runs beside it, production             *)
(* only gets approved versions and previous_prod only names what was in production.         *)
THEOREM ImplementsAliases == Spec => AliasesSpec
<1>1. IInv /\ [Next]_vars => [Aliases!Next]_(Aliases!vars)
  BY StepRefines
<1> QED
  BY <1>1, InitRefines, IInvHolds, PTL DEF Spec, AliasesSpec, Aliases!Spec
=============================================================================

------------------------------ MODULE Promotion ------------------------------
(***************************************************************************)
(* The promotion of a Feature-AE model and its rollback: the lifecycle     *)
(* tasks of iqa.dags.lifecycle_tasks, iqa.promotion (gates, promotion,     *)
(* rollback) and iqa.registry, over the aliases of one registered model.   *)
(*                                                                         *)
(* No DAG of the repository executes the tasks: they are the functions     *)
(* iqa.dags.lifecycle_tasks offers, chained here as each reads the result  *)
(* of the one before.  One chain is under way at a time, and a task that   *)
(* raised ends it.  An operator may roll back, and register a bundle for   *)
(* production by hand, meanwhile.  Any call to MLflow may fail, before or  *)
(* after it took effect.                                                   *)
(*                                                                         *)
(* A version is [source, metrics, valid]: a version of register_run_to_    *)
(* model points into a run, one of register_logged_feature_ae_model at a   *)
(* bundle; valid says whether its bundle passes the checks of the loader.  *)
(***************************************************************************)
EXTENDS Integers, Sequences

CONSTANTS
  Metrics,        \* what an evaluation may return, records in hundredths (latency in ms)
  GatesConfig,    \* configs/promotion_gates.yaml, or None when it is missing
  TargetStages,   \* the values of the DAG parameter target_stage
  Faults,         \* TRUE: tasks and calls to MLflow may fail
  MaxVersions,    \* bound: versions of the registered model
  MaxChains,      \* bound: runs of the chain
  MaxRollbacks,   \* bound: rollbacks
  None            \* Python's None

Stages == {"candidate", "test", "prod", "previous_prod", "archived"}

(* promote_model_with_gates: "Target stage (test, prod, archived)". *)
ASSUME PromotionAssumption ==
  /\ TargetStages \subseteq {"test", "prod", "archived"} /\ Faults \in BOOLEAN
  /\ {MaxVersions, MaxChains, MaxRollbacks} \subseteq Nat

VARIABLES
  registry,  \* the versions, in order
  alias,     \* the version each alias names, 0 for none
  was_prod,  \* history: the versions prod ever named
  chain,     \* the run of the task chain
  rollback   \* the latest call of rollback_model

promotionVars == <<registry, alias, was_prod, chain, rollback>>

NoChain == [task |-> "done", stage |-> "test", metrics |-> None, version |-> 0, prod |-> 0,
            number |-> 0, failed |-> FALSE]

NoRollback == [step |-> "idle", faulty |-> 0, previous |-> 0, success |-> FALSE, number |-> 0]

(* A call succeeds, or raises without or with its effect. *)
Calls == IF Faults THEN [raises : BOOLEAN, done : BOOLEAN] \ {[raises |-> FALSE, done |-> FALSE]}
         ELSE {[raises |-> FALSE, done |-> TRUE]}

SetAlias(stage, version) ==
  /\ alias' = [alias EXCEPT ![stage] = version]
  /\ was_prod' = IF stage = "prod" THEN was_prod \cup {version} ELSE was_prod

At(task) == chain.task = task /\ ~chain.failed

Goes(task) == chain' = [chain EXCEPT !.task = task]

Raises == chain' = [chain EXCEPT !.failed = TRUE]

-----------------------------------------------------------------------------
(* Gates. *)

DefaultGates == [recall_defect_min |-> 100, image_ap_max_regression |-> 2, orange_rate_max |-> 100,
                 latency_p95_ms_max |-> 1000]

(* gates_config.get("feature_ae", {}).get(key, default) *)
Threshold(config, key) ==
  IF config # None /\ key \in DOMAIN config THEN config[key] ELSE DefaultGates[key]

(* The values of configs/promotion_gates.yaml, which are the defaults, or stricter ones. *)
ASSUME GatesAssumption ==
  /\ \A metrics \in Metrics : metrics.recall \in Int /\ metrics.latency_ms \in Int
  /\ Threshold(GatesConfig, "recall_defect_min") \in Int
  /\ Threshold(GatesConfig, "recall_defect_min") >= 100
  /\ Threshold(GatesConfig, "latency_p95_ms_max") \in Int
  /\ Threshold(GatesConfig, "latency_p95_ms_max") <= 1000

(* evaluate_promotion_gates: the gates that failed.  Without prod_ap the regression is not checked. *)
FailedGates(metrics, prod_ap, config) ==
  (IF metrics.recall < Threshold(config, "recall_defect_min") THEN {"recall"} ELSE {})
  \cup (IF prod_ap # None /\ prod_ap - metrics.ap > Threshold(config, "image_ap_max_regression")
        THEN {"ap_regression"} ELSE {})
  \cup (IF metrics.orange_rate > Threshold(config, "orange_rate_max") THEN {"orange_rate"} ELSE {})
  \cup (IF metrics.latency_ms > Threshold(config, "latency_p95_ms_max") THEN {"latency"} ELSE {})

(* What task_eval returns has no prod_ap. *)
ProdAp(eval_output) == IF "prod_ap" \in DOMAIN eval_output THEN eval_output.prod_ap ELSE None

BugGatesPassed(eval_output) == "recall" \notin FailedGates(eval_output, ProdAp(eval_output), GatesConfig)

GatesPassed(eval_output) == FailedGates(eval_output, ProdAp(eval_output), GatesConfig) = {}

-----------------------------------------------------------------------------
(* The task chain. *)

(* task_lifecycle_decision.  When it is negative every task up to the promotion is skipped. *)
TaskLifecycleDecision ==
  /\ chain.task = "done" \/ chain.failed
  /\ chain.number < MaxChains
  /\ \E stage \in TargetStages, triggered \in BOOLEAN :
       chain' = [NoChain EXCEPT !.number = chain.number + 1, !.stage = stage,
                                !.task = IF triggered THEN "dataset" ELSE "reload"]
  /\ UNCHANGED <<registry, alias, was_prod, rollback>>

(* task_dataset passes iter_manifest_image_samples an argument it does not take: whenever *)
(* it is executed it raises TypeError.                                                    *)
TaskDataset ==
  /\ At("dataset")
  /\ Raises
  /\ UNCHANGED <<registry, alias, was_prod, rollback>>

(* A caller that has the result of task_dataset from elsewhere, as the tests of task_train  *)
(* do (no other caller exists), starts at the training.                                     *)
SupplyDataset ==
  /\ chain.task = "done" \/ chain.failed
  /\ chain.number < MaxChains
  /\ \E stage \in TargetStages :
       chain' = [NoChain EXCEPT !.number = chain.number + 1, !.stage = stage, !.task = "train"]
  /\ UNCHANGED <<registry, alias, was_prod, rollback>>

(* task_train: a run is logged, its metrics are not known yet. *)
TaskTrain ==
  /\ At("train")
  /\ Goes("eval") \/ (Faults /\ Raises)
  /\ UNCHANGED <<registry, alias, was_prod, rollback>>

TaskEval ==
  /\ At("eval")
  /\ \/ \E metrics \in Metrics : chain' = [chain EXCEPT !.metrics = metrics, !.task = "gates"]
     \/ Faults /\ Raises
  /\ UNCHANGED <<registry, alias, was_prod, rollback>>

TaskGates ==
  /\ At("gates")
  /\ IF GatesPassed(chain.metrics) THEN Goes("mlflow") ELSE Raises
  /\ UNCHANGED <<registry, alias, was_prod, rollback>>

(* register_run_to_model.  It swallows a failure to set the alias candidate. *)
TaskMlflow ==
  /\ At("mlflow")
  /\ Len(registry) < MaxVersions
  /\ LET version == Len(registry) + 1
     IN \/ /\ registry' = Append(registry, [source |-> "run", metrics |-> chain.metrics, valid |-> TRUE])
           /\ \/ SetAlias("candidate", version)
              \/ Faults /\ UNCHANGED <<alias, was_prod>>
           /\ \/ chain' = [chain EXCEPT !.version = version,
                                        !.task = IF chain.stage = "prod" THEN "save" ELSE "promote"]
              \/ Faults /\ Raises
        \/ Faults /\ Raises /\ UNCHANGED <<registry, alias, was_prod>>
  /\ UNCHANGED rollback

(* save_previous_prod_before_promotion reads prod; without one the task raises. *)
SavePreviousProd ==
  /\ At("save")
  /\ IF alias["prod"] = 0 THEN Raises
     ELSE chain' = [chain EXCEPT !.prod = alias["prod"], !.task = "save_alias"]
  /\ UNCHANGED <<registry, alias, was_prod, rollback>>

SavedVersion == chain.prod

SavePreviousAlias ==
  /\ At("save_alias")
  /\ \E call \in Calls :
       /\ IF call.done THEN SetAlias("previous_prod", SavedVersion) ELSE UNCHANGED <<alias, was_prod>>
       /\ IF call.raises THEN Raises ELSE Goes("promote")
  /\ UNCHANGED <<registry, rollback>>

(* promote_model_with_gates up to the transition.  Without its config file it raises. *)
Promote ==
  /\ At("promote")
  /\ IF GatesConfig = None \/ ~GatesPassed(chain.metrics)
     THEN Raises /\ UNCHANGED <<alias, was_prod>>
     ELSE \E call \in Calls :
            /\ IF call.done THEN SetAlias(chain.stage, chain.version) ELSE UNCHANGED <<alias, was_prod>>
            /\ IF call.raises THEN Raises ELSE Goes("resolve")
  /\ UNCHANGED <<registry, rollback>>

(* resolve_model_artifacts: the promotion fails after the transition when it does. *)
ResolveArtifacts ==
  /\ At("resolve")
  /\ Goes("reload") \/ (Faults /\ Raises)
  /\ UNCHANGED <<registry, alias, was_prod, rollback>>

(* task_reload: a ProdModelLoader of the task's own process; the inference service is not told. *)
TaskReload ==
  /\ At("reload")
  /\ \/ (chain.stage = "prod" => alias["prod"] # 0) /\ Goes("done")
     \/ chain.stage = "prod" /\ (Faults \/ alias["prod"] = 0) /\ Raises
  /\ UNCHANGED <<registry, alias, was_prod, rollback>>

-----------------------------------------------------------------------------
(* Operators. *)

(* register_logged_feature_ae_model with the stage prod, for a bundle that was checked by hand. *)
RegisterLoggedModel ==
  /\ Len(registry) < MaxVersions
  /\ \E valid \in BOOLEAN :
       registry' = Append(registry, [source |-> "logged", metrics |-> None, valid |-> valid])
  /\ SetAlias("prod", Len(registry) + 1) \/ (Faults /\ UNCHANGED <<alias, was_prod>>)
  /\ UNCHANGED <<chain, rollback>>

(* rollback_model, called for the version that is in production. *)
StartRollback ==
  /\ rollback.step = "idle" /\ rollback.number < MaxRollbacks
  /\ alias["prod"] # 0
  /\ rollback' = [NoRollback EXCEPT !.step = "read", !.faulty = alias["prod"],
                                    !.number = rollback.number + 1]
  /\ UNCHANGED <<registry, alias, was_prod, chain>>

RollbackEnds(success) == rollback' = [rollback EXCEPT !.step = "idle", !.success = success]

GetPreviousProd ==
  /\ rollback.step = "read"
  /\ \/ alias["previous_prod"] # 0
        /\ rollback' = [rollback EXCEPT !.step = "restore", !.previous = alias["previous_prod"]]
     \/ (Faults \/ alias["previous_prod"] = 0) /\ RollbackEnds(FALSE)
  /\ UNCHANGED <<registry, alias, was_prod, chain>>

RestoreProd ==
  /\ rollback.step = "restore"
  /\ \E call \in Calls :
       /\ IF call.done THEN SetAlias("prod", rollback.previous) ELSE UNCHANGED <<alias, was_prod>>
       /\ IF call.raises THEN RollbackEnds(FALSE)
          ELSE rollback' = [rollback EXCEPT !.step = "archive"]
  /\ UNCHANGED <<registry, chain>>

ArchiveFaulty ==
  /\ rollback.step = "archive"
  /\ \E call \in Calls :
       /\ IF call.done THEN SetAlias("archived", rollback.faulty) ELSE UNCHANGED <<alias, was_prod>>
       /\ RollbackEnds(~call.raises)
  /\ UNCHANGED <<registry, chain>>

(* Nothing is registered yet, or one bundle that was put in production by hand. *)
PromotionInit ==
  /\ registry \in {<<>>, <<[source |-> "logged", metrics |-> None, valid |-> TRUE]>>}
  /\ alias = [s \in Stages |-> IF s = "prod" THEN Len(registry) ELSE 0]
  /\ was_prod = DOMAIN registry
  /\ chain = NoChain
  /\ rollback = NoRollback
=============================================================================

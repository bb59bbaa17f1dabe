-------------------------- MODULE FeatureAETraining --------------------------
(***************************************************************************)
(* The files a training leaves (src/iqa/training/feature_ae.py,            *)
(* feature_ae_evaluation.py), what mlflow_logging.py uploads of them, and  *)
(* which of them the lifecycle runner takes for the two roles.             *)
(*                                                                         *)
(* A run directory is [epochs, best]: the content saved at each epoch      *)
(* (checkpoint_epoch_NNN.pt, kept because checkpoint_every_epochs is 1)    *)
(* and, for each metric that was measured, the epoch whose copy the best   *)
(* file of the metric holds.  checkpoint.pt, checkpoint_best_image.pt and  *)
(* checkpoint_best_localization.pt are copies of best files and are        *)
(* derived from best.  Losses decide nothing here: the runner always       *)
(* trains with a metric evaluation on the reference panel.                 *)
(***************************************************************************)
EXTENDS GateEvaluation

CONSTANTS
  Reference,    \* the panel of --reference-eval-manifest
  Epochs,       \* --epochs, or fewer when --max-steps ends training earlier
  Patience      \* metric_early_stopping_patience

ASSUME ReferenceAssumption == IsPanel(Reference)

EmptyDir == [epochs |-> <<>>, best |-> <<>>]

BusinessMetricSet == {BusinessMetrics[n] : n \in DOMAIN BusinessMetrics}

(* The metrics of METRIC_BEST_FILES an epoch evaluation returns. *)
EpochMetrics == BusinessMetricSet \cap Reference.metrics

BestContent(dir, metric) == dir.epochs[dir.best[metric]]

(* The comparison the other way round, as for a loss. *)
BugUpdateBest(dir, content) ==
  [m \in EpochMetrics |->
     IF m \in DOMAIN dir.best
        /\ Reference.value[content][m] >= Reference.value[BestContent(dir, m)][m]
     THEN dir.best[m]
     ELSE Len(dir.epochs) + 1]

(* update_metric_best_checkpoints, for the epoch that comes after dir.epochs. *)
UpdateBest(dir, content) ==
  [m \in EpochMetrics |->
     IF m \in DOMAIN dir.best
        /\ Reference.value[content][m] <= Reference.value[BestContent(dir, m)][m]
     THEN dir.best[m]
     ELSE Len(dir.epochs) + 1]

SaveEpoch(dir, content) ==
  [epochs |-> Append(dir.epochs, content), best |-> UpdateBest(dir, content)]

-----------------------------------------------------------------------------
(* When training ends. *)

(* The tuples of _business_metric_score compared: a metric that is missing is missing in both. *)
BusinessScoreHigher(x, y) ==
  \E n \in DOMAIN BusinessMetrics :
    /\ BusinessMetrics[n] \in EpochMetrics
    /\ Reference.value[x][BusinessMetrics[n]] > Reference.value[y][BusinessMetrics[n]]
    /\ \A m \in 1 .. n - 1 : BusinessMetrics[m] \in EpochMetrics
         => Reference.value[x][BusinessMetrics[m]] = Reference.value[y][BusinessMetrics[m]]

(* Epochs since the last one whose score beat every earlier score. *)
EpochsWithoutImprovement(epochs) ==
  LET records == {n \in DOMAIN epochs : \A m \in 1 .. n - 1 : BusinessScoreHigher(epochs[n], epochs[m])}
  IN Len(epochs) - (CHOOSE n \in records : \A m \in records : m <= n)

TrainingOver(dir) ==
  /\ dir.epochs # <<>>
  /\ \/ Len(dir.epochs) = Epochs
     \/ Patience # 0 /\ EpochsWithoutImprovement(dir.epochs) >= Patience

-----------------------------------------------------------------------------
(* The copies the training leaves, None when the file is not written. *)

FirstBest(dir, priority) ==
  LET present == {n \in DOMAIN priority : priority[n] \in DOMAIN dir.best}
  IN IF present = {} THEN None
     ELSE BestContent(dir, priority[CHOOSE n \in present : \A m \in present : n <= m])

CheckpointFile(dir) == FirstBest(dir, BusinessMetrics)

BestImageFile(dir) == FirstBest(dir, ClassificationMetrics)

BestLocalizationFile(dir) == FirstBest(dir, <<"pixel_aupimo", "pixel_ap">>)

(* train_feature_ae_with_mlflow_logging: a model is logged for each file that exists. *)
LoggedModels(dir) ==
  [model |-> CheckpointFile(dir),
   localization |-> BestLocalizationFile(dir),
   classification |-> BestImageFile(dir)]

(* resolve_specialized_candidate_checkpoints. *)
SpecializedFile(dir, role) ==
  LET special == IF role = "localization" THEN BestLocalizationFile(dir) ELSE BestImageFile(dir)
  IN IF special = None THEN CheckpointFile(dir) ELSE special

(* _classification_selection_checkpoint_candidates, before files of one content are merged. *)
SelectionFiles(dir) ==
  LET epochs == [n \in DOMAIN dir.epochs |-> [name |-> "checkpoint_epoch", content |-> dir.epochs[n]]]
      best(name, metric) ==
        IF metric \in DOMAIN dir.best THEN <<[name |-> name, content |-> BestContent(dir, metric)]>>
        ELSE <<>>
      default == IF BestImageFile(dir) = None THEN "checkpoint.pt" ELSE "checkpoint_best_image.pt"
      specialized == [name |-> default, content |-> SpecializedFile(dir, "classification")]
  IN epochs \o (IF BestImageFile(dir) = None THEN <<>> ELSE <<specialized>>)
            \o best("checkpoint_best_image_ap.pt", "image_ap")
            \o best("checkpoint_best_image_auroc.pt", "image_auroc")
            \o <<specialized>>
=============================================================================

--------------------------- MODULE GateEvaluation ---------------------------
(***************************************************************************)
(* What the lifecycle runner (scripts/run_replay_lifecycle_cycle.py)       *)
(* computes to decide a promotion: the thresholds it calibrates on a panel *)
(* of images, the decisions they give, the gates of the two roles, the     *)
(* single gate, and the choice of a classification checkpoint.             *)
(*                                                                         *)
(* A checkpoint is known by its content.  Its anomaly score of an image is *)
(* given (Score).  Thresholds are in hundredths of a score, which is what  *)
(* the 0.95 and 0.99 quantiles need to stay exact.                         *)
(*                                                                         *)
(* A panel is an evaluation manifest: its images without and with a defect *)
(* (good, defective), the metrics that can be computed on it (metrics) and *)
(* their values for a checkpoint (value[c][m]), numbers of which only the  *)
(* order and the differences matter.  The two models of a comparison are   *)
(* measured on the same panel with the same profile, so a metric is        *)
(* missing for both or for neither.                                        *)
(***************************************************************************)
EXTENDS Integers, Sequences, FiniteSets

CONSTANTS
  Checkpoints,  \* the contents a checkpoint file may have
  Images,       \* the images of the panels
  Score,        \* Score[c][i]: the score checkpoint c gives to image i
  None          \* Python's None

BusinessMetrics == <<"pixel_aupimo", "pixel_ap", "image_ap", "image_auroc">>
LocalizationMetrics == <<"pixel_aupimo", "pixel_ap", "pixel_auroc">>
ClassificationMetrics == <<"image_ap", "image_auroc">>

ASSUME ScoreAssumption == Score \in [Checkpoints -> [Images -> Nat]]
ASSUME ImagesAssumption == IsFiniteSet(Images)

IsPanel(panel) ==
  /\ panel.good \subseteq Images /\ panel.defective \subseteq Images
  /\ panel.value \in [Checkpoints -> [panel.metrics -> Int]]

-----------------------------------------------------------------------------
(* Thresholds. *)

(* The entry at index k (from 0) of the sorted scores of a set of images. *)
SortedScore(c, images, k) ==
  CHOOSE v \in {Score[c][i] : i \in images} :
    /\ Cardinality({i \in images : Score[c][i] < v}) <= k
    /\ Cardinality({i \in images : Score[c][i] <= v}) > k

(* q in hundredths, the result too. *)
InterpolatedQuantile(c, images, q) ==
  LET n == Cardinality(images)
      position == (n - 1) * q
      lower == position \div 100
      upper == IF lower + 1 < n - 1 THEN lower + 1 ELSE n - 1
      fraction == position % 100
      low == SortedScore(c, images, lower)
  IN low * 100 + (SortedScore(c, images, upper) - low) * fraction

(* thresholds_from_evaluation_scores: None when no image without defect was scored. *)
Thresholds(c, panel) ==
  IF panel.good = {} THEN None
  ELSE LET orange == InterpolatedQuantile(c, panel.good, 95)
           red == InterpolatedQuantile(c, panel.good, 99)
       IN [orange |-> orange, red |-> IF red > orange THEN red ELSE orange]

(* The thresholds evaluate_feature_ae_checkpoint is called with: 0.02 and 0.05. *)
DefaultThresholds == [orange |-> 2, red |-> 5]

Flagged(c, images, threshold) == {i \in images : Score[c][i] * 100 >= threshold}

(* compute_decision_metrics, on the calibrated thresholds when there are some.     *)
(* Recalls are compared on one panel: a recall is its numerator.                   *)
DecisionMetrics(c, panel) ==
  LET thresholds == IF Thresholds(c, panel) = None THEN DefaultThresholds ELSE Thresholds(c, panel)
      detected == Cardinality(Flagged(c, panel.defective, thresholds.orange))
  IN [recall |-> detected,
      false_negatives |-> Cardinality(panel.defective) - detected,
      good_alert_count |-> Cardinality(Flagged(c, panel.good, thresholds.orange)),
      good_red_count |-> Cardinality(Flagged(c, panel.good, thresholds.red))]

FalseNegatives(c, panel) == DecisionMetrics(c, panel).false_negatives

-----------------------------------------------------------------------------
(* Gates.  args are the options of the runner's command line. *)

SelectComparableMetric(panel, priority) ==
  LET present == {n \in DOMAIN priority : priority[n] \in panel.metrics}
  IN IF present = {} THEN None
     ELSE priority[CHOOSE n \in present : \A m \in present : n <= m]

(* The difference of the metric a pair is compared on; None without one. *)
MetricDelta(active, candidate, panel, priority) ==
  LET metric == SelectComparableMetric(panel, priority)
  IN IF metric = None THEN None ELSE panel.value[candidate][metric] - panel.value[active][metric]

Improves(delta, min_delta) == delta # None /\ delta > min_delta

ThresholdsOk(active, candidate, panel) ==
  Thresholds(active, panel) # None /\ Thresholds(candidate, panel) # None

GoodRedOk(args, active, candidate, panel) ==
  DecisionMetrics(candidate, panel).good_red_count - DecisionMetrics(active, panel).good_red_count
    <= args.max_good_red_regression

(* The objective of the correction of the Piece A/P4 drift. *)
P4Objective(args) == args.scenario = "p4_drift" /\ args.selection_manifest

LocalizationPassed(args, active, candidate, panel) ==
  \/ Improves(MetricDelta(active, candidate, panel, LocalizationMetrics),
              args.localization_min_delta)
  \/ /\ P4Objective(args)
     /\ FalseNegatives(candidate, panel) < FalseNegatives(active, panel)

LocalizationStatus(args, active, candidate, panel) ==
  IF LocalizationPassed(args, active, candidate, panel) THEN "promoted"
  ELSE IF SelectComparableMetric(panel, LocalizationMetrics) = None
       THEN "rejected_missing_comparable_metric"
  ELSE "rejected_reference_regression"

BugClassificationMetricOk(args, active, candidate, panel) ==
  FalseNegatives(candidate, panel) <= FalseNegatives(active, panel)

ClassificationMetricOk(args, active, candidate, panel) ==
  LET fn_delta == FalseNegatives(candidate, panel) - FalseNegatives(active, panel)
      recall_improved == DecisionMetrics(candidate, panel).recall
                           - DecisionMetrics(active, panel).recall > args.min_image_recall_delta
      ap_improved == /\ "image_ap" \in panel.metrics
                     /\ panel.value[candidate]["image_ap"] - panel.value[active]["image_ap"]
                          > args.min_image_ap_delta
  IN IF P4Objective(args)
     THEN fn_delta < 0 \/ (fn_delta <= 0 /\ (recall_improved \/ ap_improved))
     ELSE \/ fn_delta < 0
          \/ ~args.require_fn_improvement /\ (recall_improved \/ ap_improved)

ClassificationStatus(args, active, candidate, panel) ==
  IF ~ThresholdsOk(active, candidate, panel) THEN "rejected_missing_runtime_thresholds"
  ELSE IF ~GoodRedOk(args, active, candidate, panel) THEN "rejected_operational_guardrail"
  ELSE IF ClassificationMetricOk(args, active, candidate, panel) THEN "promoted"
  ELSE "rejected_no_classification_improvement"

(* The gate without --dual-promotion, its rejections in their order. *)
SingleStatus(args, active, candidate, panel) ==
  LET metric_ok == Improves(MetricDelta(active, candidate, panel, BusinessMetrics),
                            args.promotion_min_delta)
  IN IF SelectComparableMetric(panel, BusinessMetrics) = None
       THEN "rejected_missing_comparable_metric"
     ELSE IF FalseNegatives(candidate, panel) > FalseNegatives(active, panel)
       THEN "rejected_operational_guardrail"
     ELSE IF ~GoodRedOk(args, active, candidate, panel) THEN "rejected_operational_guardrail"
     ELSE IF ~metric_ok THEN "rejected_reference_regression"
     ELSE IF ~ThresholdsOk(active, candidate, panel) THEN "rejected_missing_runtime_thresholds"
     ELSE "promoted"

-----------------------------------------------------------------------------
(* select_classification_candidate_checkpoint. *)

(* Files are [name, content, measured], measured being the content whose metrics   *)
(* the evaluation returned; a file whose content came earlier is dropped.          *)
DistinctFiles(files) ==
  LET first == {n \in DOMAIN files : \A m \in 1 .. n - 1 : files[m].content # files[n].content}
  IN {[file |-> files[n], rank |-> n] : n \in first}

Better(a, b, panel) ==
  LET fn_a == FalseNegatives(a.file.measured, panel)
      fn_b == FalseNegatives(b.file.measured, panel)
      \* Without image_ap every file has float("-inf").
      ap(f) == IF "image_ap" \in panel.metrics THEN panel.value[f.file.measured]["image_ap"] ELSE 0
  IN \/ fn_a < fn_b
     \/ fn_a = fn_b /\ ap(a) > ap(b)
     \/ fn_a = fn_b /\ ap(a) = ap(b) /\ a.rank <= b.rank   \* max() keeps the first

(* files: the epochs in order, then the best files, the default checkpoint last. *)
SelectClassificationFile(args, files, active, panel) ==
  LET distinct == DistinctFiles(files)
      default == files[Len(files)]
      selectable == {f \in distinct : GoodRedOk(args, active, f.file.measured, panel)}
      same_path == {f \in distinct : f.file.name = default.name}
  IN IF selectable # {}
     THEN (CHOOSE f \in selectable : \A g \in selectable : Better(f, g, panel)).file
     ELSE IF same_path # {} THEN (CHOOSE f \in same_path : \A g \in same_path : f.rank <= g.rank).file
     ELSE files[1]
=============================================================================

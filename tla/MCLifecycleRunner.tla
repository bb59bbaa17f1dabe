-------------------------- MODULE MCLifecycleRunner --------------------------
(* Small instances of LifecycleRunner for TLC. *)
EXTENDS LifecycleRunner

(* Images g are good and d defective on the reference panel, h and e on the selection one. *)
MCImages == {"g1", "g2", "d1", "d2", "h1", "h2", "e1", "e2"}

(* stable misses both defects of each panel, a misses one, b none; b localizes worse than *)
(* stable and flags both good images of the selection panel (a tie).                      *)
MCScore ==
  [stable |-> [g1 |-> 1, g2 |-> 2, d1 |-> 1, d2 |-> 1, h1 |-> 1, h2 |-> 2, e1 |-> 1, e2 |-> 1],
   a      |-> [g1 |-> 1, g2 |-> 2, d1 |-> 3, d2 |-> 1, h1 |-> 1, h2 |-> 2, e1 |-> 1, e2 |-> 3],
   b      |-> [g1 |-> 1, g2 |-> 3, d1 |-> 4, d2 |-> 4, h1 |-> 2, h2 |-> 2, e1 |-> 4, e2 |-> 4]]

MCCheckpoints == DOMAIN MCScore

Values(aupimo, image_ap) == [pixel_aupimo |-> aupimo, image_ap |-> image_ap]

MCReference ==
  [good |-> {"g1", "g2"}, defective |-> {"d1", "d2"}, metrics |-> {"pixel_aupimo", "image_ap"},
   value |-> [stable |-> Values(2, 1), a |-> Values(3, 2), b |-> Values(1, 3)]]

MCSelection ==
  [good |-> {"h1", "h2"}, defective |-> {"e1", "e2"}, metrics |-> {"pixel_aupimo", "image_ap"},
   value |-> [stable |-> Values(2, 1), a |-> Values(1, 2), b |-> Values(2, 3)]]

(* Conforming (good) and defective pieces; two pieces of class "y". *)
Row(lot, good, image, class) ==
  [lot |-> lot, verdict |-> IF good THEN "conforme" ELSE "defective", image |-> image, class |-> class]

MCPlan ==
  <<Row("L1", TRUE, "p1", "x"), Row("L1", TRUE, "p2", "y"), Row("L2", FALSE, "p3", "x"),
    Row("L2", TRUE, "p4", "x")>>

(* The first anchor takes the place of its class and is held out. *)
Anchor(image, class, good, split) == [image |-> image, class |-> class, good |-> good, split |-> split]

MCAnchors ==
  <<Anchor("q1", "x", TRUE, "calibration_set_v001"), Anchor("q2", "y", FALSE, "bootstrap"),
    Anchor("q3", "x", TRUE, "bootstrap"), Anchor("q4", "y", TRUE, "bootstrap")>>

(* The defaults of parse_args, with an interval of 2 pieces. *)
Defaults ==
  [scenario |-> "natural", mode |-> "progressive-train", dual |-> TRUE, publish |-> TRUE,
   require_registry |-> FALSE, from_registry |-> FALSE, interval |-> 2, max_events |-> None,
   max_lots |-> None, max_cycles |-> None, external_drift |-> FALSE, selection_manifest |-> FALSE,
   replay_plan |-> MCPlan, drift_context |-> None, anchor_good_max_per_class |-> 1,
   max_good_red_regression |-> 0, promotion_min_delta |-> 0, localization_min_delta |-> 0,
   require_fn_improvement |-> TRUE, min_image_recall_delta |-> 0, min_image_ap_delta |-> 0]

FromRegistry == [Defaults EXCEPT !.from_registry = TRUE, !.require_registry = TRUE]

(* As the DAG iqa_drift_correction_lifecycle starts a run. *)
Correction ==
  [Defaults EXCEPT !.scenario = "p4_drift", !.external_drift = TRUE, !.selection_manifest = TRUE,
                   !.max_cycles = 1, !.drift_context = SubSeq(MCPlan, 1, 3)]

(* Nothing to train on: no piece conforms, no anchor is allowed. *)
NothingToTrainOn ==
  [Correction EXCEPT !.drift_context = SubSeq(MCPlan, 3, 3), !.interval = 1,
                     !.anchor_good_max_per_class = 0]

(* A cycle after each lot, the second one from the model the first one promoted. *)
EveryLot == [Defaults EXCEPT !.require_registry = TRUE, !.publish = FALSE, !.scenario = "drift"]

(* Runs that train nothing. *)
UntrainedOptions ==
  {NothingToTrainOn,
   [Defaults EXCEPT !.mode = "progressive-decision", !.scenario = "drift"],
   [Defaults EXCEPT !.mode = "decision-only", !.scenario = "unsupported"],
   [Defaults EXCEPT !.drift_context = <<>>]}

MCOptions ==
  UntrainedOptions \cup
  {Defaults, FromRegistry, Correction, EveryLot,
   [Defaults EXCEPT !.dual = FALSE, !.max_cycles = 1],
   [Defaults EXCEPT !.mode = "train-on-trigger", !.max_events = 3]}

CorrectionOptions == {Correction}

(* Bound: a second run reads what the first one left in the registry, the bucket or the cache *)
(* of the selection panel: it corrects after a correction, or starts from the registry after  *)
(* any run that registers models of two roles.                                                *)
SecondRunReadsTheFirst ==
  run'.number > run.number /\ run.number > 0 =>
    \/ args' = Correction /\ args = Correction
    \/ args' = FromRegistry /\ args \in {Defaults, FromRegistry, Correction, EveryLot}
=============================================================================

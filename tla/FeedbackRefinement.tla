------------------------- MODULE FeedbackRefinement -------------------------
(***************************************************************************)
(* The tables of Feedback read as a FeedbackLedger.  With one request at a *)
(* time the handlers keep the ledger's promise through every failure; two  *)
(* overlapping closings break it (ClosedOnlyOnce).                         *)
(***************************************************************************)
EXTENDS Feedback

OpenedOf(record) ==
  IF record = None THEN None
  ELSE [identity |-> record.identity, decision |-> record.decision]

JudgementOf(feedback) ==
  IF feedback = None THEN None
  ELSE [verdict |-> feedback.verdict,
        eligible_for_train |-> feedback.train_block_reason = None,
        conflict_logged |-> feedback.conflict_logged]

(* Python's None is neither an opened prediction nor a reason that blocks training. *)
ASSUME LedgerAssumption ==
  /\ None \notin [identity : Identities, decision : Decisions]
  /\ None # "oracle_gt_defective"

Ledger == INSTANCE FeedbackLedger WITH
  opened <- [p \in Predictions |-> OpenedOf(predictions[p])],
  shown <- display_feedback_events,
  judged <- [p \in Predictions |-> JudgementOf(feedback_events[p])]

(* The tables behave as the ledger: one judgement per prediction, never      *)
(* changed, with the conflict flag set exactly when a human came before.     *)
RefinesLedger == Ledger!Spec
=============================================================================

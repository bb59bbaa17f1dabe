--------------------------- MODULE FeedbackLedger ---------------------------
(***************************************************************************)
(* What docs/feedback_rules.md promises of a prediction, without handlers, *)
(* stores or failures: it is issued, it may be commented for display while *)
(* it is open, and the oracle judges it once and for all.                  *)
(***************************************************************************)
CONSTANTS Predictions, Identities, Decisions, None

VARIABLES
  opened,  \* what was predicted, or None
  shown,   \* the predictions with a human feedback
  judged   \* the oracle's judgement, or None

vars == <<opened, shown, judged>>

Judgement == [verdict : {"conforme", "defective"}, eligible_for_train : BOOLEAN,
              conflict_logged : BOOLEAN]

Init ==
  /\ opened = [p \in Predictions |-> None]
  /\ shown = {}
  /\ judged = [p \in Predictions |-> None]

IsOpen(p) == opened[p] # None /\ judged[p] = None

Open(p) ==
  /\ opened[p] = None
  /\ \E i \in Identities, d \in Decisions :
       opened' = [opened EXCEPT ![p] = [identity |-> i, decision |-> d]]
  /\ UNCHANGED <<shown, judged>>

(* Display only: nothing is closed, nothing becomes eligible. *)
Show(p) ==
  /\ IsOpen(p)
  /\ shown' = shown \cup {p}
  /\ UNCHANGED <<opened, judged>>

(* The oracle is sovereign: a defective piece is never eligible, and a human *)
(* feedback changes only the conflict flag.                                  *)
Judge(p) ==
  /\ IsOpen(p)
  /\ \E j \in Judgement :
       /\ j.verdict = "defective" => ~j.eligible_for_train
       /\ j.conflict_logged <=> p \in shown
       /\ judged' = [judged EXCEPT ![p] = j]
  /\ UNCHANGED <<opened, shown>>

Next == \E p \in Predictions : Open(p) \/ Show(p) \/ Judge(p)

Spec == Init /\ [][Next]_vars
=============================================================================

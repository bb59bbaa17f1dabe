----------------------------- MODULE MCFeedback -----------------------------
(* Small instances of Feedback for TLC. *)
EXTENDS FeedbackRefinement, TLC

(* Threads, ids and identities are interchangeable. *)
Symmetry ==
  Permutations(Threads) \cup Permutations(Predictions) \cup Permutations(Identities)
=============================================================================

------------------------- MODULE MCPredictionHistory -------------------------
(* A small instance for TLC: the handlers beside a reader, against the ledger. *)
EXTENDS PredictionHistory, FeedbackRefinement
=============================================================================

------------------------- MODULE MCDriftCorrection -------------------------
(* A small instance of DriftCorrection for TLC. *)
EXTENDS DriftCorrection

MCCycles == [correction |-> 2, manual |-> 1]

(* The run by hand is the one of the command line's defaults. *)
MCDual == [correction |-> TRUE, manual |-> FALSE]

(* One role is promoted and the other is not; two cycles give every mixture. *)
MCOutcomes ==
  {o \in [Roles -> {"promoted", "rejected"}] : o["classification"] # o["localization"]}

Whole == [stable_reference_events |-> 0, windows |-> 0, max_events |-> 0]

(* All rows, whose second window is 40 % P4; the selection of iqa_drift_piece_a_p4; a replay *)
(* cut by --max-events within its third window; one window of P4 rows; no P4 window.         *)
MCArgs ==
  {Whole,
   [stable_reference_events |-> 5, windows |-> 3, max_events |-> 0],
   [Whole EXCEPT !.max_events = 13],
   [stable_reference_events |-> 5, windows |-> 1, max_events |-> 0],
   [stable_reference_events |-> 5, windows |-> 0, max_events |-> 0]}
=============================================================================

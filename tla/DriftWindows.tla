---------------------------- MODULE DriftWindows ----------------------------
(***************************************************************************)
(* How a drift observation judges its windows: the rows it replays         *)
(* (scripts/run_drift_observation_replay.py) and the rule it applies to    *)
(* each window (scripts/run_monitoring.py, configs/monitoring_thresholds). *)
(*                                                                         *)
(* The replayed rows are stable Piece B rows followed by P4 rows, so a     *)
(* selection is a pair of counts, and a window is [events, p4, degraded,   *)
(* novel]: how many of its events are P4, whether a degradation rate is    *)
(* critical, and whether the share of ROI masks far from the reference is. *)
(* A share of 80 % of masks at the critical distance puts their median     *)
(* there too, so novelty implies the reference signal the rule also asks.  *)
(* The scores the rule also computes decide nothing.                       *)
(***************************************************************************)
EXTENDS Integers, FiniteSets, Sequences

CONSTANTS
  StableRows, P4Rows,   \* how many rows of each kind the scenario has
  WindowSize,           \* --window-size
  MinWindowEvents,      \* min_window_events
  ConfirmWindows        \* confirm_windows

ASSUME WindowsAssumption ==
  /\ {StableRows, P4Rows, MinWindowEvents} \subseteq Nat
  /\ WindowSize \in Nat \ {0} /\ ConfirmWindows \in Nat \ {0}

Least(a, b) == IF a <= b THEN a ELSE b

(* round(window_size * 0.20), at least one: the product is never halfway. *)
MixedP4 == LET n == (2 * WindowSize + 5) \div 10 IN IF n = 0 THEN 1 ELSE n

(* _select_observation_rows.  The mixed window takes the stable rows that follow the reference. *)
Selected(a) ==
  LET reference == Least(a.stable_reference_events, StableRows)
      mixed == Least(WindowSize - MixedP4, StableRows - reference)
      rest == Least(WindowSize * (a.windows - 1), P4Rows - Least(MixedP4, P4Rows))
  IN CASE a.stable_reference_events = 0 /\ a.windows = 0 -> [stable |-> StableRows, p4 |-> P4Rows]
       [] a.stable_reference_events # 0 /\ a.windows = 0 -> [stable |-> reference, p4 |-> P4Rows]
       [] a.windows >= 2 -> [stable |-> reference + mixed, p4 |-> Least(MixedP4, P4Rows) + rest]
       [] OTHER -> [stable |-> reference, p4 |-> Least(a.windows * WindowSize, P4Rows)]

(* run_observation stops at --max-events. *)
Replayed(a) ==
  LET rows == Selected(a)
      total == IF a.max_events = 0 THEN rows.stable + rows.p4
               ELSE Least(a.max_events, rows.stable + rows.p4)
  IN [stable |-> Least(rows.stable, total), total |-> total]

(* A short observation without P4 row raises ValueError. *)
SelectionFails(a) == a.stable_reference_events + a.windows > 0 /\ Selected(a).p4 = 0

(* The k-th window of a replay, and how many of its events are P4. *)
EventsOf(rows, k) == Least(WindowSize, rows.total - (k - 1) * WindowSize)

P4Of(rows, k) ==
  LET stable == rows.stable - (k - 1) * WindowSize
  IN EventsOf(rows, k) - (IF stable <= 0 THEN 0 ELSE Least(stable, EventsOf(rows, k)))

-----------------------------------------------------------------------------
Share(w, percent) == 100 * w.p4 >= percent * w.events

RoiCritical(w) == w.events >= MinWindowEvents /\ w.p4 >= w.events /\ w.novel

LegacyCritical(w) == w.events >= MinWindowEvents /\ Share(w, 40) /\ w.degraded

(* evaluate_drift_metrics, given the critical windows in a row so far and whether drift was *)
(* confirmed already.                                                                       *)
Evaluated(w, count, confirmed) ==
  LET next == IF RoiCritical(w) \/ LegacyCritical(w) THEN count + 1 ELSE 0
  IN [count |-> next,
      suspected |-> w.events >= MinWindowEvents /\ (w.novel \/ Share(w, 40)),
      confirmed |-> \/ confirmed \/ RoiCritical(w)
                    \/ LegacyCritical(w) /\ next >= ConfirmWindows]

BugJudged(w, count, confirmed) == Evaluated(w, count, confirmed)

(* _finalize_window: fewer than 80 % of P4 events never confirm. *)
Judged(w, count, confirmed) ==
  LET eval == Evaluated(w, count, confirmed)
  IN IF ~Share(w, 80) /\ ~confirmed THEN [eval EXCEPT !.count = 0, !.confirmed = FALSE] ELSE eval

DriftStatus(eval) ==
  IF eval.confirmed THEN "confirmed" ELSE IF eval.suspected THEN "suspected" ELSE "clear"
=============================================================================

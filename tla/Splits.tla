------------------------------- MODULE Splits -------------------------------
(***************************************************************************)
(* How the dataset scripts choose rows, over a fixed source manifest       *)
(* (data/metadata/casting_piece_events.csv).                               *)
(*                                                                         *)
(* A piece event is a number, in the order of (source_timestamp,           *)
(* event_id), the key every script sorts by.  A row is <<piece, view>>:    *)
(* view 0 is a row for the whole event, 1 to 3 one row per view.           *)
(* What a script only copies (keys, paths, dates) is left out.             *)
(***************************************************************************)
EXTENDS Integers, FiniteSets, Sequences, SequencesExt

CONSTANTS
  Pieces,        \* the piece events: 1..n
  ClassOf,       \* piece -> source_class
  KindOf,        \* piece -> "piece_b" (three views), "p4" (the 2_3 view only), or "other"
  ImagesOf,      \* piece -> n_images
  GroupOf,       \* piece -> group_key: several events of one casting share it
  SplitOf        \* piece -> split_set

ASSUME SplitsAssumption ==
  /\ IsFiniteSet(Pieces) /\ Pieces = 1..Cardinality(Pieces)
  /\ DOMAIN ClassOf = Pieces /\ DOMAIN GroupOf = Pieces
  /\ KindOf \in [Pieces -> {"piece_b", "p4", "other"}] /\ ImagesOf \in [Pieces -> Nat]
  /\ \A p \in Pieces : /\ KindOf[p] = "piece_b" => ImagesOf[p] = 3
                       /\ KindOf[p] = "p4" => ImagesOf[p] = 1
  /\ SplitOf \in [Pieces -> {"train", "test"}]

Classes == {ClassOf[p] : p \in Pieces}
Rows == Pieces \X (0..3)
Piece(row) == row[1]
View(row) == row[2]
Ids(rows) == {Piece(row) : row \in ToSet(rows)}

Smaller(a, b) == IF a <= b THEN a ELSE b
First(rows, n) == SubSeq(rows, 1, Smaller(n, Len(rows)))
Between(rows, a, b) == SubSeq(rows, a, Smaller(b, Len(rows)))

(* Python's round(a / b): halves go to the even neighbour. *)
Round(a, b) ==
  LET q == a \div b  r == a % b
  IN IF 2 * r < b \/ (2 * r = b /\ q % 2 = 0) THEN q ELSE q + 1

(* Python's sorted: the elements of S by increasing key; no two have the same.  (SubSeq takes all   *)
(* of the sequence, so that TLC computes it once.)                                                  *)
Ordered(S, key) ==
  LET keyed == {<<key[x], x>> : x \in S}
      placed == {<<Cardinality({f \in keyed : f[1] <= e[1]}), e[2]>> : e \in keyed}
  IN SubSeq([k \in 1..Cardinality(S) |-> (CHOOSE e \in placed : e[1] = k)[2]], 1, Cardinality(S))

Sorted(S) == Ordered(S, [x \in S |-> x])
InOrder(S) == Ordered(S, [row \in S |-> 4 * Piece(row) + View(row)])

(* A list comprehension with a condition: the rows at the places kept, in their order. *)
Keep(rows, kept) ==
  LET at == Sorted(kept) IN SubSeq([i \in DOMAIN at |-> rows[at[i]]], 1, Len(at))

PieceRows(S) == LET ps == Sorted(S) IN [i \in DOMAIN ps |-> <<ps[i], 0>>]

-----------------------------------------------------------------------------
(* scripts/build_replay_holdout_split.py *)

(* spread_select *)
Spread(rows, target) ==
  LET n == Len(rows)
  IN CASE target >= n -> rows
       [] target < n /\ target <= 0 -> <<>>
       [] target < n /\ target = 1 -> <<rows[(n \div 2) + 1]>>
       [] target < n /\ target > 1 ->
            [i \in 1..target |-> rows[Round((i - 1) * (n - 1), target - 1) + 1]]

OfClass(rows, c, bad, wanted) ==
  Keep(rows, {i \in DOMAIN rows :
                ClassOf[Piece(rows[i])] = c /\ (Piece(rows[i]) \in bad <=> wanted)})

Goods(rows, bad) == Keep(rows, {i \in DOMAIN rows : Piece(rows[i]) \notin bad})

GoodCount(rows, c, bad) ==
  Cardinality({i \in DOMAIN rows : ClassOf[Piece(rows[i])] = c /\ Piece(rows[i]) \notin bad})

GoodTotal(rows, bad) == Cardinality({i \in DOMAIN rows : Piece(rows[i]) \notin bad})

(* The place of the class in the counter: that of its first good row. *)
Seen(rows, c, bad) ==
  SelectInSeq(rows, LAMBDA row : ClassOf[Piece(row)] = c /\ Piece(row) \notin bad)

BugTargets(rows, bad, total) ==
  LET observed == GoodTotal(rows, bad)
  IN [c \in {d \in Classes : GoodCount(rows, d, bad) > 0} |->
        (total * GoodCount(rows, c, bad)) \div observed]

(* good_targets, target_good_counts: the integer part of each class's share, and one more for *)
(* the largest remainders; equal ones in the order the classes were first seen.  The script    *)
(* compares the remainders as floats, whose last bit may order two equal ones otherwise: the   *)
(* properties hold of either order.                                                            *)
Targets(rows, bad, total) ==
  LET observed == GoodTotal(rows, bad)
      classes == {c \in Classes : GoodCount(rows, c, bad) > 0}
      Whole(c) == (total * GoodCount(rows, c, bad)) \div observed
      Rest(c) == (total * GoodCount(rows, c, bad)) % observed
      left == total - Cardinality(UNION {{c} \X (1..Whole(c)) : c \in classes})
      Ahead(c) == {d \in classes : \/ Rest(d) > Rest(c)
                                   \/ Rest(d) = Rest(c) /\ Seen(rows, d, bad) < Seen(rows, c, bad)}
  IN [c \in classes |-> Whole(c) + (IF Cardinality(Ahead(c)) < left THEN 1 ELSE 0)]

(* select_holdout_rows; the panel has a row once, and its order is left out. *)
Holdout(rows, bad, defectTargets, total) ==
  LET targets == Targets(rows, bad, total)
      Part(c, wanted, target) == ToSet(Spread(OfClass(rows, c, bad, wanted), target))
  IN InOrder((UNION {Part(c, TRUE, defectTargets[c]) : c \in DOMAIN defectTargets})
             \cup (UNION {Part(c, FALSE, targets[c]) : c \in DOMAIN targets}))

BugTrainRows(rows, holdout) ==
  Keep(rows, {i \in DOMAIN rows : rows[i] \notin ToSet(holdout)})

(* build_split: no row of an event of which any row is held out. *)
TrainRows(rows, holdout) ==
  Keep(rows, {i \in DOMAIN rows : Piece(rows[i]) \notin Ids(holdout)})

-----------------------------------------------------------------------------
(* scripts/build_validation_gate_v2.py *)

(* select_good_rows: events of several images first. *)
GateGoods(replay, bad, excluded, total) ==
  LET targets == Targets(replay, bad, total)
      Single(p) == ImagesOf[p] = 1
      Candidates(c, single) ==
        Sorted({p \in Pieces \ (bad \cup excluded) : ClassOf[p] = c /\ Single(p) = single})
  IN UNION {ToSet(First(Candidates(c, FALSE) \o Candidates(c, TRUE), targets[c])) : c \in DOMAIN targets}

(* select_defect_rows: every defective event of a (class, group) of a reserved defect. *)
GateDefects(bad, reserve) ==
  LET keys == {<<ClassOf[p], GroupOf[p]>> : p \in reserve \cap bad}
  IN {p \in bad : <<ClassOf[p], GroupOf[p]>> \in keys}

-----------------------------------------------------------------------------
(* scripts/prepare_piece_b_minimal_scenario.py and prepare_piece_b_full_scenario.py *)

(* piece_b_rows *)
PieceB == {p \in Pieces : KindOf[p] = "piece_b"}

(* select_rows: the first count matching events not used yet; fewer raise RuntimeError. *)
Earliest(S, count) == ToSet(First(Sorted(S), count))

(* main: bootstrap, then validation, then replay, from the events that are left. *)
Minimal(bad, n) ==
  LET boot == Earliest({p \in PieceB \ bad : SplitOf[p] = "train"}, n.boot)
      validGood == Earliest({p \in PieceB \ (bad \cup boot) : SplitOf[p] = "test"}, n.valid)
      validBad == Earliest({p \in PieceB \cap bad : SplitOf[p] = "test"}, n.valid)
      used == boot \cup validGood \cup validBad
      good == Earliest(PieceB \ (bad \cup used), n.good)
      rejected == Earliest((PieceB \cap bad) \ used, n.bad)
  IN [boot |-> boot, valid |-> validGood \cup validBad, replay |-> good \cup rejected,
      enough |-> /\ Cardinality(boot) = n.boot /\ Cardinality(validGood) = n.valid
                 /\ Cardinality(validBad) = n.valid /\ Cardinality(good) = n.good
                 /\ Cardinality(rejected) = n.bad]

(* build_replay of the full scenario: the three views of each event, one row each. *)
FullReplay ==
  LET events == Sorted(PieceB)
  IN [i \in 1..(3 * Len(events)) |-> <<events[((i - 1) \div 3) + 1], ((i - 1) % 3) + 1>>]

FullValidation == {p \in PieceB : SplitOf[p] = "test"}

-----------------------------------------------------------------------------
(* scripts/prepare_piece_b_to_piece_a_p4_drift_scenario.py *)

Bucket(rows, v) == Keep(rows, {i \in DOMAIN rows : View(rows[i]) = v})

(* _balanced_piece_b_baseline_rows: good rows, one view after the other in turn, cut to whole *)
(* windows.                                                                                   *)
Baseline(rows, bad, window) ==
  LET good == Goods(rows, bad)
      set == ToSet(good)
      Turn(row) == Cardinality({s \in set : View(s) = View(row) /\ Piece(s) <= Piece(row)})
      balanced == Ordered(set, [row \in set |-> 4 * Turn(row) + View(row)])
  IN First(balanced, (Len(balanced) \div window) * window)

(* _p4_source_rows, _p4_source_rows_to_replay_rows: one image, hence one row, per event. *)
P4Source == PieceRows({p \in Pieces : KindOf[p] = "p4"})

BugOrderedP4(rows, bad, suspected, critical) ==
  LET good == Goods(rows, bad)
      defects == Keep(rows, {i \in DOMAIN rows : Piece(rows[i]) \in bad})
      repeated == [i \in 1..(2 * critical) |-> defects[((i - 1) % Len(defects)) + 1]]
  IN IF defects = <<>> THEN rows ELSE repeated \o good

(* _ordered_p4_rows_for_drift_detection: the defects, repeated, open both drift blocks. *)
OrderedP4(rows, bad, suspected, critical) ==
  LET good == Goods(rows, bad)
      defects == Keep(rows, {i \in DOMAIN rows : Piece(rows[i]) \in bad})
      Repeated(i) == defects[((i - 1) % Len(defects)) + 1]
      goods == IF suspected > critical THEN suspected - critical ELSE 0
  IN IF defects = <<>> THEN rows
     ELSE [i \in 1..critical |-> Repeated(i)] \o First(good, goods)
          \o [i \in 1..critical |-> Repeated(critical + i)] \o Between(good, goods + 1, 2 * goods)
          \o Between(good, 2 * goods + 1, Len(good))

(* _phase_for_drift_index, from 0. *)
DriftPhase(index, total, suspected, correction) ==
  LET start == IF total - correction > suspected THEN total - correction ELSE suspected
  IN IF index < suspected THEN "suspected" ELSE IF index >= start THEN "correction" ELSE "confirmed"

(* build_plan, _rewrite_rows: the rows with their phases. *)
DriftPlan(fullRows, bad, a) ==
  LET stable == Baseline(fullRows, bad, a.window)
      p4 == OrderedP4(P4Source, bad, a.suspected, a.critical)
  IN [i \in 1..Len(stable) |-> [row |-> stable[i], phase |-> "stable"]]
     \o [i \in 1..Len(p4) |->
           [row |-> p4[i], phase |-> DriftPhase(i - 1, Len(p4), a.suspected, a.correction)]]

RowsOf(plan, phases) ==
  LET part == Keep(plan, {i \in DOMAIN plan : plan[i].phase \in phases})
  IN [i \in DOMAIN part |-> part[i].row]

DriftPhases == {"suspected", "confirmed", "correction"}

(* write_classification_selection_manifest *)
SelectionRows(plan) == RowsOf(plan, {"suspected", "confirmed"})

-----------------------------------------------------------------------------
(* scripts/run_drift_observation_replay.py *)

(* _write_balanced_context_manifests, after the first n P4 rows were observed: the anchors the  *)
(* correction trains on beside the P4 rows, and the panel that judges it.  It takes the good    *)
(* rows of each view from the start, and the panel from where they stop in ALL rows of it.      *)
Anchors(plan, bad, n) ==
  LET good == Goods(RowsOf(plan, {"stable"}), bad)
      count == Len(Goods(First(RowsOf(plan, DriftPhases), n), bad))
  IN First(Bucket(good, 1), count) \o First(Bucket(good, 2), count) \o First(Bucket(good, 3), count)

EvalStable(plan, bad, n) ==
  LET stable == RowsOf(plan, {"stable"})
      context == First(RowsOf(plan, DriftPhases), n)
      Used(v) == Len(First(Bucket(Goods(stable, bad), v), Len(Goods(context, bad))))
      Part(v) == Between(Bucket(stable, v), Used(v) + 1, Used(v) + Len(context))
  IN Part(1) \o Part(2) \o Part(3)
=============================================================================

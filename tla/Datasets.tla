------------------------------ MODULE Datasets ------------------------------
(***************************************************************************)
(* The dataset scripts as an operator runs them: by hand, in any order,    *)
(* again with other arguments, and sometimes killed between two files or   *)
(* half way through one.  Each reads the manifests it needs, computes      *)
(* everything in memory, then writes its files one after the other; a      *)
(* later script reads what an earlier one left, cut or not.  What each     *)
(* computes is in Splits.                                                  *)
(*                                                                         *)
(* The source manifest, its labels (bad), the natural replay and the       *)
(* reserves of earlier phases do not change.                               *)
(***************************************************************************)
EXTENDS Splits

CONSTANTS
  None,
  Torn,            \* a file some rows of which a kill cut off, or that was made from such a file
  Labels,          \* the sets of events that may be the defective ones
  Natural,         \* the events of the natural replay
  Reserves,        \* [boot, calib, repr, gate1]: the events of the earlier manifests
  DefectTargets,   \* class -> HOLDOUT_DEFECT_TARGETS
  Totals,          \* the values of --good-total
  MinimalCounts,   \* [boot, valid, good, bad]: the counts of the minimal scenario
  PlanArgs,        \* [window, suspected, critical, correction]: the drift plan's command lines
  Observed,        \* how many P4 rows an observation sees
  MaxBuilds        \* bound: how many scripts are started

ASSUME DatasetsAssumption ==
  /\ \A bad \in Labels : bad \subseteq Pieces
  /\ Natural \subseteq Pieces
  /\ \A c \in DOMAIN DefectTargets : DefectTargets[c] \in Nat
  /\ Totals \subseteq Nat /\ Observed \subseteq Nat
  /\ MinimalCounts \in [boot : Nat, valid : Nat, good : Nat, bad : Nat]
  /\ PlanArgs \subseteq [window : Nat \ {0}, suspected : Nat, critical : Nat, correction : Nat]
  /\ MaxBuilds \in Nat

VARIABLES
  bad,        \* the defective events
  files,      \* the manifests on disk
  catalogue,  \* the scenarios of replay_scenarios.csv, in its order
  job,        \* the running script: its name, arguments (None: of a torn input) and the writes left
  made,       \* the arguments a script's files were last completely written with, from whole inputs
  builds      \* how many scripts were started

vars == <<bad, files, catalogue, job, made, builds>>

Files == {"train", "gate", "gate_v2", "min_boot", "min_valid", "min_replay", "full_valid", "full_masks",
          "full", "plan", "selection", "context", "anchors", "eval"}

Scripts == {"split", "gate_v2", "minimal", "full", "plan", "observe"}

Cataloguing == {"minimal", "full"}   \* the scripts that end with upsert_scenario

Init ==
  /\ bad \in Labels
  /\ files = [f \in Files |-> None]
  /\ catalogue = <<"others", "minimal", "full">>
  /\ job = None
  /\ made = [s \in Scripts |-> None]
  /\ builds = 0

(* A script has read its inputs and is about to write. *)
Begin(script, args, writes) ==
  /\ job = None /\ builds < MaxBuilds
  /\ job' = [script |-> script, args |-> args, writes |-> writes]
  /\ made' = [made EXCEPT ![script] = None]
  /\ builds' = builds + 1
  /\ UNCHANGED <<bad, files, catalogue>>

(* The replay a split is made of: --replay, by default the natural one. *)
Source(name) == IF name = "natural" THEN PieceRows(Natural) ELSE files.full

BuildSplit(source, total) ==
  LET rows == Source(source)
      panel == Holdout(rows, bad, DefectTargets, total)
  IN /\ rows \notin {None, Torn}
     /\ Begin("split", [source |-> source, total |-> total],
              <<[file |-> "train", rows |-> TrainRows(rows, panel)], [file |-> "gate", rows |-> panel]>>)

BuildGateV2(total) ==
  LET excluded == Natural \cup Reserves.boot \cup Reserves.calib \cup Reserves.repr
      panel == GateDefects(bad, Reserves.repr \cup Reserves.gate1)
               \cup GateGoods(PieceRows(Natural), bad, excluded, total)
  IN Begin("gate_v2", total, <<[file |-> "gate_v2", rows |-> PieceRows(panel)]>>)

(* RuntimeError leaves the files as they are. *)
PrepareMinimal ==
  LET split == Minimal(bad, MinimalCounts)
  IN /\ split.enough
     /\ Begin("minimal", MinimalCounts,
              <<[file |-> "min_boot", rows |-> PieceRows(split.boot)],
                [file |-> "min_valid", rows |-> PieceRows(split.valid)],
                [file |-> "min_replay", rows |-> PieceRows(split.replay)]>>)

PrepareFull ==
  Begin("full", "full", <<[file |-> "full_valid", rows |-> PieceRows(FullValidation)],
                          [file |-> "full_masks", rows |-> <<>>],
                          [file |-> "full", rows |-> FullReplay]>>)

(* ValueError: no baseline row, no P4 row, an empty selection. *)
PreparePlan(a) ==
  LET plan == DriftPlan(files.full, bad, a)
      selection == SelectionRows(plan)
  IN /\ files.full \notin {None, Torn}
     /\ RowsOf(plan, {"stable"}) # <<>> /\ RowsOf(plan, DriftPhases) # <<>>
     /\ Begin("plan", a, <<[file |-> "plan", rows |-> plan]>>
                         \o (IF selection = <<>> THEN <<>>
                             ELSE <<[file |-> "selection", rows |-> selection]>>))

Observe(n) ==
  LET context == First(RowsOf(files.plan, DriftPhases), n)
  IN /\ files.plan \notin {None, Torn}
     /\ Begin("observe", n,
              <<[file |-> "context", rows |-> context],
                [file |-> "anchors", rows |-> Anchors(files.plan, bad, n)],
                [file |-> "eval", rows |-> context \o EvalStable(files.plan, bad, n)]>>)

(* A script that reads a torn file and finds rows in it goes on as with a whole one.  What it  *)
(* makes of them is not known.                                                                 *)
BuildFromTorn(script, outputs) ==
  /\ \/ script \in {"split", "plan"} /\ files.full = Torn
     \/ script = "observe" /\ files.plan = Torn
  /\ Begin(script, None, [i \in DOMAIN outputs |-> [file |-> outputs[i], rows |-> Torn]])

Outputs ==
  [split |-> {<<"train", "gate">>}, plan |-> {<<"plan">>, <<"plan", "selection">>},
   observe |-> {<<"context", "anchors", "eval">>}]

Ends == job' = None /\ made' = [made EXCEPT ![job.script] = job.args]

Write ==
  /\ job # None /\ job.writes # <<>>
  /\ files' = [files EXCEPT ![Head(job.writes).file] = Head(job.writes).rows]
  /\ IF Tail(job.writes) = <<>> /\ job.script \notin Cataloguing
     THEN Ends
     ELSE job' = [job EXCEPT !.writes = Tail(@)] /\ UNCHANGED made
  /\ UNCHANGED <<bad, catalogue, builds>>

(* upsert_scenario *)
Upserted == Append(SelectSeq(catalogue, LAMBDA id : id # job.script), job.script)

UpsertScenario ==
  /\ job # None /\ job.writes = <<>>
  /\ catalogue' = Upserted
  /\ Ends
  /\ UNCHANGED <<bad, files, builds>>

(* A file is truncated when it is opened and filled row by row: a kill leaves some of its rows.   *)
(* The catalogue is rewritten like any other file.                                                *)
Kill ==
  /\ job # None
  /\ job' = None
  /\ \/ UNCHANGED <<files, catalogue>>
     \/ job.writes # <<>> /\ files' = [files EXCEPT ![Head(job.writes).file] = Torn] /\ UNCHANGED catalogue
     \/ job.writes = <<>> /\ UNCHANGED files
        /\ \E n \in 0..Len(Upserted) : catalogue' = SubSeq(Upserted, 1, n)
  /\ UNCHANGED <<bad, made, builds>>

Next ==
  \/ \E source \in {"natural", "full"}, total \in Totals : BuildSplit(source, total)
  \/ \E total \in Totals : BuildGateV2(total)
  \/ PrepareMinimal
  \/ PrepareFull
  \/ \E a \in PlanArgs : PreparePlan(a)
  \/ \E n \in Observed : Observe(n)
  \/ \E script \in DOMAIN Outputs : \E outputs \in Outputs[script] : BuildFromTorn(script, outputs)
  \/ Write
  \/ UpsertScenario
  \/ Kill

Spec == Init /\ [][Next]_vars

-----------------------------------------------------------------------------
Apart(f, g) == Ids(files[f]) \cap Ids(files[g]) = {}

(* What a script wrote to judge is apart from what it wrote to train on: the replay left to   *)
(* train on and the panel held out of it share no source event, even one replayed as several  *)
(* rows, and together are the whole replay; the good pieces of gate v2 were never replayed,   *)
(* bootstrapped or calibrated on; the three minimal sets are apart; and the Piece B pieces    *)
(* that anchor a correction are not on the panel that judges it, which rests on how the plan  *)
(* it observed was balanced.  The P4 pieces of a correction do both: every P4 row that was    *)
(* observed is in the manifest it trains on and on the panel that judges it.  A script that a *)
(* kill stopped, or that read a torn file, promises nothing: its files may be of two builds.  *)
PanelsHeldOut ==
  /\ made.split # None =>
       /\ Apart("train", "gate")
       /\ Ids(files.train) \cup Ids(files.gate) =
            IF made.split.source = "natural" THEN Natural ELSE PieceB
  /\ made.gate_v2 # None =>
       (Ids(files.gate_v2) \ bad) \cap
         (Natural \cup Reserves.boot \cup Reserves.calib \cup Reserves.repr) = {}
  /\ made.minimal # None =>
       Apart("min_boot", "min_valid") /\ Apart("min_boot", "min_replay") /\ Apart("min_valid", "min_replay")
  /\ made.observe # None =>
       {p \in Ids(files.anchors) : KindOf[p] = "piece_b"} \cap Ids(files.eval) = {}

(* The holdout panel stands for the production it was taken from: it has as many good rows as *)
(* asked, each class within one row of its exact share, and the panel of a class reaches from *)
(* its first row to its last.                                                                  *)
PanelIsRepresentative ==
  made.split # None =>
    LET source == IF made.split.source = "natural" THEN PieceRows(Natural) ELSE FullReplay
        total == made.split.total
        observed == GoodTotal(source, bad)
    IN (observed > 0 /\ total <= observed) =>
         /\ GoodTotal(files.gate, bad) = total
         /\ \A c \in Classes :
              LET rows == OfClass(source, c, bad, FALSE)
                  panel == GoodCount(files.gate, c, bad)
                  gap == panel * observed - total * Len(rows)
              IN /\ gap < observed /\ -gap < observed
                 /\ panel > 1 => {rows[1], rows[Len(rows)]} \subseteq ToSet(files.gate)

Defects(rows) == Cardinality({i \in DOMAIN rows : Piece(rows[i]) \in bad})

(* The drift plan carries its signal in whole windows: the baseline is made of whole windows  *)
(* without a defect, every good P4 piece comes once, and when the blocks are as long as a     *)
(* window and there are good pieces to fill both, each of the first two P4 windows has the    *)
(* defects that make it critical.  _balanced_piece_b_baseline_rows says the same ("P4 starts  *)
(* on a clean boundary"); the docstring of _ordered_p4_rows_for_drift_detection, of a baseline *)
(* of 372 events whose last 12 fall in the first drift window, is of an earlier baseline.     *)
PlanCarriesDrift ==
  made.plan # None =>
    LET a == made.plan
        stable == RowsOf(files.plan, {"stable"})
        p4 == RowsOf(files.plan, DriftPhases)
        good == Goods(P4Source, bad)
    IN /\ Len(stable) % a.window = 0 /\ Defects(stable) = 0
       /\ \A i \in DOMAIN good : Cardinality({j \in DOMAIN p4 : p4[j] = good[i]}) = 1
       /\ (/\ a.suspected = a.window /\ a.critical <= a.window
           /\ Len(good) >= 2 * (a.window - a.critical) /\ Len(good) < Len(P4Source))
          => /\ Defects(First(p4, a.window)) >= a.critical
             /\ Defects(Between(p4, a.window + 1, 2 * a.window)) >= a.critical
=============================================================================

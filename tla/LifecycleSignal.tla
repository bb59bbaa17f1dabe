--------------------------- MODULE LifecycleSignal ---------------------------
(***************************************************************************)
(* The collector of lifecycle signals (iqa/monitoring/lifecycle_signals.py *)
(* and the rule of monitoring/lifecycle.py) and the branch of the Airflow  *)
(* DAG iqa_lifecycle_trigger that runs it every hour and launches          *)
(* iqa_lifecycle on a positive decision.                                   *)
(*                                                                         *)
(* The collector reads four tables in separate transactions, one of them   *)
(* once per prediction, and then journals its decision; the API and the    *)
(* drift observer write those tables meanwhile.  max_active_runs = 1 gives *)
(* one collector.  Its container, the gate or the launch may fail at any   *)
(* step; the DAG sets no retries, so the run ends and the next hour polls  *)
(* again.                                                                  *)
(*                                                                         *)
(* One scenario is modelled: every read filters on its scenario_id.  A     *)
(* prediction and a drift observation are named by their rank in the order *)
(* of created_at.  Left out: roi_fail_rate (no rule reads it), the         *)
(* watermark and the trace fields of the event (nothing reads them back).  *)
(***************************************************************************)
EXTENDS Naturals, Sequences, FiniteSets

CONSTANTS
  MaxPredictions,  \* bound: the predictions of the scenario
  MaxDrifts,       \* bound: its drift observations
  Kinds,           \* the kinds of scenario to consider
  MinNatural,      \* min_natural_conforming
  RoiWindow,       \* roi_window_size
  MaxFailures,     \* bound: how many polling runs may fail
  MaxOverwrites,   \* bound: how often a closed feedback is written again
  None             \* Python's None

ASSUME BoundsAssumption ==
  MaxPredictions \in Nat /\ MaxDrifts \in Nat /\ MaxFailures \in Nat
  /\ MaxOverwrites \in Nat
ASSUME KindsAssumption == Kinds \subseteq {"natural", "drift_correction"}
ASSUME MinNaturalAssumption == MinNatural \in Nat \ {0}
ASSUME RoiWindowAssumption == RoiWindow \in Nat \ {0}
ASSUME NoneAssumption == None \notin Nat

VARIABLES
  kind,             \* which set of scenario ids holds the scenario
  predictions,      \* table predictions: its rows, as their number
  feedback_events,  \* table feedback_events
  drift_events,     \* table scenario_version_events: what each row says of the drift
  journal,          \* table lifecycle_trigger_events
  poll,             \* the polling run of the DAG
  launches,         \* history: how many launches used each prediction
  drift_launches,   \* history: how many used each drift observation
  was_eligible,     \* history: the pieces eligible at some moment of the last poll
  failures,         \* the polling runs that failed so far
  overwrites        \* the feedback rows written again so far

tables == <<predictions, feedback_events, drift_events>>
history == <<launches, drift_launches>>
bounds == <<failures, overwrites>>
vars == <<kind, tables, journal, poll, history, was_eligible, bounds>>

-----------------------------------------------------------------------------
Predictions == 1 .. MaxPredictions
Drifts == 1 .. MaxDrifts

Verdicts == {"none", "eligible", "ineligible"}
Observations == {"confirmed", "unconfirmed"}

(* The dictionary whose hash is the id of an event, and the event. *)
Fingerprint ==
  [candidates : SUBSET Predictions, drift : Drifts \cup {None}, drift_consumed : BOOLEAN,
   window : SUBSET Predictions, trigger_lifecycle : BOOLEAN]
TriggerEvent ==
  [id : Fingerprint, trigger_lifecycle : BOOLEAN,
   consumed_predictions : SUBSET Predictions, consumed_drifts : SUBSET Drifts]

Steps == {"idle", "read_journal", "read_feedback", "record", "gate"}

(* The local variables of collect_and_record_lifecycle_signal. *)
Poll ==
  [step : Steps,
   predictions : 0 .. MaxPredictions,     \* the rows list_predictions returned
   todo : SUBSET Predictions,             \* those whose feedback is still to be read
   candidates : SUBSET Predictions,
   consumed_drifts : SUBSET Drifts,
   drift : Drifts \cup {None},
   observation : Observations \cup {None},
   decision : TriggerEvent \cup {None}]

Idle == [step |-> "idle", predictions |-> 0, todo |-> {}, candidates |-> {},
         consumed_drifts |-> {}, drift |-> None, observation |-> None, decision |-> None]

Init ==
  /\ kind \in Kinds
  /\ predictions = 0
  /\ feedback_events = [p \in Predictions |-> "none"]
  /\ drift_events = <<>>
  /\ journal = {}
  /\ poll = Idle
  /\ launches = [p \in Predictions |-> 0]
  /\ drift_launches = [d \in Drifts |-> 0]
  /\ was_eligible = {}
  /\ failures = 0 /\ overwrites = 0

-----------------------------------------------------------------------------
(* The writers of the tables: the API (module Feedback) and whoever records  *)
(* drift observations.                                                       *)

SavePrediction ==
  /\ predictions < MaxPredictions
  /\ predictions' = predictions + 1
  /\ UNCHANGED <<kind, feedback_events, drift_events, journal, poll, history, was_eligible, bounds>>

(* 1 when the row is there already, which only handlers that overlapped its *)
(* closing write again (module Feedback): finitely many.                    *)
Rewrites(p) == IF feedback_events[p] = "none" THEN 0 ELSE 1

(* save_feedback_and_close_prediction: an upsert of the verdict and its eligibility. *)
SaveFeedback ==
  \E p \in 1 .. predictions, v \in Verdicts \ {"none"} :
    /\ overwrites + Rewrites(p) <= MaxOverwrites
    /\ overwrites' = overwrites + Rewrites(p)
    /\ feedback_events' = [feedback_events EXCEPT ![p] = v]
    /\ was_eligible' = IF v = "eligible" THEN was_eligible \cup {p} ELSE was_eligible
    /\ UNCHANGED <<kind, predictions, drift_events, journal, poll, history, failures>>

(* save_scenario_version_event: an upsert that keeps the row's created_at. *)
SaveDrift ==
  \E o \in Observations :
    /\ \/ /\ Len(drift_events) < MaxDrifts
          /\ drift_events' = Append(drift_events, o)
       \/ \E d \in DOMAIN drift_events : drift_events' = [drift_events EXCEPT ![d] = o]
    /\ UNCHANGED <<kind, predictions, feedback_events, journal, poll, history, was_eligible, bounds>>

-----------------------------------------------------------------------------
(* One polling run. *)

At(step) == poll.step = step

ListPredictions ==
  /\ At("idle")
  /\ poll' = [Idle EXCEPT !.step = "read_journal", !.predictions = predictions]
  /\ was_eligible' = {p \in Predictions : feedback_events[p] = "eligible"}
  /\ UNCHANGED <<kind, tables, journal, history, bounds>>

Triggered == {e \in journal : e.trigger_lifecycle}

(* Bug: what earlier decisions consumed is looked up and then not used. *)
BugNotSkipped(p, consumed) == TRUE

IsNew(p, consumed) == p \notin consumed

(* _consumed_sources, over the events whose trigger_lifecycle is true. *)
ReadJournal ==
  LET consumed == UNION {e.consumed_predictions : e \in Triggered} IN
  /\ At("read_journal")
  /\ poll' = [poll EXCEPT
       !.step = "read_feedback",
       !.todo = {p \in 1 .. poll.predictions : IsNew(p, consumed)},
       !.consumed_drifts = UNION {e.consumed_drifts : e \in Triggered}]
  /\ UNCHANGED <<kind, tables, journal, history, was_eligible, bounds>>

(* Bug: any closed feedback counts. *)
BugAnyFeedback(p) == feedback_events[p] # "none"

(* _is_conforming_oracle_feedback *)
IsConforming(p) == feedback_events[p] = "eligible"

(* _natural_candidates: one get_feedback per new prediction, newest first. *)
ReadFeedback ==
  /\ At("read_feedback")
  /\ \E p \in poll.todo :
       /\ \A q \in poll.todo : q <= p
       /\ poll' = [poll EXCEPT
            !.todo = @ \ {p},
            !.candidates = IF IsConforming(p) THEN @ \cup {p} ELSE @]
  /\ UNCHANGED <<kind, tables, journal, history, was_eligible, bounds>>

(* Bug: matching[0] instead of matching[-1]. *)
BugOldestDrift == IF drift_events = <<>> THEN None ELSE 1

(* _latest_drift_event *)
LatestDrift == IF drift_events = <<>> THEN None ELSE Len(drift_events)

ReadDrift ==
  /\ At("read_feedback") /\ poll.todo = {}
  /\ poll' = [poll EXCEPT
       !.step = "record", !.drift = LatestDrift,
       !.observation = IF LatestDrift = None THEN None ELSE drift_events[LatestDrift]]
  /\ UNCHANGED <<kind, tables, journal, history, was_eligible, bounds>>

(* Bug: consumed observations are not remembered. *)
BugForgotten == FALSE

DriftWasConsumed == poll.drift \in poll.consumed_drifts
DriftConfirmed == poll.observation = "confirmed" /\ ~DriftWasConsumed

(* Bug: more than the threshold instead of at least. *)
BugMoreThan(n) == n > MinNatural

EnoughNatural(n) == n >= MinNatural

(* evaluate_lifecycle_signal *)
TriggerLifecycle ==
  IF kind = "natural" THEN EnoughNatural(Cardinality(poll.candidates)) ELSE DriftConfirmed

(* The matching predictions list_predictions returned, the newest of them. *)
Window == {p \in 1 .. poll.predictions : p + RoiWindow > poll.predictions}

(* Bug: the decision is not part of the identity of the event. *)
BugNoDecision ==
  [candidates |-> poll.candidates, drift |-> poll.drift, drift_consumed |-> DriftWasConsumed,
   window |-> Window, trigger_lifecycle |-> FALSE]

EventId ==
  [candidates |-> poll.candidates, drift |-> poll.drift, drift_consumed |-> DriftWasConsumed,
   window |-> Window, trigger_lifecycle |-> TriggerLifecycle]

(* Bug: no `is not None`. *)
BugNoneConsumed == IF TriggerLifecycle THEN {poll.drift} ELSE {}

ConsumedDrifts == IF TriggerLifecycle THEN {poll.drift} \ {None} ELSE {}

Decision ==
  [id |-> EventId, trigger_lifecycle |-> TriggerLifecycle,
   consumed_predictions |-> IF TriggerLifecycle THEN poll.candidates ELSE {},
   consumed_drifts |-> ConsumedDrifts]

(* save_lifecycle_trigger_event: an upsert keyed by the event's id. *)
RecordDecision ==
  /\ At("record")
  /\ journal' = {e \in journal : e.id # EventId} \cup {Decision}
  /\ poll' = [Idle EXCEPT !.step = "gate", !.decision = Decision]
  /\ UNCHANGED <<kind, tables, history, was_eligible, bounds>>

(* ShortCircuitOperator on a negative decision. *)
Skip ==
  /\ At("gate") /\ ~poll.decision.trigger_lifecycle
  /\ poll' = Idle
  /\ UNCHANGED <<kind, tables, journal, history, was_eligible, bounds>>

(* TriggerDagRunOperator: a run of iqa_lifecycle is queued. *)
Launch ==
  /\ At("gate") /\ poll.decision.trigger_lifecycle
  /\ launches' = [p \in Predictions |->
       IF p \in poll.decision.consumed_predictions THEN launches[p] + 1 ELSE launches[p]]
  /\ drift_launches' = [d \in Drifts |->
       IF d \in poll.decision.consumed_drifts THEN drift_launches[d] + 1
       ELSE drift_launches[d]]
  /\ poll' = Idle
  /\ UNCHANGED <<kind, tables, journal, was_eligible, bounds>>

(* A read or a container fails, or a worker dies: the run ends there. *)
Fail ==
  /\ poll.step # "idle" /\ failures < MaxFailures
  /\ failures' = failures + 1
  /\ poll' = Idle
  /\ UNCHANGED <<kind, tables, journal, history, was_eligible, overwrites>>

-----------------------------------------------------------------------------
Write == SavePrediction \/ SaveFeedback \/ SaveDrift

Collect ==
  \/ ListPredictions \/ ReadJournal \/ ReadFeedback \/ ReadDrift
  \/ RecordDecision \/ Skip \/ Launch

Next == Write \/ Collect \/ Fail

Spec == Init /\ [][Next]_vars

(* The schedule starts a run every hour and Airflow carries it to its end. *)
FairSpec == Spec /\ WF_vars(Collect)

-----------------------------------------------------------------------------
(* Properties. *)

TypeOK ==
  /\ kind \in Kinds
  /\ predictions \in 0 .. MaxPredictions
  /\ feedback_events \in [Predictions -> Verdicts]
  /\ drift_events \in Seq(Observations) /\ Len(drift_events) <= MaxDrifts
  /\ journal \subseteq TriggerEvent
  /\ poll \in Poll
  /\ launches \in [Predictions -> Nat]
  /\ drift_launches \in [Drifts -> Nat]
  /\ was_eligible \subseteq Predictions
  /\ failures \in 0 .. MaxFailures /\ overwrites \in 0 .. MaxOverwrites

(* docs/model-lifecycle.md: one signal does not launch the lifecycle twice,  *)
(* after another poll or a restart.  A drift observation is the signal only  *)
(* of a drift-correction scenario.                                           *)
EvidenceLaunchesOnce ==
  /\ \A p \in Predictions : launches[p] <= 1
  /\ kind = "drift_correction" => \A d \in Drifts : drift_launches[d] <= 1

(* Two positive decisions never share a validated piece, whatever the API    *)
(* wrote while the collector read.                                           *)
PiecesAreConsumedOnce ==
  \A e, f \in Triggered :
    e # f => e.consumed_predictions \cap f.consumed_predictions = {}

(* A decision rests on pieces that were conforming and eligible while its    *)
(* poll ran, not at an earlier one, although handlers that overlap may       *)
(* change a verdict before, between and after the reads.  That they still    *)
(* are when the decision is journaled is not so: see the overwrites.         *)
ConsumedWereEligible ==
  At("gate") => poll.decision.consumed_predictions \subseteq was_eligible

(* The upsert never rewrites a decision: the id covers all that was decided. *)
DecisionsAreFinal == [][journal \subseteq journal']_vars

Waiting ==
  {p \in 1 .. predictions : feedback_events[p] = "eligible"
     /\ \A e \in Triggered : p \notin e.consumed_predictions}

(* Enough eligible pieces never wait for ever: a poll consumes them, failed  *)
(* polls notwithstanding.                                                    *)
EnoughPiecesAreConsumed ==
  kind = "natural" /\ Cardinality(Waiting) >= MinNatural
    ~> Cardinality(Waiting) < MinNatural

LatestIsPending ==
  /\ drift_events # <<>> /\ drift_events[Len(drift_events)] = "confirmed"
  /\ \A e \in Triggered : Len(drift_events) \notin e.consumed_drifts

(* A confirmed drift observation that stays the latest is acted on. *)
LatestDriftIsConsumed == kind = "drift_correction" => []<>~LatestIsPending

(* docs/model-lifecycle.md: on a positive decision the branch goes on to     *)
(* TriggerDagRunOperator.                                                    *)
PositiveDecisionsLaunch ==
  \A p \in Predictions :
    (\E e \in Triggered : p \in e.consumed_predictions) ~> launches[p] > 0
=============================================================================

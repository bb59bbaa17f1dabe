---------------------------- MODULE Observability ----------------------------
(***************************************************************************)
(* What the API keeps of the lifecycle and drift events pushed to it, and  *)
(* shows on /metrics (iqa/api/main.py, LIFECYCLE_STATE and DRIFT_STATE):   *)
(* the state and the function that applies an event to it.  It is held in  *)
(* memory, for one run at a time, whoever sends the event.                 *)
(*                                                                         *)
(* Each event is handled in a thread of its own and no lock is taken, so   *)
(* what two events do may be interleaved.  Recorded is what an event does  *)
(* alone; NextStep and StepOf are the steps between which the threads of   *)
(* other events may run.                                                   *)
(*                                                                         *)
(* Left out: the validation of payloads, and the gauges that each event    *)
(* overwrites (epoch and gate metrics, sizes of the training set).         *)
(***************************************************************************)
EXTENDS Naturals, FiniteSets, Bags

CONSTANTS
  Runs,   \* the ids of the runs that send events
  None    \* Python's None

Roles == {"classification", "localization"}
Statuses == {"promoted", "rejected", "simulated"}

NoVersions == [role \in Roles |-> None]
NoStatuses == [role \in Roles |-> None]

(* A LifecycleEventRequest.  cycle and epoch are 0, and the other fields None, where the *)
(* payload has none.                                                                     *)
Event(type, run, cycle) ==
  [type |-> type, run |-> run, cycle |-> cycle, epoch |-> 0, candidate |-> None,
   initial |-> None, active |-> NoVersions, status |-> NoStatuses]

(* LIFECYCLE_STATE when empty.  phases are the labels of phase_active whose value is 1; *)
(* counters is promotion_counters, a bag.                                               *)
EmptyState ==
  [run |-> None, cycle |-> 0, epoch |-> 0, active |-> NoVersions, final |-> NoVersions,
   seen |-> {}, counters |-> EmptyBag, phases |-> {}]

-----------------------------------------------------------------------------
PhaseOf == [phase_training |-> "training", phase_evaluation_gate |-> "evaluation_gate",
            phase_promotion |-> "promotion"]

WithLabels(s, e) ==
  [s EXCEPT !.run = e.run,
            !.cycle = IF e.cycle = 0 THEN @ ELSE e.cycle,
            !.epoch = IF e.type = "phase_evaluation_gate" THEN 0
                      ELSE IF e.epoch = 0 THEN @ ELSE e.epoch]

(* A phase event sets the flag of its phase, and clears the two others, under the labels of *)
(* the current cycle.                                                                       *)
WithPhase(s, e) ==
  IF e.type \notin DOMAIN PhaseOf THEN s
  ELSE [s EXCEPT !.phases =
          {p \in @ : <<p.run, p.cycle>> # <<s.run, s.cycle>>}
            \cup {[run |-> s.run, cycle |-> s.cycle, phase |-> PhaseOf[e.type]]}]

DecisionEvents == {"gate_decision", "promotion_decision"}

Decided(e) ==
  {[run |-> e.run, cycle |-> e.cycle, role |-> role, status |-> e.status[role]] :
     role \in {r \in Roles : e.status[r] # None}}

BugUncounted(s, e) == Decided(e)

(* Each decision is announced twice; promotion_seen remembers what is already counted. *)
Uncounted(s, e) == Decided(e) \ s.seen

(* promotion_seen.add *)
Marked(s, e) == [s EXCEPT !.seen = @ \cup Decided(e)]

(* The counters of the decisions that were not seen, and the versions that are promoted. *)
Counted(s, e, uncounted) ==
  [s EXCEPT
     !.counters = @ (+) SetToBag({[run |-> d.run, role |-> d.role, status |-> d.status] :
                                    d \in uncounted}),
     !.active = [role \in Roles |->
                   IF e.status[role] = "promoted" THEN e.candidate ELSE @[role]]]

WithPromotions(s, e) ==
  IF e.type \notin DecisionEvents THEN s ELSE Counted(Marked(s, e), e, Uncounted(s, e))

Given(versions, old) ==
  [role \in Roles |-> IF versions[role] = None THEN old[role] ELSE versions[role]]

WithModels(s, e) ==
  LET active == Given(e.active, s.active)
  IN [s EXCEPT
        !.active = IF active = NoVersions /\ e.initial # None
                   THEN [role \in Roles |-> e.initial] ELSE active,
        !.final = Given(e.active, @)]

(* _reset_lifecycle_live_progress_state *)
WithoutProgress(s) == [s EXCEPT !.epoch = 0, !.active = NoVersions, !.phases = {}]

(* _reset_lifecycle_observability_state, up to promotion_seen, and from promotion_counters on. *)
Emptied(s) == [EmptyState EXCEPT !.counters = s.counters, !.phases = s.phases]
Cleared(s) == [s EXCEPT !.counters = EmptyBag, !.phases = {}]

BugStarted(s, e) == s

Started(s, e) == IF e.type = "run_started" THEN Cleared(Emptied(s)) ELSE s

(* A failed run empties the state, whichever run it shows. *)
Ended(s, e) ==
  CASE e.type = "run_completed" -> WithoutProgress(s)
    [] e.type = "run_failed"    -> Cleared(Emptied(s))
    [] OTHER                    -> s

(* _record_lifecycle_observation *)
Recorded(s, e) ==
  Ended(WithModels(WithPromotions(WithPhase(WithLabels(Started(s, e), e), e), e), e), e)

(* The steps of _record_lifecycle_observation; both roles take a step together. *)
FirstStep(e) == IF e.type = "run_started" THEN "emptying" ELSE "labelling"

NextStep(e, step) ==
  CASE step = "emptying"  -> "clearing"
    [] step = "clearing"  -> IF e.type = "run_started" THEN "labelling" ELSE "over"
    [] step = "labelling" -> IF e.type \in DecisionEvents THEN "testing" ELSE "modelling"
    [] step = "testing"   -> "marking"
    [] step = "marking"   -> "counting"
    [] step = "counting"  -> "modelling"
    [] step = "modelling" -> CASE e.type = "run_completed" -> "ending"
                               [] e.type = "run_failed"    -> "emptying"
                               [] OTHER                    -> "over"
    [] OTHER              -> "over"

(* A thread remembers, from testing to counting, the decisions it found unseen. *)
StepOf(s, e, step, uncounted) ==
  CASE step = "emptying"  -> Emptied(s)
    [] step = "clearing"  -> Cleared(s)
    [] step = "labelling" -> WithPhase(WithLabels(s, e), e)
    [] step = "marking"   -> Marked(s, e)
    [] step = "counting"  -> Counted(s, e, uncounted)
    [] step = "modelling" -> WithModels(s, e)
    [] step = "ending"    -> WithoutProgress(s)
    [] OTHER              -> s

-----------------------------------------------------------------------------
(* _lifecycle_metrics_lines: nothing but the counters while no run is current. *)
Shown(s) == IF s.run = None THEN [EmptyState EXCEPT !.counters = s.counters] ELSE s

(* _record_drift_observation keeps the latest event of an observation; all senders send *)
(* window_evaluated.                                                                    *)
DriftRecorded(e) == [index |-> e.index, status |-> e.status, trigger |-> e.trigger]

DriftStatuses == {"clear", "suspected", "confirmed"}

(* _drift_metrics_lines: the labels of iqa_drift_status whose value is 1, and the trigger; no *)
(* sample while no recent observation is current.                                            *)
DriftShown(d) ==
  IF d = None THEN [status |-> {}, trigger |-> FALSE]
  ELSE [status |-> {d.status} \cap DriftStatuses, trigger |-> d.trigger]
=============================================================================

--------------------------- MODULE DriftCorrection ---------------------------
(***************************************************************************)
(* The drift scenario end to end.  The Airflow DAG iqa_drift_piece_a_p4    *)
(* observes a replay window by window and, once drift is confirmed,        *)
(* triggers iqa_drift_correction_lifecycle, whose container runs the       *)
(* lifecycle runner of LifecycleRunner.  Someone may start another run of  *)
(* the runner by hand, and the inference service may hold the GPU for a    *)
(* demo.  Runners and observation push events to the API, which shows them *)
(* (module Observability).                                                 *)
(*                                                                         *)
(* An event is pushed once, with a timeout of two seconds, and an error is *)
(* only printed: it is applied, it is lost, or the API handles it slowly,  *)
(* while the sender goes on and other events are handled.  The API may     *)
(* restart and forget.  A runner may raise anywhere, and be killed; the    *)
(* kernel then releases its GPU lock.                                      *)
(*                                                                         *)
(* Of a runner in mode progressive-train only what it pushes is kept: see  *)
(* LifecycleRunner for what decides the statuses.  Without                 *)
(* --dual-promotion it pushes simulated ones, though it replaces the model *)
(* it classifies with.  The observation never takes the GPU lock.          *)
(***************************************************************************)
EXTENDS Observability, DriftWindows

CONSTANTS
  ObservationArgs,  \* the command lines of the observation; 0 is an option not given
  MaxCycles,        \* of each run: the cycles its rows allow
  Epochs,           \* --epochs
  DualPromotion,    \* of each run: --dual-promotion
  Outcomes,         \* bound: the statuses the gates of a cycle may give the roles
  MaxFaults         \* bound: pushes lost or late, restarts, failures of runs

ASSUME CorrectionAssumption ==
  /\ Runs = {"correction", "manual"}
  /\ MaxCycles \in [Runs -> Nat]
  /\ Epochs \in Nat \ {0} /\ MaxFaults \in Nat
  /\ DualPromotion \in [Runs -> BOOLEAN] /\ DualPromotion["correction"]
  /\ Outcomes \subseteq [Roles -> {"promoted", "rejected"}]
  /\ ObservationArgs \subseteq [stable_reference_events : Nat, windows : Nat, max_events : Nat]
ASSUME NoneAssumption == None \notin Runs \cup Statuses \cup Nat

VARIABLES
  obs,      \* the observation run
  dag,      \* the run of iqa_drift_correction_lifecycle
  runner,   \* the process of each run of the runner
  gpu,      \* who holds the GPU lock
  shown,    \* LIFECYCLE_STATE of the API
  drift,    \* DRIFT_STATE of the API
  late,     \* the lifecycle events the API handles slowly, with the step each is at
  lateDrift,  \* the drift events not applied yet whose pushes timed out
  heard,    \* history: the run all whose events so far were applied, in order, and no others
  overlapped,  \* history: two threads of the API were in the middle of their events at once
  faults

vars == <<obs, dag, runner, gpu, shown, drift, late, lateDrift, heard, overlapped, faults>>

(* The lifecycle events and what the API makes of them. *)
lifecycleVars == <<shown, late, heard, overlapped>>
driftVars == <<drift, lateDrift>>

NoObservation == [step |-> "idle", rows |-> [stable |-> 0, total |-> 0], windows |-> <<>>,
                  count |-> 0, confirmed |-> FALSE]

(* The state of a runner: versions are numbers of cycles, 0 the initial model; decisions are *)
(* the statuses of the cycles it journaled.                                                  *)
NoRunner == [step |-> "new", cycle |-> 0, epoch |-> 0, runtime |-> [role \in Roles |-> 0],
             status |-> NoStatuses, decisions |-> {}]

Over == {"completed", "failed", "killed"}

(* The steps of a runner that holds the lock. *)
Holding == {"run_started", "replaying", "cycle_started", "training_manifest_ready",
            "phase_training", "epoch_completed", "phase_evaluation_gate", "comparing",
            "phase_promotion", "gate_decision", "activating", "promotion_decision",
            "run_completed", "releasing"}

Init ==
  /\ obs = NoObservation
  /\ dag = "none"
  /\ runner = [r \in Runs |-> NoRunner]
  /\ gpu = None
  /\ shown = EmptyState
  /\ drift = None
  /\ late = {} /\ lateDrift = {}
  /\ heard = None
  /\ overlapped = FALSE
  /\ faults = 0

Fault == faults < MaxFaults /\ faults' = faults + 1

-----------------------------------------------------------------------------
(* Pushing a lifecycle event. *)

HeardAfter(e) ==
  IF e.type = "run_started" THEN e.run ELSE IF heard = e.run THEN heard ELSE None

(* A thread of the API that has begun with its event and is not through. *)
UnderWay(h) == h.step # FirstStep(h.event)

(* The event is handled with no step of another thread in between. *)
Applied(e) ==
  /\ shown' = Recorded(shown, e)
  /\ heard' = HeardAfter(e)
  /\ overlapped' = (overlapped \/ \E h \in late : UnderWay(h))
  /\ UNCHANGED <<late, faults>>

Lost(e) ==
  /\ Fault
  /\ heard' = IF heard = e.run THEN None ELSE heard
  /\ UNCHANGED <<shown, late, overlapped>>

(* A sender whose push is not over waits, or times out and goes on: the first is to go on and *)
(* do nothing.                                                                                *)
Slow(e) ==
  /\ Fault
  /\ late' = late \cup {[event |-> e, step |-> FirstStep(e), uncounted |-> {}]}
  /\ heard' = IF heard = e.run THEN None ELSE heard
  /\ UNCHANGED <<shown, overlapped>>

(* emit_lifecycle_api_event *)
Push(e) == Applied(e) \/ Lost(e) \/ Slow(e)

(* One step of the thread of a slow event. *)
HandleLate ==
  \E h \in late :
    LET next == [h EXCEPT !.step = NextStep(h.event, h.step),
                          !.uncounted = IF h.step = "testing" THEN Uncounted(shown, h.event)
                                        ELSE @]
    IN /\ shown' = StepOf(shown, h.event, h.step, h.uncounted)
       /\ late' = (late \ {h}) \cup (IF next.step = "over" THEN {} ELSE {next})
       /\ heard' = None
       /\ overlapped' = (overlapped \/ \E g \in late \ {h} : UnderWay(g))
       /\ UNCHANGED <<obs, dag, runner, gpu, driftVars, faults>>

(* The threads end with the process; an event it has not begun with may reach the next one. *)
RestartApi ==
  /\ Fault
  /\ shown' = EmptyState
  /\ drift' = None
  /\ late' = {h \in late : ~UnderWay(h)}
  /\ heard' = None
  /\ overlapped' = FALSE
  /\ UNCHANGED <<obs, dag, runner, gpu, lateDrift>>

-----------------------------------------------------------------------------
(* The observation, in its DAG. *)

StartObservation ==
  /\ obs.step = "idle"
  /\ \E a \in ObservationArgs :
       obs' = [NoObservation EXCEPT !.step = IF SelectionFails(a) THEN "failed" ELSE "observing",
                                    !.rows = Replayed(a)]
  /\ UNCHANGED <<dag, runner, gpu, lifecycleVars, driftVars, faults>>

NextWindow == Len(obs.windows) + 1
WindowIsComplete == NextWindow * WindowSize <= obs.rows.total

(* ROI masks of P4 events are compared with those of the stable events of earlier windows. *)
HasReference == \E k \in 1 .. Len(obs.windows) : obs.windows[k].p4 < obs.windows[k].events

(* _push_drift_event, once: a push that fails leaves the API with the window before, and one *)
(* that times out may be applied after later ones.                                           *)
PushDrift(e) ==
  \/ drift' = DriftRecorded(e) /\ UNCHANGED <<lateDrift, faults>>
  \/ Fault /\ UNCHANGED driftVars
  \/ Fault /\ lateDrift' = lateDrift \cup {e} /\ UNCHANGED drift

ApplyLateDrift ==
  \E e \in lateDrift :
    /\ drift' = DriftRecorded(e)
    /\ lateDrift' = lateDrift \ {e}
    /\ UNCHANGED <<obs, dag, runner, gpu, lifecycleVars, faults>>

(* A complete window is judged, appended to windows.jsonl and pushed. *)
FinalizeWindow ==
  /\ obs.step = "observing" /\ WindowIsComplete
  /\ \E degraded, novel \in BOOLEAN :
       LET w == [events |-> WindowSize, p4 |-> P4Of(obs.rows, NextWindow),
                 degraded |-> degraded, novel |-> novel]
           eval == Judged(w, obs.count, obs.confirmed)
       IN /\ novel => HasReference
          /\ obs' = [obs EXCEPT !.windows = Append(@, w), !.count = eval.count,
                                !.confirmed = eval.confirmed]
          /\ PushDrift([index |-> NextWindow, status |-> DriftStatus(eval),
                        trigger |-> eval.confirmed])
  /\ UNCHANGED <<dag, runner, gpu, lifecycleVars>>

(* A last partial window is not pushed and confirms nothing.  The summary is the output of *)
(* the task; the process is gone with its windows.                                         *)
FinishObservation ==
  /\ obs.step = "observing" /\ ~WindowIsComplete
  /\ obs' = [NoObservation EXCEPT !.step = "summarised", !.confirmed = obs.confirmed]
  /\ UNCHANGED <<dag, runner, gpu, lifecycleVars, driftVars, faults>>

FailObservation ==
  /\ obs.step = "observing"
  /\ Fault
  /\ obs' = [NoObservation EXCEPT !.step = "failed"]
  /\ UNCHANGED <<dag, runner, gpu, lifecycleVars, driftVars>>

(* gate_on_confirmed_drift, build_correction_conf and trigger_drift_correction_lifecycle. *)
GateOnConfirmedDrift ==
  /\ obs.step = "summarised"
  /\ obs' = [obs EXCEPT !.step = "done"]
  /\ dag' = IF obs.confirmed THEN "queued" ELSE dag
  /\ UNCHANGED <<runner, gpu, lifecycleVars, driftVars, faults>>

(* _observability_is_recent: 30 seconds after the last window /metrics shows no drift. *)
DriftGoesStale ==
  /\ drift # None
  /\ drift' = None
  /\ UNCHANGED <<obs, dag, runner, gpu, lifecycleVars, lateDrift, faults>>

-----------------------------------------------------------------------------
(* The GPU lock, a flock the kernel releases when its holder is gone. *)

(* Bound: the demo and the run by hand start after the observation.  It never takes the lock, *)
(* and they push nothing that a window reads.                                                 *)
AfterObservation == obs.step \in {"done", "failed"} /\ drift = None /\ lateDrift = {}

TakeGpu(r) ==
  /\ gpu = None
  /\ gpu' = r

StartDemo ==
  /\ AfterObservation
  /\ TakeGpu("demo")
  /\ UNCHANGED <<obs, dag, runner, lifecycleVars, driftVars, faults>>

StopDemo ==
  /\ gpu = "demo"
  /\ gpu' = None
  /\ UNCHANGED <<obs, dag, runner, lifecycleVars, driftVars, faults>>

(* --wait-for-gpu of the correction. *)
AcquireGpu ==
  /\ dag = "running" /\ runner["correction"].step = "new"
  /\ TakeGpu("correction")
  /\ runner' = [runner EXCEPT !["correction"].step = "run_started"]
  /\ UNCHANGED <<obs, dag, lifecycleVars, driftVars, faults>>

(* By hand the runner does not wait: GpuBusyError, and run_failed under a name of no run. *)
StartManualRun ==
  /\ runner["manual"].step = "new" /\ AfterObservation
  /\ \/ /\ TakeGpu("manual")
        /\ runner' = [runner EXCEPT !["manual"].step = "run_started"]
     \/ /\ gpu # None
        /\ runner' = [runner EXCEPT !["manual"].step = "refused"]
        /\ UNCHANGED gpu
  /\ UNCHANGED <<obs, dag, lifecycleVars, driftVars, faults>>

-----------------------------------------------------------------------------
(* A runner, from one push to the next. *)

EventOf(r) ==
  LET p == runner[r]
      e == Event(p.step, r, p.cycle)
      cycle == [e EXCEPT !.candidate = p.cycle]
  IN CASE p.step = "run_started" -> [e EXCEPT !.initial = p.runtime["classification"],
                                              !.active = p.runtime]
       [] p.step \in {"cycle_started", "training_manifest_ready"} ->
            [cycle EXCEPT !.initial = p.runtime["classification"], !.active = p.runtime]
       [] p.step = "epoch_completed" ->
            [cycle EXCEPT !.initial = p.runtime["classification"], !.epoch = p.epoch]
       [] p.step \in DecisionEvents ->
            [cycle EXCEPT !.initial = p.runtime["classification"], !.status = p.status]
       [] p.step = "run_completed" -> [cycle EXCEPT !.active = p.runtime, !.status = p.status]
       [] OTHER -> cycle

BugMoreEpochs(p) == p.epoch <= Epochs

MoreEpochs(p) == p.epoch < Epochs

(* The step that follows a push. *)
AfterPush(p) ==
  CASE p.step = "run_started" -> [p EXCEPT !.step = "replaying"]
    [] p.step = "cycle_started" -> [p EXCEPT !.step = "training_manifest_ready"]
    [] p.step = "training_manifest_ready" -> [p EXCEPT !.step = "phase_training"]
    [] p.step = "phase_training" -> [p EXCEPT !.step = "epoch_completed", !.epoch = 1]
    [] p.step = "epoch_completed" ->
         IF MoreEpochs(p) THEN [p EXCEPT !.epoch = @ + 1]
         ELSE [p EXCEPT !.step = "phase_evaluation_gate", !.epoch = 0]
    [] p.step = "phase_evaluation_gate" -> [p EXCEPT !.step = "comparing"]
    [] p.step = "phase_promotion" -> [p EXCEPT !.step = "gate_decision"]
    [] p.step = "gate_decision" -> [p EXCEPT !.step = "activating"]
    [] p.step = "promotion_decision" -> [p EXCEPT !.step = "replaying"]
    [] OTHER -> [p EXCEPT !.step = "releasing"]

Pushing == {"run_started", "cycle_started", "training_manifest_ready", "phase_training",
            "epoch_completed", "phase_evaluation_gate", "phase_promotion", "gate_decision",
            "promotion_decision", "run_completed"}

PushStep(r) ==
  /\ runner[r].step \in Pushing
  /\ Push(EventOf(r))
  /\ runner' = [runner EXCEPT ![r] = AfterPush(@)]
  /\ UNCHANGED <<obs, dag, gpu, driftVars>>

(* A lot triggers a cycle, or the replay ends. *)
Replay(r) ==
  /\ runner[r].step = "replaying"
  /\ \/ /\ runner[r].cycle < MaxCycles[r]
        /\ runner' = [runner EXCEPT ![r].step = "cycle_started", ![r].cycle = @ + 1]
     \/ runner' = [runner EXCEPT ![r].step = "run_completed"]
  /\ UNCHANGED <<obs, dag, gpu, lifecycleVars, driftVars, faults>>

Simulated == [role \in Roles |-> "simulated"]

(* evaluate_reference_promotion_comparison: the gates of LifecycleRunner, which decide on the *)
(* roles under --dual-promotion only.                                                         *)
Compare(r) ==
  /\ runner[r].step = "comparing"
  /\ \E status \in IF DualPromotion[r] THEN Outcomes ELSE {Simulated} :
       runner' = [runner EXCEPT ![r].step = "phase_promotion", ![r].status = status]
  /\ UNCHANGED <<obs, dag, gpu, lifecycleVars, driftVars, faults>>

RuntimeAfter(p) ==
  [role \in Roles |-> IF p.status[role] = "promoted" THEN p.cycle ELSE p.runtime[role]]

(* Without --dual-promotion one gate decides on the candidate, and no status says so. *)
RuntimesAfter(r) ==
  {RuntimeAfter(runner[r])}
    \cup (IF DualPromotion[r] THEN {}
          ELSE {[runner[r].runtime EXCEPT !["classification"] = runner[r].cycle]})

(* Publication and registration succeeded: the runtimes change, the cycle is journaled. *)
Activate(r) ==
  /\ runner[r].step = "activating"
  /\ \E runtime \in RuntimesAfter(r) :
       runner' = [runner EXCEPT ![r].step = "promotion_decision",
                                ![r].runtime = runtime,
                                ![r].decisions = @ \cup
                                  {[cycle |-> runner[r].cycle, role |-> role,
                                    status |-> runner[r].status[role]] : role \in Roles}]
  /\ UNCHANGED <<obs, dag, gpu, lifecycleVars, driftVars, faults>>

(* The container of the correction is done when its process is. *)
DagAfter(r, outcome) == IF r = "correction" THEN outcome ELSE dag

Release(r) ==
  /\ runner[r].step = "releasing"
  /\ runner' = [runner EXCEPT ![r].step = "completed"]
  /\ gpu' = None
  /\ dag' = DagAfter(r, "success")
  /\ UNCHANGED <<obs, lifecycleVars, driftVars, faults>>

(* An exception leaves the with block, so the lock is released, then run_failed is pushed. *)
Raise(r) ==
  /\ runner[r].step \in Holding \ {"releasing"}
  /\ Fault
  /\ runner' = [runner EXCEPT ![r].step = "raising"]
  /\ gpu' = None
  /\ UNCHANGED <<obs, dag, lifecycleVars, driftVars>>

PushFailure(r) ==
  /\ runner[r].step \in {"raising", "refused"}
  /\ Push(Event("run_failed", IF runner[r].step = "refused" THEN "failed_before_lifecycle_run_id"
                              ELSE r, 0))
  /\ runner' = [runner EXCEPT ![r].step = "failed"]
  /\ dag' = DagAfter(r, "failing")
  /\ UNCHANGED <<obs, gpu, driftVars>>

Killed(r) ==
  /\ runner' = [runner EXCEPT ![r].step = "killed"]
  /\ gpu' = IF gpu = r THEN None ELSE gpu

KillManualRun ==
  /\ runner["manual"].step \notin Over \cup {"new"}
  /\ Fault
  /\ Killed("manual")
  /\ UNCHANGED <<obs, dag, lifecycleVars, driftVars>>

-----------------------------------------------------------------------------
(* The task of iqa_drift_correction_lifecycle. *)

(* The pool iqa_gpu has one slot, and the observation held it. *)
StartTask ==
  /\ dag = "queued" /\ obs.step = "done"
  /\ dag' = "running"
  /\ UNCHANGED <<obs, runner, gpu, lifecycleVars, driftVars, faults>>

BugMayTimeOut(p) == p.step # "new"

MayTimeOut(p) == TRUE

(* execution_timeout: the container is stopped, whether its process waits or trains. *)
TimeOut ==
  /\ dag = "running" /\ MayTimeOut(runner["correction"])
  /\ Killed("correction")
  /\ dag' = "failing"
  /\ UNCHANGED <<obs, lifecycleVars, driftVars, faults>>

(* _clear_lifecycle_metrics_on_failure; there is no retry. *)
FailureCallback ==
  /\ dag = "failing"
  /\ Push(Event("run_failed", "airflow", 0))
  /\ dag' = "failed"
  /\ UNCHANGED <<obs, runner, gpu, driftVars>>

-----------------------------------------------------------------------------
Next ==
  \/ StartObservation \/ FinalizeWindow \/ FinishObservation \/ FailObservation
  \/ GateOnConfirmedDrift \/ DriftGoesStale
  \/ StartDemo \/ StopDemo \/ AcquireGpu \/ StartManualRun
  \/ \E r \in Runs :
       PushStep(r) \/ Replay(r) \/ Compare(r) \/ Activate(r) \/ Release(r) \/ Raise(r)
         \/ PushFailure(r)
  \/ KillManualRun
  \/ StartTask \/ TimeOut \/ FailureCallback
  \/ HandleLate \/ ApplyLateDrift \/ RestartApi

(* Airflow goes on with its tasks and stops one that lasts longer than its timeout. *)
Fairness ==
  /\ WF_vars(GateOnConfirmedDrift)
  /\ WF_vars(StartTask)
  /\ WF_vars(TimeOut)
  /\ WF_vars(FailureCallback)

Spec == Init /\ [][Next]_vars /\ Fairness

-----------------------------------------------------------------------------
Window == [events : {WindowSize}, p4 : 0 .. WindowSize, degraded : BOOLEAN, novel : BOOLEAN]

Senders == Runs \cup {"airflow", "failed_before_lifecycle_run_id"}

Cycles == 0 .. (IF MaxCycles["correction"] >= MaxCycles["manual"] THEN MaxCycles["correction"]
                ELSE MaxCycles["manual"])

HandlerSteps == {"emptying", "clearing", "labelling", "testing", "marking", "counting",
                 "modelling", "ending"}

(* The label of a decision in promotion_counters, and the counters of a set of decisions. *)
Label(d) == [run |-> d.run, role |-> d.role, status |-> d.status]

CountersOf(seen) ==
  [k \in {Label(d) : d \in seen} |-> Cardinality({d \in seen : Label(d) = k})]

(* The values of the variables: an observation, the runners, the lock, and what the API *)
(* shows and still handles.                                                             *)
TypeOK ==
  /\ obs.step \in {"idle", "observing", "summarised", "done", "failed"}
  /\ obs.windows \in Seq(Window) /\ obs.count \in 0 .. Len(obs.windows) /\ obs.confirmed \in BOOLEAN
  /\ dag \in {"none", "queued", "running", "failing", "success", "failed"}
  /\ \A r \in Runs :
       /\ runner[r].step \in Holding \cup Over \cup {"new", "refused", "raising"}
       /\ runner[r].cycle \in 0 .. MaxCycles[r] /\ runner[r].epoch \in 0 .. Epochs
       /\ runner[r].runtime \in [Roles -> Cycles]
       /\ runner[r].status \in [Roles -> Statuses \cup {None}]
       /\ runner[r].decisions \subseteq [cycle : Cycles, role : Roles, status : Statuses]
  /\ gpu \in Runs \cup {"demo", None}
  /\ shown.run \in Senders \cup {None} /\ shown.cycle \in Cycles /\ shown.epoch \in 0 .. Epochs
  /\ {shown.active, shown.final} \subseteq [Roles -> Cycles \cup {None}]
  /\ DOMAIN shown.counters \subseteq [run : Senders, role : Roles, status : Statuses]
  /\ \A label \in DOMAIN shown.counters : shown.counters[label] \in Nat
  /\ {h.step : h \in late} \subseteq HandlerSteps
  /\ {drift} \cup lateDrift \subseteq
       {None} \cup [index : Nat, status : DriftStatuses, trigger : BOOLEAN]
  /\ heard \in Runs \cup {None} /\ overlapped \in BOOLEAN
  /\ faults \in 0 .. MaxFaults

(* A promotion counts once: however pushes are lost, late or repeated by the second event of *)
(* a decision, and whatever the API forgot, iqa_lifecycle_promotion_total of a run, a role   *)
(* and a status is at most the number of its cycles decided so (_record_lifecycle_promotion_ *)
(* status).  A cycle whose registration raised is announced but not journaled.  Nothing      *)
(* makes it so once two threads of the API were in the middle of their events at once: a     *)
(* decision that two of them find unseen, or that one counts after the other emptied         *)
(* promotion_seen, counts twice.                                                             *)
CountedOnce ==
  ~overlapped =>
    \A r \in Runs, role \in Roles, status \in Statuses :
      LET label == [run |-> r, role |-> role, status |-> status]
          counters == Shown(shown).counters
      IN BagIn(label, counters) =>
           counters[label]
             <= Cardinality({d \in runner[r].decisions : d.role = role /\ d.status = status})
                  + (IF runner[r].status[role] = status
                        /\ ~ \E d \in runner[r].decisions : d.cycle = runner[r].cycle
                     THEN 1 ELSE 0)

(* The decisions of a journal, as events announce them. *)
JournaledOf(r) ==
  {[run |-> r, cycle |-> d.cycle, role |-> d.role, status |-> d.status] : d \in runner[r].decisions}

(* The steps of a run at which its last event but the decisions gave the versions it works *)
(* with.                                                                                   *)
Working == {"training_manifest_ready", "phase_training", "epoch_completed", "comparing"}

(* What /metrics shows of a run none of whose events was lost, slow or followed by those of  *)
(* another sender is that run: while it trains, the versions it works with, its cycle, an    *)
(* epoch only while it trains, and the phase it is in; between cycles and after its end, the *)
(* decisions of its journal, and at its end its final versions and no progress.  Between     *)
(* cycles the versions are those of a run under --dual-promotion only: another one announces *)
(* no promotion until its next cycle or its end.                                             *)
UndisturbedRunIsShown ==
  \A r \in Runs :
    LET p == runner[r]
        s == Shown(shown)
    IN heard = r /\ p.step \in Holding \cup {"completed"} =>
         /\ s.run = r
         /\ \A mark \in s.phases : mark.run = r
         /\ p.step \in {"replaying", "run_completed", "releasing", "completed"} =>
              s.counters = CountersOf(JournaledOf(r))
         /\ \/ p.step \in Working
            \/ DualPromotion[r]
                 /\ p.step \in {"replaying", "cycle_started", "promotion_decision",
                                "run_completed"}
            => s.active = p.runtime
         /\ s.epoch # 0 => p.step \in {"epoch_completed", "phase_evaluation_gate"}
         /\ p.step \in {"comparing", "gate_decision"} =>
              {m.phase : m \in {m \in s.phases : m.cycle = p.cycle}} =
                {IF p.step = "comparing" THEN "evaluation_gate" ELSE "promotion"}
         /\ p.step \in {"releasing", "completed"} =>
              s.final = p.runtime /\ s.active = NoVersions /\ s.phases = {} /\ s.epoch = 0

Strong(w) == w.degraded /\ 100 * w.p4 >= 80 * w.events

NovelAmong(windows, k) ==
  /\ windows[k].novel /\ windows[k].p4 = windows[k].events
  /\ \E j \in 1 .. k - 1 : windows[j].p4 < windows[j].events

Evidence(windows) ==
  \/ \E k \in 1 .. Len(windows) : NovelAmong(windows, k)
  \/ \E k \in ConfirmWindows .. Len(windows) :
       \A j \in k - ConfirmWindows + 1 .. k : Strong(windows[j])

(* Drift is confirmed, and /metrics shows it or asks for a lifecycle, only on evidence of    *)
(* the complete windows: one made of P4 events only whose ROI masks are novel against those  *)
(* of earlier stable events, or ConfirmWindows degraded ones in a row, each at least 80 % P4 *)
(* (evaluate_drift_metrics with the override of _finalize_window).                           *)
ConfirmedByEvidence ==
  LET told == DriftShown(drift)
  IN obs.step = "observing" /\ (obs.confirmed \/ told.trigger \/ "confirmed" \in told.status)
       => Evidence(obs.windows)

(* Once an observation confirmed drift, its correction ends, and no longer holds the GPU,    *)
(* whoever holds the GPU meanwhile and however its process fails: execution_timeout stops a  *)
(* container that still waits for the lock.                                                  *)
CorrectionEnds ==
  (obs.step = "summarised" /\ obs.confirmed)
    ~> (dag \in {"success", "failed"} /\ gpu # "correction")
=============================================================================

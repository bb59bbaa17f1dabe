--------------------------- MODULE LifecycleRunner ---------------------------
(***************************************************************************)
(* scripts/run_replay_lifecycle_cycle.py: one run after another replays    *)
(* lots of pieces through the active models, and each time the rule of     *)
(* monitoring/lifecycle.py asks for it trains a candidate, judges it       *)
(* against the active models, publishes and registers what was promoted    *)
(* and goes on replaying with it.                                          *)
(*                                                                         *)
(* Runs do not overlap: each holds the GPU lock for as long as it lasts.   *)
(* They share the model registry, the bucket, the artifacts of their       *)
(* MLflow runs and the metric cache.  A run may end at any step, by an     *)
(* exception or a kill: nothing is undone.                                 *)
(*                                                                         *)
(* A row of a replay plan is [lot, verdict, image, class].  What ROI and   *)
(* Feature-AE inference say of a piece decides nothing here (it is written *)
(* to events.jsonl): a row counts by the verdict of its oracle.  Progress, *)
(* timings, lifecycle events and the events pushed to the API are left     *)
(* out; Observability and DriftCorrection model the last.                  *)
(***************************************************************************)
EXTENDS FeatureAETraining, SequencesExt

CONSTANTS
  Stable,        \* the content of the bootstrap checkpoint
  Selection,     \* the panel of --classification-selection-manifest
  Anchors,       \* the rows of --anchor-good-manifest, a sequence of [image, class, good, split]
  ExcludedSplits,\* FEATURE_AE_EXCLUDED_TRAIN_SETS
  Options,       \* the command lines runs are started with
  Faults,        \* what may fail: "abort", "assets", "mlflow", "alias"
  MaxRuns        \* bound: runs

ASSUME RunnerAssumption == MaxRuns \in Nat /\ Stable \in Checkpoints
ASSUME SelectionAssumption == IsPanel(Selection)

VARIABLES
  args,      \* the options of the latest run
  pc,        \* where that run is
  run,       \* its CycleState
  active,    \* its active runtime of each role
  cand,      \* the cycle it works on
  registry,  \* the versions of each registered model, in order
  alias,     \* the version the alias --target-stage of each model names, 0 for none
  contracts, \* the runtime contracts logged to the MLflow runs of the cycles
  bucket,    \* the checkpoints uploaded to s3://iqa-models
  cache      \* the metric cache

vars == <<args, pc, run, active, cand, registry, alias, contracts, bucket, cache>>

Roles == {"localization", "classification"}

(* Registered models: one per role with --dual-promotion, "model" without. *)
Models == Roles \cup {"model"}

ASSUME NoneAssumption == None \notin Models \cup Checkpoints /\ None \notin Int

Progressive == args.mode \in {"progressive-decision", "progressive-train"}

NoRun == [number |-> 0, next |-> 1, lot |-> {}, lots |-> <<>>, total |-> 0, last |-> 0,
          triggered |-> FALSE, last_lot |-> FALSE, cycles |-> <<>>]

(* An ActiveRuntimeModel; calibrated: the content whose scores gave its thresholds. *)
Runtime(version, content, calibrated) ==
  [version |-> version, content |-> content, calibrated |-> calibrated]

StableRuntime == Runtime(0, Stable, Stable)

NoCycle == [number |-> 0, manifest |-> {}, dir |-> EmptyDir, localization |-> None,
            classification |-> None, status |-> [m \in Models |-> "simulated"],
            calibrated |-> [m \in Models |-> None],
            uploaded |-> {}, tried |-> {}]

Idle == pc \in {"idle", "completed", "failed"}

(* The process is gone, and what it had in memory. *)
ProcessEnds ==
  /\ run' = [NoRun EXCEPT !.number = run.number]
  /\ active' = [role \in Roles |-> StableRuntime]
  /\ cand' = NoCycle

-----------------------------------------------------------------------------
(* Start of a run. *)

(* _rows_from_drift_context: the correction manifest when the option is given. *)
ReplayRows(a) == IF a.drift_context = None THEN a.replay_plan ELSE a.drift_context

(* What parse_args accepts of the options that the properties depend on. *)
ASSUME OptionsAssumption ==
  /\ Options # {}
  /\ \A a \in Options :
       /\ ReplayRows(a) \in Seq(ToSet(ReplayRows(a)))
       /\ a.dual \in BOOLEAN /\ a.interval \in Nat /\ a.localization_min_delta \in Nat

Rows == ReplayRows(args)

(* resolve_registered_initial_runtime: the model logged by the run of the version the alias *)
(* names, with the thresholds of the contract of that run for the role.  Without one the    *)
(* thresholds are those of another model: no manifest knows the name of a candidate.        *)
RegisteredRuntime(role, fallback) ==
  LET v == registry[role][alias[role]]
      logged == {c \in contracts : c.run = v.run /\ c.cycle = v.cycle /\ c.role = role}
  IN Runtime(v.cycle, v.content,
             IF logged = {} THEN fallback.calibrated
             ELSE (CHOOSE c \in logged : TRUE).calibrated)

(* An initial runtime was found for each role of found. *)
InitialRuntimes(found) ==
  LET classification ==
        IF "classification" \in found THEN RegisteredRuntime("classification", StableRuntime)
        ELSE StableRuntime
  IN [classification |-> classification,
      localization |-> IF "localization" \in found
                       THEN RegisteredRuntime("localization", classification)
                       ELSE classification]

(* preflight_lifecycle_assets: an image or a mask of the manifests is not on the disk. *)
PreflightMayFail(a) ==
  "assets" \in Faults /\ a.scenario = "p4_drift" /\ a.mode = "progressive-train"

(* Any call to MLflow may fail; without --require-mlflow-registry the run goes on without. *)
StartRun ==
  /\ Idle
  /\ run.number < MaxRuns
  /\ \E a \in Options, found \in SUBSET Roles :
       LET wanted == IF a.from_registry THEN Roles ELSE {}
           available == {role \in wanted : alias[role] # 0}
       IN /\ found \subseteq available
          /\ "mlflow" \notin Faults => found = available
          /\ args' = a
          /\ run' = [NoRun EXCEPT !.number = run.number + 1]
          /\ IF (a.require_registry /\ found # wanted) \/ ReplayRows(a) = <<>>
             THEN pc' = "failed"
             ELSE pc' = "replaying" \/ (PreflightMayFail(a) /\ pc' = "failed")
          /\ active' = InitialRuntimes(found)
          /\ cand' = NoCycle
  /\ UNCHANGED <<registry, alias, contracts, bucket, cache>>

-----------------------------------------------------------------------------
(* The replay loop of run_cycle. *)

HasNextRow ==
  /\ run.next <= Len(Rows)
  /\ args.max_events # None => run.next - 1 < args.max_events

OpensLot == run.lot # {} /\ \E n \in run.lot : Rows[n].lot # Rows[run.next].lot

Conforming(lot) == {n \in lot : Rows[n].verdict = "conforme"}

ProcessEvent ==
  /\ pc = "replaying" /\ HasNextRow /\ ~OpensLot
  /\ run' = [run EXCEPT !.lot = @ \cup {run.next}, !.next = @ + 1]
  /\ UNCHANGED <<args, pc, active, cand, registry, alias, contracts, bucket, cache>>

ReachedMaxCycles(cycles) == args.max_cycles # None /\ Len(cycles) >= args.max_cycles

ReachedMaxLots(lots) == args.max_lots # None /\ Len(lots) >= args.max_lots

(* lifecycle_decision_for_lot with evaluate_lifecycle_signal. *)
LotTriggers(total) ==
  CASE args.scenario = "natural"  -> total - run.last >= args.interval
    [] args.scenario = "drift"    -> TRUE
    [] args.scenario = "p4_drift" -> args.external_drift /\ run.next - 1 >= args.interval
    [] OTHER -> FALSE

(* What follows a lot that was handled: the loop goes on with a new lot, or is left with *)
(* the handled one still current.                                                        *)
AfterLot(stop, lots) ==
  IF run.last_lot THEN "finishing"
  ELSE IF stop \/ ReachedMaxLots(lots) THEN "left" ELSE "replaying"

NextLot(where) == IF where = "replaying" THEN {} ELSE run.lot

(* _finalize_lot and the start of handle_lifecycle_decision. *)
Finalize ==
  LET total == run.total + Cardinality(Conforming(run.lot))
      lots == Append(run.lots, run.lot)
      triggers == LotTriggers(total)
      where == IF triggers /\ Progressive THEN "cycle" ELSE AfterLot(triggers, lots)
  IN /\ run' = [run EXCEPT !.total = total, !.lots = lots,
                           !.triggered = @ \/ triggers, !.lot = NextLot(where)]
     /\ pc' = where
     /\ UNCHANGED <<args, active, cand, registry, alias, contracts, bucket, cache>>

FinalizeLot == pc = "replaying" /\ HasNextRow /\ OpensLot /\ Finalize

LeaveLoop ==
  /\ pc = "replaying" /\ ~HasNextRow
  /\ pc' = "left"
  /\ UNCHANGED <<args, run, active, cand, registry, alias, contracts, bucket, cache>>

(* Without the check of max_cycles. *)
BugShouldFinalizeLastLot == run.lot # {} /\ (~run.triggered \/ Progressive)

ShouldFinalizeLastLot ==
  /\ run.lot # {}
  /\ ~run.triggered \/ (Progressive /\ ~ReachedMaxCycles(run.cycles))

AfterLoop ==
  /\ pc = "left"
  /\ pc' = IF ShouldFinalizeLastLot THEN "last_lot" ELSE "finishing"
  /\ run' = [run EXCEPT !.last_lot = TRUE]
  /\ UNCHANGED <<args, active, cand, registry, alias, contracts, bucket, cache>>

FinalizeLastLot == pc = "last_lot" /\ Finalize

-----------------------------------------------------------------------------
(* A cycle: its training manifest and its training. *)

SeenGood == {Rows[n].image : n \in Conforming(1 .. run.next - 1)}

(* cap_rows_by_source_class over the good rows of the anchor manifest. *)
CappedAnchors ==
  LET good == {n \in DOMAIN Anchors : Anchors[n].good}
      rank(n) == Cardinality({m \in good : m < n /\ Anchors[m].class = Anchors[n].class})
  IN {n \in good : rank(n) < args.anchor_good_max_per_class}

(* _is_train_normal; a seen piece has the scenario as its split, whatever set it came from. *)
IsTrainNormal(n) == Anchors[n].good /\ Anchors[n].split \notin ExcludedSplits

TrainingImages == SeenGood \cup {Anchors[n].image : n \in {m \in CappedAnchors : IsTrainNormal(m)}}

(* TiledFeatureAEDataset raises without a tile. *)
DatasetIsEmpty == TrainingImages = {}

(* train_progressive_candidate: a directory of the run and the candidate, emptied first. *)
CandidateRunDir == EmptyDir

(* build_progressive_cycle up to the training. *)
StartCycle ==
  /\ pc = "cycle"
  /\ cand' = [NoCycle EXCEPT !.number = Len(run.cycles) + 1, !.manifest = TrainingImages,
                             !.dir = CandidateRunDir]
  /\ pc' = IF args.mode = "progressive-decision" THEN "closing"
           ELSE IF DatasetIsEmpty THEN "failed" ELSE "training"
  /\ UNCHANGED <<args, run, active, registry, alias, contracts, bucket, cache>>

(* One epoch saved, evaluated and compared; it raises when no business metric came back. *)
TrainEpoch ==
  /\ pc = "training" /\ ~TrainingOver(cand.dir)
  /\ \E content \in Checkpoints \ {Stable} :
       cand' = [cand EXCEPT !.dir = SaveEpoch(@, content)]
  /\ pc' = IF EpochMetrics = {} THEN "failed" ELSE "training"
  /\ UNCHANGED <<args, run, active, registry, alias, contracts, bucket, cache>>

(* The end of train_feature_ae_with_mlflow_logging and resolve_specialized_candidate_checkpoints. *)
LogTraining ==
  /\ pc = "training" /\ TrainingOver(cand.dir)
  /\ cand' = [cand EXCEPT !.localization = SpecializedFile(cand.dir, "localization"),
                          !.classification = SpecializedFile(cand.dir, "classification")]
  /\ pc' = IF args.mode = "train-on-trigger" THEN "uploading_trained" ELSE "selecting"
  /\ UNCHANGED <<args, run, active, registry, alias, contracts, bucket, cache>>

-----------------------------------------------------------------------------
(* The metric cache.  An entry is what a directory of the cache holds: measured is the *)
(* content whose scores are in its metrics.json.                                       *)

BugMetricCacheKey(version, content, path) == <<version, path>>

MetricCacheKey(version, content, path) == <<version, content, path>>

SelectionPath == [set |-> "selection", run |-> 0, cycle |-> 0]

(* The copy of the reference panel in the directory of the cycle. *)
ReferencePath == [set |-> "reference", run |-> run.number, cycle |-> cand.number]

Keys(entries) == {e.key : e \in entries}

(* requests: the evaluations asked for, in order, each a runtime. *)
Evaluated(entries, requests, path) ==
  LET key(n) == MetricCacheKey(requests[n].version, requests[n].content, path)
      misses == {n \in DOMAIN requests : key(n) \notin Keys(entries)
                                         /\ \A m \in 1 .. n - 1 : key(m) # key(n)}
  IN entries \cup {[key |-> key(n), measured |-> requests[n].content, path |-> path] : n \in misses}

Measured(entries, request, path) ==
  (CHOOSE e \in entries : e.key = MetricCacheKey(request.version, request.content, path)).measured

Candidate(content) == Runtime(cand.number, content, content)

(* select_classification_candidate_checkpoint. *)
SelectClassification ==
  /\ pc = "selecting"
  /\ IF args.selection_manifest
     THEN LET files == SelectionFiles(cand.dir)
              requests == <<active.classification>>
                            \o [n \in DOMAIN files |-> Candidate(files[n].content)]
              entries == Evaluated(cache, requests, SelectionPath)
              measured(request) == Measured(entries, request, SelectionPath)
              judged == [n \in DOMAIN files |->
                           [name |-> files[n].name, content |-> files[n].content,
                            measured |-> measured(Candidate(files[n].content))]]
          IN /\ cache' = entries
             /\ cand' = [cand EXCEPT !.classification =
                            SelectClassificationFile(args, judged, measured(active.classification),
                                                     Selection).content]
     ELSE UNCHANGED <<cache, cand>>
  /\ pc' = "gate"
  /\ UNCHANGED <<args, run, active, registry, alias, contracts, bucket>>

-----------------------------------------------------------------------------
(* The gate, publication and registration. *)

GatePanel == IF P4Objective(args) THEN Selection ELSE Reference

GatePath == IF P4Objective(args) THEN SelectionPath ELSE ReferencePath

(* The checkpoint a registered model of the cycle stands for. *)
JudgedContent(m) ==
  CASE m = "localization"   -> cand.localization
    [] m = "classification" -> cand.classification
    [] m = "model"          -> CheckpointFile(cand.dir)

(* The runtimes evaluate_reference_promotion_comparison compares, the active one first. *)
Compared ==
  IF args.dual
  THEN <<active.localization, Candidate(cand.localization),
         active.classification, Candidate(cand.classification)>>
  ELSE <<active.classification, Candidate(CheckpointFile(cand.dir))>>

(* The decisions; measure gives the content each of them was measured on. *)
DualStatus(measure) ==
  [localization |-> LocalizationStatus(args, measure[active.localization],
                                       measure[Candidate(cand.localization)], GatePanel),
   classification |-> ClassificationStatus(args, measure[active.classification],
                                           measure[Candidate(cand.classification)], GatePanel),
   model |-> "simulated"]

SingleGateStatus(measure) ==
  [m \in Models |->
     IF m = "model"
     THEN SingleStatus(args, measure[active.classification],
                       measure[Candidate(CheckpointFile(cand.dir))], Reference)
     ELSE "simulated"]

GateStatus(measure) == IF args.dual THEN DualStatus(measure) ELSE SingleGateStatus(measure)

(* write_feature_ae_runtime_contract, for each model that was judged: the content whose  *)
(* metrics the thresholds are taken from.                                                *)
ContractThresholds(measure) ==
  [m \in Models |-> IF (m = "model") = args.dual THEN None ELSE measure[Candidate(JudgedContent(m))]]

(* evaluate_reference_promotion_comparison, after validate_cycle_checkpoints found the files. *)
Gate ==
  /\ pc = "gate"
  /\ LET path == IF args.dual THEN GatePath ELSE ReferencePath
         entries == Evaluated(cache, Compared, path)
         measure == [r \in ToSet(Compared) |-> Measured(entries, r, path)]
     IN /\ cache' = entries
        /\ cand' = [cand EXCEPT !.status = GateStatus(measure), !.calibrated = ContractThresholds(measure)]
  /\ pc' = IF args.publish THEN "publishing" ELSE "registering"
  /\ UNCHANGED <<args, run, active, registry, alias, contracts, bucket>>

Promoted(m) == cand.status[m] = "promoted"

(* The first of the promoted models, in the order of the code, that is not in done. *)
NextPromoted(done) ==
  IF Promoted("localization") /\ "localization" \notin done THEN "localization"
  ELSE IF Promoted("classification") /\ "classification" \notin done THEN "classification"
  ELSE IF Promoted("model") /\ "model" \notin done THEN "model"
  ELSE None

BugPromotedToUpload ==
  IF cand.uploaded = {} THEN NextPromoted({}) ELSE None

PromotedToUpload == NextPromoted(cand.uploaded)

(* publish_promoted_checkpoints, one upload at a time. *)
PublishCheckpoint ==
  /\ pc = "publishing"
  /\ IF PromotedToUpload = None
     THEN pc' = "registering" /\ UNCHANGED <<bucket, cand>>
     ELSE /\ bucket' = bucket \cup {[run |-> run.number, cycle |-> cand.number,
                                     model |-> PromotedToUpload,
                                     content |-> JudgedContent(PromotedToUpload)]}
          /\ cand' = [cand EXCEPT !.uploaded = @ \cup {PromotedToUpload}]
          /\ UNCHANGED pc
  /\ UNCHANGED <<args, run, active, registry, alias, contracts, cache>>

NewVersion(m) ==
  [run |-> run.number, cycle |-> cand.number, content |-> LoggedModels(cand.dir)[m],
   judged |-> JudgedContent(m)]

(* The alias set before the version exists. *)
BugRegisterOutcomes(m) == [raises : BOOLEAN, version : {FALSE}, aliased : {TRUE}]

(* What register_run_to_model did: it may raise before or after it creates the version, *)
(* and it swallows a failure to set the alias.                                          *)
RegisterOutcomes(m) ==
  IF LoggedModels(cand.dir)[m] = None THEN {[raises |-> TRUE, version |-> FALSE, aliased |-> FALSE]}
  ELSE {[raises |-> FALSE, version |-> TRUE, aliased |-> TRUE]}
       \cup (IF "alias" \in Faults THEN {[raises |-> FALSE, version |-> TRUE, aliased |-> FALSE]} ELSE {})
       \cup (IF "mlflow" \in Faults THEN [raises : {TRUE}, version : BOOLEAN, aliased : {FALSE}] ELSE {})

(* _log_mlflow_gate_artifacts: a contract per role, whatever was promoted. *)
CycleContracts ==
  LET contract(role, m) == [run |-> run.number, cycle |-> cand.number, role |-> role,
                            calibrated |-> cand.calibrated[m]]
  IN IF args.dual THEN {contract(role, role) : role \in Roles}
     ELSE {contract("classification", "model")}

(* What tag_mlflow_promotion_evidence leaves, which swallows the exception that ends it: *)
(* the contract of localization is logged before that of classification.                 *)
EvidenceOutcomes ==
  LET partial == {{}, {c \in CycleContracts : c.role = "localization"}}
  IN {contracts \cup CycleContracts}
     \cup (IF "mlflow" \in Faults THEN {contracts \cup some : some \in partial} ELSE {})

(* register_promoted_cycle for one model and, for a role, its evidence. *)
RegisterModel ==
  /\ pc = "registering" /\ NextPromoted(cand.tried) # None
  /\ LET m == NextPromoted(cand.tried)
     IN \E o \in RegisterOutcomes(m) :
          /\ registry' = IF o.version THEN [registry EXCEPT ![m] = Append(@, NewVersion(m))]
                         ELSE registry
          /\ alias' = IF o.aliased THEN [alias EXCEPT ![m] = Len(registry[m]) + 1] ELSE alias
          /\ cand' = [cand EXCEPT !.tried = @ \cup {m}]
          /\ IF o.raises /\ args.require_registry THEN pc' = "failed" /\ UNCHANGED contracts
             ELSE /\ pc' = "registering"
                  /\ IF m = "model" THEN UNCHANGED contracts ELSE contracts' \in EvidenceOutcomes
  /\ UNCHANGED <<args, run, active, bucket, cache>>

(* The evidence of the cycle, also of one that promoted nothing. *)
RegisteringDone ==
  /\ pc = "registering" /\ NextPromoted(cand.tried) = None
  /\ contracts' \in EvidenceOutcomes
  /\ pc' = "closing"
  /\ UNCHANGED <<args, run, active, cand, registry, alias, bucket, cache>>

-----------------------------------------------------------------------------
(* The end of a cycle and of a run. *)

BugActivated(role) ==
  LET promoted == \E m \in Models : Promoted(m)
  IN IF promoted THEN Runtime(cand.number, JudgedContent(role), cand.calibrated[role])
     ELSE active[role]

(* The runtime of a role for the next events; without --dual-promotion that of localization stays. *)
Activated(role) ==
  IF Promoted(role) THEN Runtime(cand.number, JudgedContent(role), cand.calibrated[role])
  ELSE IF role = "classification" /\ Promoted("model")
       THEN Runtime(cand.number, JudgedContent("model"), cand.calibrated["model"])
  ELSE active[role]

(* What cycles.jsonl keeps of a cycle, with the rows and the count it was decided on. *)
JournalEntry ==
  [total |-> run.total, rows |-> run.next - 1, status |-> cand.status,
   judged |-> IF args.mode = "progressive-train" THEN [m \in Models |-> JudgedContent(m)]
              ELSE [m \in Models |-> None]]

BugWatermark == run.last

Watermark == run.total

(* The rest of handle_lifecycle_decision.  Entries of the copy of the reference panel are no *)
(* longer named by any key: the path is that of this cycle.                                  *)
CloseCycle ==
  /\ pc = "closing"
  /\ LET cycles == Append(run.cycles, JournalEntry)
         where == AfterLot(ReachedMaxCycles(cycles), run.lots)
     IN /\ run' = [run EXCEPT !.last = Watermark, !.cycles = cycles, !.lot = NextLot(where)]
        /\ pc' = where
  /\ active' = [role \in Roles |-> Activated(role)]
  /\ cand' = NoCycle
  /\ cache' = {e \in cache : e.path = SelectionPath}
  /\ UNCHANGED <<args, registry, alias, contracts, bucket>>

(* The end of run_cycle; the mode train-on-trigger trains first. *)
Finish ==
  /\ pc = "finishing"
  /\ IF args.mode = "train-on-trigger" /\ run.triggered
     THEN pc' = "training" /\ UNCHANGED <<run, active, cand>>
     ELSE pc' = "completed" /\ ProcessEnds
  /\ UNCHANGED <<args, registry, alias, contracts, bucket, cache>>

(* One key for every run: that of the dataset version. *)
UploadTrained ==
  /\ pc = "uploading_trained"
  /\ pc' = "completed"
  /\ bucket' = IF args.publish
               THEN {e \in bucket : e.model # "trained"}
                      \cup {[run |-> 0, cycle |-> 0, model |-> "trained",
                             content |-> CheckpointFile(cand.dir)]}
               ELSE bucket
  /\ ProcessEnds
  /\ UNCHANGED <<args, registry, alias, contracts, cache>>

(* An exception no caller handles, or a kill, at any step. *)
Abort ==
  /\ "abort" \in Faults /\ ~Idle
  /\ pc' = "failed"
  /\ cache' = {e \in cache : e.path = SelectionPath}
  /\ ProcessEnds
  /\ UNCHANGED <<args, registry, alias, contracts, bucket>>

Init ==
  /\ args = CHOOSE a \in Options : TRUE   \* not read before the first run
  /\ pc = "idle"
  /\ run = NoRun
  /\ active = [role \in Roles |-> StableRuntime]
  /\ cand = NoCycle
  /\ registry = [m \in Models |-> <<>>]
  /\ alias = [m \in Models |-> 0]
  /\ contracts = {}
  /\ bucket = {}
  /\ cache = {}

Replay == ProcessEvent \/ FinalizeLot \/ LeaveLoop \/ AfterLoop \/ FinalizeLastLot

Cycle ==
  \/ StartCycle \/ TrainEpoch \/ LogTraining \/ SelectClassification \/ Gate
  \/ PublishCheckpoint \/ RegisterModel \/ RegisteringDone \/ CloseCycle

Next == StartRun \/ Replay \/ Cycle \/ Finish \/ UploadTrained \/ Abort

Spec == Init /\ [][Next]_vars

-----------------------------------------------------------------------------
(* Properties. *)

RuntimeType == [version : Nat, content : Checkpoints, calibrated : Checkpoints]

(* The types of the variables. *)
TypeOK ==
  /\ args \in Options
  /\ pc \in {"idle", "replaying", "left", "last_lot", "cycle", "training", "selecting", "gate",
             "publishing", "registering", "closing", "finishing", "uploading_trained",
             "completed", "failed"}
  /\ run.number \in 0 .. MaxRuns /\ run.next \in 1 .. Len(Rows) + 1
  /\ run.lot \subseteq DOMAIN Rows /\ run.lots \in Seq(SUBSET DOMAIN Rows)
  /\ run.total \in Nat /\ run.last \in Nat
  /\ run.triggered \in BOOLEAN /\ run.last_lot \in BOOLEAN
  /\ active \in [Roles -> RuntimeType]
  /\ contracts \subseteq [run : 1 .. MaxRuns, cycle : Nat \ {0}, role : Roles, calibrated : Checkpoints]
  /\ cand.number \in Nat /\ cand.dir.epochs \in Seq(Checkpoints)
  /\ cand.dir.best \in [DOMAIN cand.dir.best -> DOMAIN cand.dir.epochs]
  /\ {cand.localization, cand.classification} \subseteq Checkpoints \cup {None}
  /\ \A m \in Models : /\ alias[m] \in 0 .. Len(registry[m])
                       /\ \A v \in ToSet(registry[m]) : {v.content, v.judged} \subseteq Checkpoints
  /\ \A e \in bucket \cup cache : DOMAIN e \in {{"run", "cycle", "model", "content"},
                                                {"key", "measured", "path"}}

(* A piece is counted once: the lots that were finalized do not overlap, and the count of *)
(* validated conforming pieces the rule reads is that of the pieces in them, whatever     *)
(* ended the loop and whatever cycle ran in between.  The candidate of a cycle trains on  *)
(* every piece that was counted, and besides on capped anchors only.                      *)
PiecesCountedOnce ==
  LET counted == Conforming(UNION ToSet(run.lots))
  IN /\ \A i, j \in DOMAIN run.lots : i # j => run.lots[i] \cap run.lots[j] = {}
     /\ run.total = Cardinality(counted)
     /\ pc = "training" /\ Progressive =>
          LET images == {Rows[n].image : n \in counted}
          IN /\ images \subseteq cand.manifest
             /\ cand.manifest \ images \subseteq {Anchors[n].image : n \in CappedAnchors}

(* A cycle of a natural scenario is earned by new pieces: at least interval conforming    *)
(* ones were replayed since the cycle before it.                                          *)
CyclesAreEarned ==
  args.scenario = "natural" =>
    \A i \in DOMAIN run.cycles :
      LET before == IF i = 1 THEN 0 ELSE run.cycles[i - 1].rows
      IN Cardinality(Conforming(before + 1 .. run.cycles[i].rows)) >= args.interval

(* The gate judges the files it says it judges: with metrics read from a cache that runs  *)
(* and cycles share, whose candidates have the same names, the decision is the one the    *)
(* files themselves would get.                                                            *)
GateJudgesTheFiles ==
  pc \in {"publishing", "registering", "closing"} /\ args.mode = "progressive-train" =>
    cand.status = GateStatus([r \in ToSet(Compared) |-> r.content])

(* The files of the two roles are the best epochs: no epoch that was trained is better    *)
(* for localization, or has a better image AP, than the file of the role; a file chosen   *)
(* on the selection manifest misses no more defects than an epoch the guard allows.       *)
CandidatesAreBest ==
  pc \in {"selecting", "gate"} =>
    \A n \in DOMAIN cand.dir.epochs :
      LET epoch == cand.dir.epochs[n]
          value(c, m) == IF m \in Reference.metrics THEN Reference.value[c][m] ELSE 0
      IN /\ value(cand.localization, "pixel_aupimo") >= value(epoch, "pixel_aupimo")
         /\ pc = "selecting" => value(cand.classification, "image_ap") >= value(epoch, "image_ap")
         /\ pc = "gate" /\ args.selection_manifest
              /\ GoodRedOk(args, active.classification.content, epoch, Selection)
            => FalseNegatives(cand.classification, Selection) <= FalseNegatives(epoch, Selection)

(* A registered version was uploaded first: what the registry gained from a run that      *)
(* publishes is in the bucket, at the key of its cycle and role, whatever call failed.    *)
RegisteredArePublished ==
  \A m \in Models : \A v \in ToSet(registry[m]) :
    v.run = run.number /\ args.publish =>
      [run |-> v.run, cycle |-> v.cycle, model |-> m, content |-> v.judged] \in bucket

(* The model a run replays with is the one its journal says was promoted last for the     *)
(* role, also when a cycle promoted only the other role, and its thresholds were          *)
(* calibrated on the scores of that very file.  Only a model the run loaded from the      *)
(* registry may decide with the thresholds of another: when the evidence of its cycle     *)
(* never reached MLflow, or the version holds another file than the one judged.           *)
RuntimeIsJournaled ==
  pc \in {"replaying", "left", "last_lot", "finishing", "completed"} =>
    \A role \in Roles :
      LET models == IF role = "classification" THEN {role, "model"} ELSE {role}
          by == {b \in (DOMAIN run.cycles) \X models : run.cycles[b[1]].status[b[2]] = "promoted"}
          content(b) == run.cycles[b[1]].judged[b[2]]
          loaded(v, r) == v.cycle = active[role].version /\ v.content = active[role].content
                          /\ (v.content # v.judged
                              \/ ~\E c \in contracts : c.run = v.run /\ c.cycle = v.cycle /\ c.role = r)
      IN /\ \A b \in by : (\A c \in by : c[1] <= b[1]) =>
              active[role] = Runtime(b[1], content(b), content(b))
         /\ active[role].calibrated # active[role].content =>
              by = {} /\ \E r \in Roles : \E v \in ToSet(registry[r]) : loaded(v, r)

(* Is new a better model for the role than old, on the reference panel? *)
BetterForRole(role, new, old) ==
  IF role = "classification" THEN FalseNegatives(new, Reference) < FalseNegatives(old, Reference)
  ELSE Improves(MetricDelta(old, new, Reference, LocalizationMetrics), 0)

(* The alias of a role never moves to a worse model: when runs start from the registry    *)
(* and require it, a version takes the alias from one that misses more defects (or        *)
(* localizes less well), over any number of cycles and runs, failed ones included.        *)
AliasImproves ==
  [][\A role \in Roles :
       /\ alias'[role] # alias[role] /\ alias[role] # 0
       /\ args.from_registry /\ args.require_registry
       /\ args.dual /\ args.require_fn_improvement /\ ~args.selection_manifest
       => BetterForRole(role, registry'[role][alias'[role]].content,
                        registry[role][alias[role]].content)]_vars

(* docs/scenario-drift-piece-a-p4.md: the MLflow registry is the source of truth for the  *)
(* promoted models.  The model a version holds is the checkpoint the gate promoted.       *)
RegistryHoldsTheJudged ==
  \A m \in Models : \A v \in ToSet(registry[m]) : v.content = v.judged
=============================================================================

# A TLA+ model of IQA

IQA inspects industrial pieces: an API predicts whether a piece is defective,
collects feedback on its predictions, and from that feedback a lifecycle
retrains, gates and promotes models. This directory holds TLA+ modules that
model that program, the TLC configurations that check them on small instances,
and proofs that TLAPS checks for every instance.

Paths below are relative to the root of the repository (`src/iqa/...` is the
Python package); PROJECT.json prefixes them with `src/`, the directory that
holds the repository.

## Inventory

Part | State it keeps | Operations | Interacts with | What is hard | Modelled
--- | --- | --- | --- | --- | ---
Prediction and feedback handlers (`src/iqa/api/main.py` 932-1373) | PREDICTION_STORE, FEEDBACK_STORE, DISPLAY_FEEDBACK_STORE, INCIDENT_STORE | `/predict`, `/piece-events/{id}/predict`, `/feedback` | inference service, metadata repository | worker threads without locks; database and dictionaries updated one after the other; lost replies; restarts | `Feedback`
Metadata repository (`src/iqa/metadata/`) | PostgreSQL tables, or nothing at all (memory backend) | upserts and reads, each its own transaction; one closing transaction over two tables | API, collector | upserts never test what they overwrite | what the modelled parts use
History, lots, incidents readers (`main.py` 1376-1526, 2360-2370) | refresh the same dictionaries | `/predictions`, `/lots/summary`, `/metrics`, `/incidents` | repository | rows torn over several transactions, stale rows written back, iteration during insertion | `PredictionHistory`
Lifecycle signal collector (`src/iqa/monitoring/`) | `lifecycle_trigger_events` journal | one poll: read four tables, decide, journal | repository, Airflow | reads at different moments; the journal precedes the launch | `LifecycleSignal`
DAG `iqa_lifecycle_trigger` (`airflow/dags/`) | the polling run | collect, gate, launch, every hour | collector, DAG `iqa_lifecycle` | no retries; a failure between journal and launch | `LifecycleSignal`
Application lifecycle runner (`scripts/run_replay_lifecycle_cycle.py`) | lots, watermark of conforming pieces, cycles, active models, metric cache | replay, finalise a lot, train, select, gate, publish, register | training, MLflow, bucket, API observability | long sequences, limits on events, lots and cycles, a shared cache, calls that fail half-way, the next run reading what this one left | `LifecycleRunner`
Training and its evaluation (`src/iqa/training/`) | the files of a run directory | save an epoch, keep the best of each metric, stop early, log models | runner, MLflow | which file stands for which role | `FeatureAETraining`, `GateEvaluation`
Promotion, gates, rollback (`src/iqa/promotion/`, `src/iqa/dags/lifecycle_tasks.py`) | MLflow aliases candidate, test, prod, previous_prod, archived | save previous prod, gate, transition, rollback; the tasks are run by no DAG | registry | several calls, each may fail before or after its effect; rollback beside a promotion | `Promotion`, `ModelAliases`
Inference service (`src/iqa/inference/`) | the active runtime | predict on a snapshot; reload: resolve, load, swap | registry, API | reloads finish out of order; restart forgets; caller times out | `ModelServing`
Admin reload of the API (`main.py` 2426-2586) | audit log | reload through the inference service | inference service | the audit may say failed while the swap happens, or say nothing | `ModelServing`
Drift observation and correction (`scripts/run_drift_observation_replay.py`, `airflow/dags/iqa_drift_*.py`) | windows, confirmation, context manifests | observe, gate, correct | API observability, runner | confirmation carried from window to window; two DAGs and a container with a timeout | `DriftWindows`, `DriftCorrection`
Lifecycle and drift observability (`main.py` 1699-2287) | LIFECYCLE_STATE, DRIFT_STATE | pushed events, `/metrics` | runners, observation | one global state for all runs, changed by worker threads without a lock; events lost, slow or repeated | `Observability`
GPU lock (`src/iqa/runtime/gpu_lock.py`) | a file lock and the owner text | acquire, blocking or not, release | trainer, inference demo | waiting at startup and before a correction | in `DriftCorrection`
Dataset scripts (`scripts/build_*.py`, `scripts/prepare_*.py`) | manifests on disk | split, gate, scenarios, drift plan, context | runner, observation | rounding, repeated events, files of several builds, files cut by a kill | `Splits`, `Datasets`
Replay runs (`src/iqa/replay/runs.py`) | a cursor per run | create, next, reset | API | unlocked read and increment; lost at a restart | no
ROI and Feature-AE pipelines, drift baseline, candidate filter, defect coverage, storage, ingestion, tools, dashboards, deployment | files and tensors | | | numeric or pure input and output | no

### What makes each part correct

* Handlers: a prediction is closed once, its feedback and its closing agree,
  what a client was told survives, the dictionaries never show more than the
  tables, a human feedback never decides eligibility but is logged as a conflict,
  an accepted defective piece raises an incident.
* History readers: an answer is not older than its request, and what a reader writes
  back to the dictionaries never misleads a handler.
* Collector and its DAG: evidence launches the lifecycle once; only validated
  pieces count; enough of them are acted on; a positive decision launches.
* Promotion: prod only moves to versions that passed the gates or were put there by
  hand; what a rollback restores was in production before.
* Inference: what serves was in production and is whole; a prediction uses one
  model, and is recorded under it; the audit log claims no reload that did not happen.
* Runner: every conforming piece counts once; a cycle is earned by new pieces; the
  gate judges the files of the candidate; the runtime is what the journal says was
  promoted, with its own thresholds; the alias of a role never gets worse.
* Drift: it is confirmed by evidence only; a confirmed drift is corrected to the end.
* Observability: a decision counts once, while events do not overlap; an undisturbed run is shown
  as it is.
* Datasets: no piece of a panel is trained on, but the P4 rows of a correction; panels stand for
  the production they come from; a drift plan carries its signal.

## Modules

Module | Models
--- | ---
`Feedback` | the handlers over both stores, threads, faults
`FeedbackLedger` | the abstract promise of `docs/feedback_rules.md`
`FeedbackRefinement` | the mapping from the tables to the ledger
`MCFeedback` | symmetry for TLC
`FeedbackProofs` | types, closures, durability, row history, late and human feedback, incidents, and the ledger for one handler at a time, proved
`PredictionHistory` | the readers of the history beside the handlers (extends `Feedback`)
`PredictionHistoryProofs` | that an answer is current, and that readers break nothing of the handlers, proved
`LifecycleSignal` | the collector, its rule, its journal and the DAG branch around it
`LifecycleSignalProofs` | its types and its safety properties, proved
`GateEvaluation` | thresholds, decision metrics, gates and the choice of a checkpoint, as operators over given scores
`FeatureAETraining` | the files of a training and which stands for which role (extends `GateEvaluation`)
`LifecycleRunner` | runs of the lifecycle runner, with registry, bucket and cache (extends `FeatureAETraining`)
`LifecycleRunnerProofs` | its types, its safety properties and the action property of the aliases, proved
`Promotion` | the lifecycle tasks as a chain, their gates, aliases and rollback
`ModelAliases` | the abstract promise of `docs/gates.md` and `docs/rollback.md`
`ModelServing` | inference service and API beside `Promotion`, which it extends; implements `ModelAliases`
`ModelServingProofs` | its types, its safety properties and the refinement, proved
`Observability` | what an event does to the state of the API, whole and step by step, as operators
`DriftWindows` | selection of rows and judgement of windows, as operators
`DriftCorrection` | observation, correction, GPU and API composed (extends both)
`DriftCorrectionProofs` | its types and its safety properties, proved
`Splits` | how the dataset scripts choose rows, as operators
`SplitsProofs` | what those operators return, for every input, proved
`Datasets` | the scripts as an operator runs them (extends `Splits`)
`DatasetsProofs` | its safety properties, proved
`MCPredictionHistory`, `MCLifecycleRunner`, `MCModelServing`, `MCDriftCorrection`, `MCDatasets` | instances for TLC

Definitions named `Bug...` stand just before the definition they vary. Each is
the code with one plausible mistake (a dropped guard, a write made best effort, a
stale read). Putting it in place of the definition makes TLC find the property
named in PROJECT.json violated: it shows that the property depends on the code.

### Feedback

FastAPI runs the handlers in a pool of threads, so a request is a sequence of
steps of one thread: one per repository call, which opens its own connection and
is one transaction, and one for the dictionary updates up to the next call.
`req[t]` holds the local variables. The closing writes two tables
(`save_feedback_and_close_prediction`); PostgreSQL orders two such transactions
on one prediction by the row of `feedback_events` they both upsert first, so
`WriteClosing` is one step.

Step of the code | Action
--- | ---
inference answered, uuid drawn, record built | `Predict`
`save_prediction`, then the dictionary | `SavePrediction`, `StorePrediction`
a feedback arrives | `SubmitOracle`, `SubmitHuman`
`get_prediction` | `Lookup`
the four outcomes of `_get_open_prediction_for_feedback`, each with the refresh of the dictionary that precedes it | `RefuseUnknown`, `RefuseMismatch`, `RefuseClosed`, `Admit`
human: `save_display_feedback`, then the dictionary and the answer | `SaveDisplay`, `StoreDisplay`
oracle: `get_display_feedback`, then the dictionary | `ReadDisplay`, `RefreshDisplay`
oracle: the closing transaction | `Close`
oracle: `prediction.update`, dictionary, incidents, answer | `StoreFeedback`
a call fails, 503 | `CallFails`
the commit took effect and its reply was lost, 503 | `ReplyLost`
the process ends and starts again | `Restart`

`prediction.update(...)` changes the object that the lookup put in
PREDICTION_STORE. If another request has replaced that object since, the update
reaches nobody: the field `shared` says whether the request still holds the very
object. A closing is stamped with its thread, which stands for `closed_at`.
`issued`, `answered`, `closings`, `interrupted` and the fields `after_close` and
`after_human` are history: they record what happened for the properties and no
guard but the freshness of uuid4 reads them. `interrupted` holds the closings whose
reply was lost and, from a restart on, all that were written before it, also those whose handler
had finished: `EscapesAreRaised` asks nothing of them.

Runs:

* `feedback_concurrent`: two threads, one prediction, two identities (a match and
  a mismatch), both backends, every fault. Two handlers are what a race needs,
  and predictions never touch one another's rows, so one is enough for races;
  symmetry over threads, predictions and identities is sound because no
  definition orders them. It checks the type invariant; `ClosureAgreement`;
  `StoresBehindTables`; `AnswersAreDurable`; `LateFeedbackRejected`, the 409 as
  non-overlapping clients see it, on both backends; `EarlierHumanIsLogged`;
  `EscapesAreRaised`; and the action property `RowsOnlyClose`. Decisions and
  statuses are one value each here: the reasons they lead to are covered below.
* `feedback_serial`: one handler at a time beside the reader of `PredictionHistory`, one
  prediction, three statuses (one of a blocking reason, one shadowed by a defect, one that
  raises an incident), both backends, every fault. The tables implement `FeedbackLedger`
  (`RefinesLedger`) and `ClosedOnlyOnce` holds, although the reader puts records it listed
  earlier in the dictionary the handler tests.
* `feedback_overlap` finds `ClosedOnlyOnce` violated by two overlapping oracle
  feedbacks, without a fault. `docs/feedback_rules.md:59` says that a prediction can
  be closed only once. The closed flag is tested on a row read in one transaction
  and set in another, whose upserts do not test it. Both clients get 200 and the
  later closing overwrites the verdict and the eligibility of the earlier.

No fairness is assumed: all properties are safety properties, and a handler is
allowed to stop anywhere. Deadlock is checked: the system never stops, because a
feedback can always be submitted.

### PredictionHistory

`/predictions`, `/lots/summary` and the filtered lines of `/metrics` all start with
`_prediction_rows`. Its steps are `ListPredictions` (one transaction), `StoreListed` (each
record becomes the object of PREDICTION_STORE), `MergeStore` (what only the dictionary has;
the loop raises when a handler inserted a key meanwhile), and for each prediction
`ReadFeedback`, `RefreshFeedback`, `ReadDisplayFeedback` and `AppendRow`; `AnswerHistory` ends
it, `ReadFails` is the 503. A record that was listed or found is a Python object that
handlers may hold too: `holders` names who does, so that `prediction.update(...)` of a
handler reaches the row of the reader exactly when it is the same object (`RecordAfter`,
`HoldersAfter`). The handlers are the unchanged actions of `Feedback`.

The run is `feedback_serial`. `HistoryIsCurrent`: everything stored, and everything closed, when
the request arrived is shown so, although reader and handler overwrite one another's records,
calls fail and the process restarts. One reader at a time: two of them meet only in the
dictionaries, which a reader and the refresh of a handler write in the same way. One handler is
enough for what the reader meets: it may take every step between any two of the reader. The
theorem `HistoryStaysCurrent` needs no such argument: it holds for any number of handlers.

A row is not a snapshot: the record is listed in one transaction and the feedback read in a
later one, so that a closing in between gives a row with a verdict, hence a divergence in the
lot, that says open. `HistoryIsCurrent` leaves that out, and no property asks for it.

### LifecycleSignal

One scenario and one branch of the DAG. The tables are written by
`SavePrediction`, `SaveFeedback` and `SaveDrift`; a poll goes through
`ListPredictions`, `ReadJournal`, one `ReadFeedback` per new prediction,
`ReadDrift`, `RecordDecision`, then `Skip` or `Launch`; `Fail` ends it anywhere. The
journal is the table `lifecycle_trigger_events`, keyed by the hash of what was
seen: the model keys it by the dictionary that is hashed (a hash without
collisions). Only `max_active_runs=1` orders the polls.

`SaveFeedback` is the upsert it is: a row that is there is written again with whatever verdict
and eligibility a handler computed, which handlers that overlap do (finding of `feedback_overlap`).
`MaxOverwrites` bounds how often. So a piece that a decision counted may be judged anew and be
ineligible by the time the decision is journaled, or later. What holds is weaker:
`ConsumedWereEligible`, each piece was eligible at some moment of the poll that counted it.

Nothing under `src/iqa` writes `scenario_version_events` during a poll, so
`SaveDrift` takes its inputs from what the upsert allows: new observations in any
order, and revisions of old ones.

Runs:

* `signal_natural`: three predictions and a threshold of two, so that one piece is
  left over, a poll can meet one, two or three new pieces, and the pieces that one
  decision consumed are seen again by the next; one failed poll, and one feedback written again,
  before, during or after a poll that read it (460 000 states). It checks
  `PiecesAreConsumedOnce` (`docs/model-lifecycle.md:67-69`), `ConsumedWereEligible` and, under
  fairness, `EnoughPiecesAreConsumed`.
* `signal_drift`: two observations that may be revised, one prediction, one failed poll, no
  feedback written again (no rule of the scenario reads it; 350 000 states):
  `EvidenceLaunchesOnce`, `DecisionsAreFinal` (the upsert never rewrites an earlier decision) and,
  under fairness, `LatestDriftIsConsumed`.
* `signal_lost` finds `PositiveDecisionsLaunch` violated: the collector commits the
  consumption before the launch it stands for, the DAG has no retries, and a
  failure in between loses the launch for good.

Fairness: `WF_vars(Collect)`. The DAG is scheduled `@hourly` and Airflow starts each
task when the previous one has ended, so a poll that can go on goes on. The writers
and `Fail` have none: nobody has to send pieces. Failed polls are bounded by
`MaxFailures`; a collector that fails for ever acts on nothing, whatever the code
says. Bounds: `MaxPredictions`, `MaxDrifts`, `MaxFailures`, `MaxOverwrites` (liveness needs that the
overwrites end: a piece whose verdict changes for ever need never count). `RoiWindow` is smaller than
the number of predictions in `signal_natural` so that the window moves.

### LifecycleRunner

One run of `run_cycle` after another: `gpu_lock` keeps two from overlapping, so a run is
sequential and what is hard is the length of its sequences and what it leaves for
the next run. A run may end at any step (`Abort`).

Step of the code | Action
--- | ---
parse options, rows, preflight, initial models from the registry | `StartRun`
one row of the plan joins the lot | `ProcessEvent`
a lot ends, it is counted and the rule is asked | `FinalizeLot`, `FinalizeLastLot`
the loop ends; is the last lot still to be finalised? | `LeaveLoop`, `AfterLoop`
training manifest of a cycle | `StartCycle`
one epoch: save, evaluate, keep the best files | `TrainEpoch`
models are logged, files of the roles resolved | `LogTraining`
`select_classification_candidate_checkpoint` | `SelectClassification`
comparison on the reference or selection panel, with cached metrics | `Gate`
one upload | `PublishCheckpoint`
one registration with its alias and its evidence | `RegisterModel`
the evidence of the cycle | `RegisteringDone`
runtimes, journal, watermark | `CloseCycle`
end of a run, and the mode that trains only then | `Finish`, `UploadTrained`

A checkpoint is known by its content, and its scores on the panels are constants
(`Score`, `Reference`, `Selection`): thresholds, false negatives and red rates are
computed from them as the code does, by interpolated quantiles, so the gates decide
on numbers and not on a free choice. Training is the free choice: an epoch may
produce any content. A metric evaluation goes through the cache: `MetricCacheKey`
is what the code hashes, `measured` the content that was scored.

A runtime is `[version, content, calibrated]`, `calibrated` being the content whose
scores gave its thresholds. It is found again through the runtime contract that the
evidence of a cycle logs to MLflow (`contracts`); a failure there is swallowed.
`RegisteredRuntime` takes the thresholds of another model when no contract is found,
as the code does.

Runs:

* `runner_promotion`: at most two runs of any of ten command lines (natural, from the
  registry, the drift correction as its DAG starts it, a cycle per lot, without
  `--dual-promotion`, `train-on-trigger`, and those that train nothing); three
  contents, of which one is better for one role and worse for the other; three
  epochs with a patience of one, so that early stopping cuts some trainings; four
  rows, of which three conform, and an interval of two, so that a lot may trigger, or
  only the last one; every fault. It checks `PiecesCountedOnce`, `CyclesAreEarned`,
  `GateJudgesTheFiles`, `CandidatesAreBest`, `RegisteredArePublished`,
  `RuntimeIsJournaled` and the action property `AliasImproves`. Two runs are what
  sharing needs: a third would meet the same registry, bucket and cache. The action
  constraint `SecondRunReadsTheFirst` keeps the pairs of runs that share something: a
  correction after a correction (the cache of the selection panel), and a run from
  the registry after each run that registers models of two roles.
* `runner_registry` finds `RegistryHoldsTheJudged` violated by the drift correction
  alone: the model of classification is logged from `checkpoint_best_image.pt`, the
  gate judges the epoch chosen on the selection manifest, and the logged one is
  registered. `docs/scenario-drift-piece-a-p4.md:147` calls the registry the source of
  truth of the promoted models.

`AliasImproves` is restricted to runs that start from the registry and require it, with
`--dual-promotion`, `--require-fn-improvement` and no selection manifest. Each is needed:
without the registry a run compares with the bootstrap, without the third a recall or
AP gain suffices, and with the last the panel is another and the version may hold
another file. `max_lots` is None in every command line: with it the lot that ends the
loop is finalised twice and `PiecesCountedOnce` fails; nothing in the repository sets it
in a mode that trains. Runs are bounded, so `CHECK_DEADLOCK FALSE`; no fairness is
assumed.

### ModelServing, Promotion, ModelAliases

`Promotion` is the tasks of `lifecycle_tasks.py`, chained as each reads the result of the one
before, one action per task, the promotion task split at its calls to MLflow (`SavePreviousProd`,
`SavePreviousAlias`, `Promote`, `ResolveArtifacts`), and `rollback_model` split at its three. A call
that fails raises before or after its effect (`Calls`), and a task that raised ends the chain:
nothing retries it. Beside it operators register bundles and roll back.

No DAG wires these tasks: `tests/airflow/test_airflow_dags.py` asserts that the DAGs do not use
them, and only tests call them. Executed, `task_dataset` raises: it calls
`iter_manifest_image_samples` with two arguments (`lifecycle_tasks.py:108`) and the function takes
one (`datasets/casting.py:129`); the tests replace it. `TaskDataset` therefore always raises. What
follows is reached as the tests reach it, by a caller that has the result of `task_dataset` from
elsewhere and starts at the training (`SupplyDataset`). What the runs show of gates and aliases is
thus about functions the repository offers, and not about a schedule it runs. In the
chain the gate on the regression of AP is never evaluated: it needs `prod_ap`, which `task_eval`
does not return (`ProdAp`).

`ModelServing` adds the inference service and two endpoints of the API. A reload is `AskReload`,
`ResolveModel` (the alias is read), `LoadModel` (download, checks and the swap under the lock:
between them nothing shared is read) or `LoadFails`, then `AnswerReload`, which may be a timeout
at any moment, or a connection that breaks before the whole answer is read:
`_call_inference_reload` makes an `HTTPException`, which is audited, of an HTTP error, a timeout
and a `URLError`, and lets the others end the request (`"broken"`, without an entry). A prediction
is `AskPrediction`, `StartPrediction` (the snapshot), `Decide` or `PredictFails`, then
`RecordPrediction` or `RefusePrediction`; what is recorded afterwards is `Feedback`'s `Predict`.
`RestartInference` forgets the runtime and the calls under way. `swapped` and `was_prod` are
history.

Runs:

* `serving`: one chain, one rollback, two reloads, one prediction, one restart, two versions, all
  faults, from an empty registry or one that has a bundle in production (1.16 million states). The
  alias rules (`AliasesSpec`): `ModelServing` implements `ModelAliases`, whose `approved` are the
  versions whose metrics meet the gates or that were registered by hand. Then `ServedWasProd`,
  `PredictionIsOneVersion`, `ReloadedWasSwapped` and, under fairness, `ReloadIsAudited`: a reload
  that was sent ends, with its entry or with a broken connection. The converse of
  `ReloadedWasSwapped` fails, as the code intends: after a timeout the audit says failed and the
  service may still swap. The constraint `FewEvents` keeps two reloads, restarts and predictions
  away from a run of the chain: what they meet of it is the aliases, which rollback and
  registration move too.
* `serving_broken` finds `AcceptedReloadsAreAudited` violated with one reload of a bundle
  registered by hand: the service swaps, the connection breaks, and the audit log has no entry for
  a reload that was carried out. `docs/ai_security_governance.md:124` says "Accepted reloads are
  audited".

Fairness: `WF_vars(AnswerReload(r))`, because `urlopen` is given a timeout: a call that was
made returns. Nothing else is fair. Chains and rollbacks are bounded, hence
`CHECK_DEADLOCK FALSE`. The three gates are compared in hundredths and milliseconds over
three evaluations: one at every threshold, one below the recall, one above the latency.

### DriftCorrection, DriftWindows, Observability

`Observability` is the function from state and event to state that
`_record_lifecycle_observation` is, in its order: reset, labels, phase, promotions, models,
end (`Recorded`). The endpoint is a sync handler: each event has a worker thread, and none takes
a lock. `NextStep` and `StepOf` cut the same function into the steps between which other
threads may run: the reset up to `promotion_seen` and the rest of it, labels and phase, the test
for decisions not seen, marking them, counting them, models, end. `DriftWindows` selects rows and
judges windows with the arithmetic of the scripts.

`DriftCorrection` composes them: `StartObservation`, `FinalizeWindow` (judge, append, push),
`FinishObservation`, the gate that queues the correction, `StartTask`, `AcquireGpu`
(`--wait-for-gpu`), the runner from one push to the next (`PushStep`, `Replay`, `Compare`,
`Activate`, `Release`), `Raise` and `PushFailure`, `TimeOut`, `FailureCallback`, and beside it
`StartManualRun`, `KillManualRun`, `StartDemo`, `StopDemo`, `RestartApi`. What decides the statuses
of a cycle is in `LifecycleRunner`; here `Outcomes` gives them. Both runs are in mode
progressive-train, that of the correction's command line and of a run that promotes as it goes.

A lifecycle event that is pushed is applied, lost, or slow (`Push`). A slow one has a thread of the
API that begins when it likes and goes step by step (`HandleLate`) beside the sender, which waits or
timed out, and beside whoever else pushes. The window pushes of the observation may be lost, or
time out and be applied after later ones (`ApplyLateDrift`). What the model still assumes of the
threads: an event that is not slow is applied with no step of another in between; the two roles of
an event take a step together; reading and writing a counter is one step (where it is not, a
count is lost between two threads that overlap, of which no property speaks).

With `--dual-promotion` the gates give each role a status. Without it (the default of the script,
and the manual run of the instance) one gate decides, the statuses pushed are `simulated` for both
roles (`run_replay_lifecycle_cycle.py:1835-1836`), and the model the run classifies with may be
replaced all the same (`RuntimesAfter`). The versions of such a run are shown right from the next
cycle's first event on and at the end, and between cycles they are the old ones:
`UndisturbedRunIsShown` does not speak of the versions there.

Run `drift_correction`: eight stable and eleven P4 rows in windows of five, so that a window of
the whole selection is 40 % P4 and others are mixed, pure or partial; two windows to confirm, as
in `configs/monitoring_thresholds.yaml`; five command lines, among them that of the DAG; a
correction of up to two cycles with `--dual-promotion`, each with every mixture of a promoted and
a rejected role, and a manual run of one without; two epochs; one fault among pushes, restarts,
exceptions and kills (time-outs are not counted); 750 000 states. One fault is what the properties
are stated for: each says what one disturbance may not do, and two add none that one does not
show; the theorems allow any number. Demo and manual run start after the observation, which never
takes the lock (`AfterObservation`).

It checks `CountedOnce`, `UndisturbedRunIsShown`, `ConfirmedByEvidence` and
`CorrectionEnds`. `CountedOnce` says that lost, slow and repeated events, a restart and a failure
never make a decision count twice. It holds as long as two threads were not in the middle of
their events at once (`overlapped`, history): when they were, both may find a decision unseen and
count it, or one may count what the other has just emptied `promotion_seen` of. Nothing in the
repository says otherwise, so this is a limit of the property and not a finding. `heard` is history
too: the run whose events were all applied so far, in order and alone.

Fairness: `GateOnConfirmedDrift`, `StartTask`, `TimeOut` and `FailureCallback`. Airflow starts
a task whose predecessor is done, enforces `execution_timeout`, and calls the callback.
None on the runner, the demo or the manual run: a run may hang, and the lock may be held for
ever, so the correction ends by its timeout if not otherwise.

### Datasets, Splits

`Splits` translates the selections: rows are `<<piece, view>>`, a piece a number in the
order the scripts sort by. Sorting (`Ordered`) and comprehensions with a condition (`Keep`)
are written without recursion, as the places the kept or sorted elements take, so that the
proofs can reason about them. An event has a number of images (`ImagesOf`): gate v2 takes the events
of one image first. Remainders are exact integers; `good_targets` subtracts floats, so that two
classes whose remainders are equal may be ordered by an error of the last bit (`Targets`). Which of
the two then gets the row changes nothing the properties say.

`Datasets` runs the scripts: each reads, computes, then writes file by file (`Write`), and the
scenario scripts end with `UpsertScenario`, which rewrites `replay_scenarios.csv`. A file is
truncated when it is opened and then filled row by row, so a script that is killed (`Kill`) leaves
the files it has written, one that is cut (`Torn`) and the old ones; or a catalogue that has lost
its last scenarios. A later script that finds rows in a cut file goes on as if it were whole
(`BuildFromTorn`): what it writes is `Torn` too, and nothing is promised of it. `made` says with
which arguments the files of a script were last completely written from whole inputs, which is
when the properties speak of them. Nothing modelled reads the catalogue.

Run `datasets`: fourteen pieces of three kinds and classes, sixteen labellings of them (the
defective ones are any of three pieces, alone or with two others), three totals, three plans,
three scripts in a row: the longest chain of scripts that read one another is full scenario, plan,
observation (230 000 states). `PanelsHeldOut`, `PanelIsRepresentative` (the exact share within one
row; it speaks of sources with a good row and of totals they can fill, `good_targets` divides by
the number of good rows), `PlanCarriesDrift`. The three are proved too.

`PanelsHeldOut` does not say that a correction is judged on pieces it was not trained on: of its
Piece B anchors it does, but its P4 rows are in the manifest it trains on and on the panel that
judges it, both (`run_drift_observation_replay.py:262-272`, `531`).

`PlanCarriesDrift` asserts a baseline of whole windows, as the code and the docstring of
`_balanced_piece_b_baseline_rows` have it ("trim to a complete observation window so P4 starts on a
clean boundary"). The docstring of `_ordered_p4_rows_for_drift_detection`
(`prepare_piece_b_to_piece_a_p4_drift_scenario.py:237-239`) disagrees: there the baseline "currently
has 372 events" and the first drift window is 12 Piece B events and 18 P4 events. With windows of 30,
which it speaks of, the code trims 372 to 360, and the first drift window is P4 only.

A killed or finished operator may do nothing more: `CHECK_DEADLOCK FALSE`.

## Proofs

TLAPS proves, for any sets of threads, predictions, identities, decisions and
statuses and any faults, from the named assumptions of `Feedback` (the constants
are subsets of what the schemas allow, `None` is not a member of any of them):

Theorem | Says
--- | ---
`TypeCorrect` | `Spec => []TypeOK`
`ClosuresAgree` | `Spec => []ClosureAgreement`
`RowsOnlyEverClose` | `Spec => RowsOnlyClose`
`StoresStayBehind` | `Spec => []StoresBehindTables`
`AnswersStayDurable` | `Spec => []AnswersAreDurable`
`LateFeedbackIsRejected` | `Spec => []LateFeedbackRejected`
`EarlierHumansAreLogged` | `Spec => []EarlierHumanIsLogged`
`EscapesAreAlwaysRaised` | `Spec => []EscapesAreRaised`
`SerialClosesOnce` | `OneThread` implies `Spec => []ClosedOnlyOnce`
`SerialRefinesLedger` | `OneThread` implies `Spec => RefinesLedger`

The arguments, and why the properties are not inductive as they stand:

* `TypeInv` adds to `TypeOK` which local variables are set at which step (a request
  past the lookup has a prediction id; one that writes a record has the record).
  Without it `EXCEPT ![p]` with `p = None` would escape the types.
* `ClosureInv` adds `FreshIds`: an id that a handler is about to save for the first
  time is drawn, held by no other handler that saves, and has no row in any table.
  This is what forbids the upsert of `SavePrediction` to reopen a row, the point on
  which both `ClosureAgreement` and `RowsOnlyClose` turn.
* `DurableInv` adds `RequestDurable`: what a request holds (the record it read, the
  closing or display row it wrote) is already in the tables at the steps that copy it
  to a dictionary. The lemma `DurabilityKept` shows once that a step in which
  dictionaries and answers gain only such facts, and tables only grow, keeps the
  invariant; each action is then an instance of it.

* `AnswersInv` says what a request sent after an answer may find. With PostgreSQL that is
  what `DurableInv` says of the tables. Without, the dictionaries are the only record, and
  `MemoryInv` is needed: an id is stored once, a handler past the lookup holds the very
  object of the dictionary (so that `prediction.update` reaches it), and what was answered
  is stored.
* `EscapeInv`: the record a handler judges has the decision of the row, and a row closed by
  a thread that still has to raise the incident holds the verdict of that thread. A later
  closing overwrites both at once, so that the incident in question is always that of the
  last one.
* `SerialInv`, under the hypothesis `OneThread` (all threads are one): what the handler read
  is still what the table says, so the upserts find an open row, and `closings` counts rows.
  `feedback_overlap` shows that the hypothesis is needed. The refinement then maps each step
  to `FeedbackLedger` (`LedgerAssumption`: `None` is neither an opened
  prediction nor a reason that blocks training).

For `PredictionHistory`, beside any number of handlers, from the assumptions of `Feedback` and
`HistoryAssumption` (`None` is neither a decision nor a verdict, or a row could not be told from
a missing one):

Theorem | Says
--- | ---
`HistoryStaysCurrent` | `HSpec => []HistoryIsCurrent`
`ReadersBreakNothing` | `HSpec => []` every state property of the handlers that `Feedback` proves for `Spec`
`ReadersReopenNothing` | `HSpec => RowsOnlyClose`
`SerialHistoryClosesOnce` | `OneThread` implies `HSpec => []ClosedOnlyOnce`
`SerialHistoryRefinesLedger` | `OneThread` implies `HSpec => RefinesLedger`

* `ReaderInv` follows the reader from the request to the answer. What was stored and closed
  when the request came still is (`StillStored`): with PostgreSQL because the tables only
  grow, without because the dictionaries do. Hence the records in hand hold every prediction
  known and show each one judged as closed (`RecordsCurrent`), the feedback in hand is there
  for each one judged (`FeedbackCurrent`), and what is no longer to be read has its row
  (`RowsCurrent`). `RecordsOnlyClose` says what a handler may do to an object that the reader
  holds; whoever else holds it does not matter for these properties, so `holders` is in no
  invariant but the types.
* A reader is harmless to the handlers because of what it brings. With PostgreSQL every record
  in hand has the decision of its row and is closed only if the row is (`ReadsTables`), which is
  all that `DurableInv` and `EscapeInv` ask of the dictionaries. Without, it brings nothing
  (`ReadsMemory`): then the dictionaries are the only record, and one stale object
  written back would reopen a prediction. `ReaderWrites` names what a reader may write, and the
  inductive steps of `Feedback` are lemmas (`ClosureInvKept`, `DurableInvKept`,
  `AnswersInvKept`, `EscapeInvKept`, `SerialInvKept`) that both specifications use.

For `LifecycleSignal`, with any numbers of predictions, drift observations, failed polls and
feedbacks written again, any window and threshold (the five named assumptions of the module):

Theorem | Says
--- | ---
`SignalTypeCorrect` | `Spec => []TypeOK`
`DecisionsStay` | `Spec => DecisionsAreFinal`
`PiecesAreConsumedAtMostOnce` | `Spec => []PiecesAreConsumedOnce`
`CountedPiecesWereEligible` | `Spec => []ConsumedWereEligible`
`EvidenceLaunchesAtMostOnce` | `Spec => []EvidenceLaunchesOnce`

* `Determined`: what an event says follows from its id. An upsert that meets a row of
  the same id would store the row it finds (`SameIdSameDecision`), so the journal only
  grows (`JournalGrows`).
* `PollInv`: what the poll read of the journal stays current, because only the poll
  itself writes it; the candidates were eligible during the poll and no positive decision holds them;
  a decision at the gate is in the journal. This is where `max_active_runs=1` is
  needed: with two polls, the second could record after the first and consume the
  same pieces.
* `LaunchInv` and `DriftLaunchInv`: what was launched is in the journal, and what
  is at the gate has not been launched. A count of launches alone is not inductive.

For `Promotion` and `ModelServing`, with any numbers of reloads, predictions, versions,
runs of the chain, rollbacks and restarts (`PromotionAssumption`,
`GatesAssumption`: a run promotes to test, prod or archived, metrics and thresholds are
numbers, and the thresholds of recall and latency are at least as strict as those of
`configs/promotion_gates.yaml`, which the abstract promise names):

Theorem | Says
--- | ---
`ServingTypeCorrect` | `Spec => []TypeOK`
`OnlyProdServes` | `Spec => []ServedWasProd`
`PredictionsAreOfOneVersion` | `Spec => []PredictionIsOneVersion`
`AuditIsTruthful` | `Spec => []ReloadedWasSwapped`
`ImplementsAliases` | `Spec => AliasesSpec`

* `PromotionInv` follows a version from the gate to the alias: a task past the gate holds
  a version with the metrics that passed, and what prod, previous_prod and a rollback under
  way name was in production, hence is approved. The rollback reads `previous_prod` long
  before it moves prod, and the chain may move both meanwhile; what it holds is still an
  approved version, because `was_prod` only grows.
* `ServingInv` follows it from the alias to the runtime: what a reload resolved was in
  production, and a reload that swapped is on record before its answer is audited.
* The refinement needs no more than `IInv`: every step of the service stutters, and each
  call to MLflow is one action of `ModelAliases` or none, whether it then raises or not.

For `DriftCorrection`, with any window size, thresholds, command lines, numbers of cycles,
epochs and faults (`CorrectionAssumption`, the assumptions of `DriftWindows`, and
`NoneAssumption`: `None` is no run, status or number):

Theorem | Says
--- | ---
`DriftTypeCorrect` | `Spec => []TypeOK`
`DriftNeedsEvidence` | `Spec => []ConfirmedByEvidence`
`PromotionsCountOnce` | `Spec => []CountedOnce`
`UndisturbedRunsAreShown` | `Spec => []UndisturbedRunIsShown`

* The lemmas come first: what `_record_lifecycle_observation` does to every field of the
  state, event by event (`RecordedIs`), what a runner pushes (`EventOfIs`), and the kinds of
  move a runner makes (`RunnerMoves`, `ApiMoves`), which each invariant then goes through.
* `EvidenceInv`: as long as drift is not confirmed, the windows that the counter counts are
  the last ones and all of them strong; a novel window has a reference among the earlier
  ones; and what the API was told is confirmed. The counter by itself says nothing of which
  windows it counted.
* `CountingInv`: a journal covers finished cycles only, each with one status for each role, and
  every decision that the API has seen or that is still under way is in the journal of its run or
  is one of the cycle that is about to be journaled, or whose registration raised. Slow events are
  part of the invariant: an event of an earlier cycle may arrive at any later time, also after the
  API forgot that cycle, and its thread may stop between testing, marking and counting while other
  events are handled whole. `AloneInv` says of that thread, as long as no two were in the middle
  of their events, what it found unseen and what is in `promotion_seen` but not counted yet. The
  counters are then bounded by an injection from the labels seen into the journal
  (`CountBounded`).
* `ShownInv` says of the run that was heard last what each field of the state holds at each
  step, also at the steps the property leaves out: between `gate_decision` and the journal
  the decisions are already shown and the versions already those of the next cycle.

For `LifecycleRunner`, with any plans of rows, command lines, scores, panels, numbers of
epochs and of runs, and any failure (`ScoreAssumption` and `ImagesAssumption`: scores are
numbers, images finitely many; `ReferenceAssumption` and `SelectionAssumption`: a panel has a
value for each of its metrics; `RunnerAssumption`; `OptionsAssumption`: what `parse_args`
accepts; `NoneAssumption`: `None` is no model, checkpoint or number):

Theorem | Says
--- | ---
`TypesAreCorrect` | `Spec => []TypeOK`
`GateIsFaithful` | `Spec => []GateJudgesTheFiles`
`RegisteredWerePublished` | `Spec => []RegisteredArePublished`
`CountedOnce` | `NoMaxLots` implies `Spec => []PiecesCountedOnce`
`EveryCycleIsEarned` | `NoMaxLots` implies `Spec => []CyclesAreEarned`
`FilesAreBest` | `Spec => []CandidatesAreBest`
`ReplaysWithThePromoted` | `Spec => []RuntimeIsJournaled`
`AliasOnlyImproves` | `Spec => AliasImproves`

* `TypeInv` carries more than types: an entry of the cache holds the scores of the very
  content its key names (`Truthful`). That the gate judges what the files score, and not
  what an earlier file of the same name scored, follows from this and nothing weaker.
* `PublishInv` follows the order of uploads and registration, which a failure may cut
  anywhere: a version is registered only from files that this run has put in the bucket.
* `PiecesInv` and `EarnedInv`: the closed lots are the rows seen so far, cut at the starts of
  lots, and the counter of the trigger is the conforming rows since the last cycle. `NoMaxLots` says
  that no command line has `--max-lots`: with it, the lot that ends the loop is finalised a
  second time (`run_replay_lifecycle_cycle.py:1007`) and both properties fail.
* `FilesInv`: a best copy is at least as good as every epoch trained so far, while the
  epochs go on as well as at their end.
* `CycleInv`, `EvidenceInv` and `RuntimeInv`: the versions and contracts of a cycle are tied
  to it by run, cycle and role, and only the current run adds contracts, so that a model
  loaded uncalibrated stays explained by what is registered. `RuntimeInv` says what
  `RuntimeIsJournaled` says at every step, not only between the cycles.
* `AliasInv`: the active model is at least as good as the one the alias names, but where the cycle
  has moved the alias to its candidate and not yet gone on with it. The registered version holds
  the best file and not the last one, so `FilesInv` is needed, and the order of `BetterForRole`
  has to be transitive (`BetterIsTransitive`).

For `Datasets` and `Splits`, with any source manifest, classes, labels, arguments, order of
scripts, kills and cut files (`SplitsAssumption`: finitely many pieces, numbered in the order of
the sort key; `DatasetsAssumption`: counts, totals and block lengths are numbers, a window is not
empty):

Theorem | Says
--- | ---
`FilesAreOfOneBuild` | the files of a script that ended are of that one run
`PanelsAreHeldOut` | `Spec => []PanelsHeldOut`
`PanelStandsForProduction` | `Spec => []PanelIsRepresentative`
`PlansCarryDrift` | `Spec => []PlanCarriesDrift`
`TargetsSumUp` | `good_targets`, for every list of rows, labels and total the good rows can fill
`ObservationIsApart` | anchors and panel of an observation share no Piece B event

* None of the three properties is inductive: they say nothing while a script is half way, and what
  it then writes depends on what it read earlier. `DatasetsInv` says that the files of a script
  that ended are one of its builds (`BuildsAreWhole`), that for the script under way each file of
  one build is on disk or still to be written, or that it read a cut file and spoils only its own
  (`InProgress`), and that what a later script may read was computed from these labels or is known
  to be cut (`SourcesAreWhole`). The last one makes the order of scripts and the age of a file
  irrelevant: `full` never changes, and an observation may have read any plan that was ever built,
  so the theorems hold for all plans. With this invariant each property is one of the operators of
  `Splits`.
* Panels and training rows are apart by source event, and not only by row; that anchors
  and panel of an observation are apart (`ObservationIsApart`) rests on the balance of the
  baseline: its rows are the views of the good events in turn (`BaselineIs`), so each view lists
  the same events in the same order, and the panel starts after as many as the anchors took.
* `TargetsSumUp` is the method of largest remainders. The provers have no sums over a set, so a
  sum is the cardinality of a `Stack`, pairs of a class and a number up to its count. That
  stacks add up (`StacksAdd`) is an induction over finite sets, `GrowsToAll`: of the subsets
  outside a set `Q`, one of least size contradicts that `Q` grows. `Q` is a set and no operator, so
  the provers can use it. The remainders then sum to a multiple of the number of good rows,
  at most one row per class that has a remainder is left over (`LeftOverIs`), and as
  the keys of `Turns` differ, as many classes get one more as rows are left over (`ExtraRows`).
* `PanelStandsForProduction` adds that `spread_select` takes different rows: its positions
  increase as they lie more than one apart before they are rounded (`RoundIncreases`).
* `PlansCarryDrift` needs the places of the blocks (`BlockPlaces`) and that a good P4 row is in one
  of them once, although defective rows are repeated (`GoodsComeOnce`).

Only model-checked: the liveness properties (`EnoughPiecesAreConsumed`, `LatestDriftIsConsumed`,
`ReloadIsAudited`, `CorrectionEnds`), which need fairness and ENABLED, and the runs that end in a
violation. All invariants and action properties of the passing runs are proved, under the
hypotheses the tables above name (`OneThread`, `NoMaxLots`). That the model
computes what the Python scripts compute is read from the code and not proved.

## Not modelled, and why

* The counters of AI_SECURITY_METRICS and PREDICTION_METRICS (they decide nothing), the
  trace fields copied from a prediction into its feedback, validation of payloads, wording
  of errors, rendering of `/metrics`, the owner text of the GPU lock.
* Tensors: ROI segmentation, the Feature-AE, its losses, the drift baseline. Scores and
  metrics are constants of the models that use them.
* `candidate_builder.py`, `defect_coverage.py` and `log_promoted_feature_ae_bundle`: nothing
  but tests calls them from the modelled code.
* The table of admin reload events (a best-effort copy of the audit log) and the upserts of
  pieces, lots, incidents and model versions.
* Replay runs: the cursor of a run is checked, read and moved in three steps without a lock;
  they drive demonstrations, one client per run, and nothing modelled reads the cursor.
* Object storage, ingestion, notebooks, reports, exports, dashboards, deployment.
* In `LifecycleSignal` the ROI failure rate and the watermark are left out because no rule
  reads them back, and scenarios outside the two sets of the rule, which never trigger.
  `conforme_valide` and `faux_positif` block nothing, like an absent status, which the runs
  include.

Three things the models show and no property claims:

* `max_lots` finalises a lot twice (see LifecycleRunner).
* A correction trains on P4 rows of its context that also judge it, and the full Piece B
  scenario validates on pieces it replays (`docs/validation-set.md:42` asks validation sets to be
  apart from the replay). A seen piece has the scenario as its split, so the excluded splits
  do not keep it out of `TrainingImages`.
* A version of `register_run_to_model` has no thresholds: promoted to prod it is never
  served, and every reload fails until another version takes the alias.

## Plan

Every theorem that was planned is proved. What would come next is outside the present models:
the replay runs with their unlocked cursor, the defect coverage gate and the candidate filter once
the chain calls them, and the liveness properties with a version of TLAPS that can reason
about ENABLED.

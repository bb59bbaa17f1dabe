---------------------------- MODULE ModelServing ----------------------------
(***************************************************************************)
(* What serves a promoted model: the inference service (iqa.inference.     *)
(* service, runtime, model_loader), which resolves the alias prod when it  *)
(* is told to, and two endpoints of the API: the admin one, which tells    *)
(* it, waits for an answer as long as its timeout allows, and keeps an     *)
(* audit log, and /predict, which has it predict and records the answer.   *)
(* It runs beside the promotions and rollbacks of Promotion.               *)
(*                                                                         *)
(* Requests are served by threads: a reload resolves, downloads, and then  *)
(* swaps the runtime; only the swap is under a lock.  The service may be   *)
(* restarted: it starts with its bootstrap model (version 0), whatever     *)
(* prod names.                                                             *)
(***************************************************************************)
EXTENDS Promotion

CONSTANTS
  Requests,     \* POST /admin/reload-model of the API, one each
  Predictions,  \* POST /predict of the API, one each
  MaxRestarts   \* bound: restarts of the inference service

ASSUME ServingAssumption == MaxRestarts \in Nat

VARIABLES
  runtime,      \* the version of the active runtime
  swapped,      \* history: the versions the service was swapped to, by request
  request,      \* a reload as the API sees it: "new", "waiting", "done" or "broken"
  reload,       \* the same reload in the inference service
  prediction,   \* a prediction in the inference service
  recorded,     \* what the API made of it: [status, version], version being the one it recorded
  audit,        \* the events of ADMIN_RELOAD_LOG, whose order nothing reads
  restarts

servingVars == <<runtime, swapped, request, reload, prediction, recorded, audit, restarts>>
vars == <<promotionVars, servingVars>>

NoReload == [step |-> "none", version |-> 0]
NoPrediction == [step |-> "none", checkpoint |-> 0, thresholds |-> 0]
NotRecorded == [status |-> "new", version |-> 0]

-----------------------------------------------------------------------------
(* The inference service. *)

(* What a reload is asked for. *)
Asked == [stage : {"prod", "test"}, scenario : {"configured", "other"}]

(* The service reloads prod, for the scenario it is configured for. *)
Refused(asked) == asked.stage # "prod" \/ asked.scenario # "configured"

BugResolved == Len(registry)

Resolved == alias["prod"]

ResolveModel(r) ==
  /\ reload[r].step = "asked"
  /\ reload' = [reload EXCEPT ![r] =
       IF Resolved = 0 THEN [step |-> "refused", version |-> 0]
       ELSE [step |-> "resolved", version |-> Resolved]]
  /\ UNCHANGED <<promotionVars, runtime, swapped, request, prediction, recorded, audit, restarts>>

(* ProdModelLoader.load with _runtime_from_loaded_model: a version that points into a run loads, *)
(* but without thresholds and contract it is no runtime.                                         *)
Loads(v) == registry[v].source = "logged" /\ registry[v].valid

(* Between the load and the swap nothing is read or written. *)
LoadModel(r) ==
  /\ reload[r].step = "resolved" /\ Loads(reload[r].version)
  /\ runtime' = reload[r].version
  /\ swapped' = swapped \cup {<<r, reload[r].version>>}
  /\ reload' = [reload EXCEPT ![r].step = "swapped"]
  /\ UNCHANGED <<promotionVars, request, prediction, recorded, audit, restarts>>

(* The bundle cannot be downloaded, or is not one: the runtime stays. *)
LoadFails(r) ==
  /\ reload[r].step = "resolved" /\ (Faults \/ ~Loads(reload[r].version))
  /\ reload' = [reload EXCEPT ![r].step = "refused"]
  /\ UNCHANGED <<promotionVars, runtime, swapped, request, prediction, recorded, audit, restarts>>

(* _run_real_inference: a snapshot, then the pipeline, which opens the checkpoint it was given... *)
StartPrediction(p) ==
  /\ prediction[p].step = "asked"
  /\ prediction' = [prediction EXCEPT ![p] = [step |-> "running", checkpoint |-> runtime, thresholds |-> runtime]]
  /\ UNCHANGED <<promotionVars, runtime, swapped, request, reload, recorded, audit, restarts>>

BugThresholds(p) == runtime

ThresholdsOf(p) == prediction[p].thresholds

(* ...and decides with the thresholds it was given. *)
Decide(p) ==
  /\ prediction[p].step = "running"
  /\ prediction' = [prediction EXCEPT ![p].step = "answered", ![p].thresholds = ThresholdsOf(p)]
  /\ UNCHANGED <<promotionVars, runtime, swapped, request, reload, recorded, audit, restarts>>

(* An image that is missing or has another checksum, and any error of the pipeline, are *)
(* answered with an HTTP error.                                                         *)
PredictFails(p) ==
  /\ Faults /\ prediction[p].step = "running"
  /\ prediction' = [prediction EXCEPT ![p].step = "failed"]
  /\ UNCHANGED <<promotionVars, runtime, swapped, request, reload, recorded, audit, restarts>>

(* The process ends; what it was doing is lost. *)
RestartInference ==
  /\ restarts < MaxRestarts
  /\ restarts' = restarts + 1
  /\ runtime' = 0
  /\ reload' = [r \in Requests |-> IF reload[r].step = "none" THEN NoReload
                                   ELSE [step |-> "lost", version |-> 0]]
  /\ prediction' = [p \in Predictions |-> IF prediction[p].step \in {"asked", "running"}
                                          THEN [NoPrediction EXCEPT !.step = "failed"]
                                          ELSE prediction[p]]
  /\ UNCHANGED <<promotionVars, swapped, request, recorded, audit>>

-----------------------------------------------------------------------------
(* POST /admin/reload-model of the API. *)

Audits(r, status, version) ==
  audit' = audit \cup {[request |-> r, status |-> status, version |-> version]}

(* Without a token, or with a wrong one, the call is refused and nothing is sent. *)
AskReload(r) ==
  /\ request[r] = "new"
  /\ request' = [request EXCEPT ![r] = "waiting"]
  /\ \E asked \in Asked :
       reload' = [reload EXCEPT ![r].step = IF Refused(asked) THEN "refused" ELSE "asked"]
  /\ UNCHANGED <<promotionVars, runtime, swapped, prediction, recorded, audit, restarts>>

RefuseReload(r) ==
  /\ request[r] = "new"
  /\ request' = [request EXCEPT ![r] = "done"]
  /\ Audits(r, "refused", 0)
  /\ UNCHANGED <<promotionVars, runtime, swapped, reload, prediction, recorded, restarts>>

(* How the call of the inference service ends: its timeout may expire, and its connection *)
(* break before the whole answer is read, at any step.                                    *)
Answers(r) ==
  (IF reload[r].step = "swapped" THEN {"reloaded"} ELSE {})
  \cup (IF reload[r].step \in {"refused", "lost"} THEN {"error"} ELSE {})
  \cup {"timeout", "broken"}

BugTimeoutStatus(answer) == IF answer = "error" THEN "failed" ELSE answer

BugAuditStatus(answer) == IF answer = "error" THEN "failed" ELSE "reloaded"

AuditStatus(answer) == IF answer = "reloaded" THEN "reloaded" ELSE "failed"

BugAudited(answer) == answer \notin {"broken", "timeout"}

(* _call_inference_reload turns an HTTP error, a timeout and a URLError into an HTTPException, *)
(* which is audited.  RemoteDisconnected, ConnectionResetError and IncompleteRead are none of  *)
(* them: they end the request with a 500 and without an entry.                                 *)
Audited(answer) == answer # "broken"

AnswerReload(r) ==
  /\ request[r] = "waiting"
  /\ \E answer \in Answers(r) :
       /\ IF Audited(answer) THEN Audits(r, AuditStatus(answer), reload[r].version)
          ELSE UNCHANGED audit
       /\ request' = [request EXCEPT ![r] = IF answer = "broken" THEN "broken" ELSE "done"]
  /\ UNCHANGED <<promotionVars, runtime, swapped, reload, prediction, recorded, restarts>>

-----------------------------------------------------------------------------
(* POST /predict of the API: _call_inference_service, and what is recorded of its answer. *)

(* Without a URL or a timeout that can be used nothing is sent. *)
AskPrediction(p) ==
  /\ recorded[p].status = "new"
  /\ \/ /\ recorded' = [recorded EXCEPT ![p].status = "waiting"]
        /\ prediction' = [prediction EXCEPT ![p].step = "asked"]
     \/ /\ recorded' = [recorded EXCEPT ![p].status = "refused"]
        /\ UNCHANGED prediction
  /\ UNCHANGED <<promotionVars, runtime, swapped, request, reload, audit, restarts>>

(* The answer is recorded under the version it names; it may break the contract. *)
RecordPrediction(p) ==
  /\ recorded[p].status = "waiting" /\ prediction[p].step = "answered"
  /\ \/ recorded' = [recorded EXCEPT ![p] = [status |-> "recorded", version |-> prediction[p].checkpoint]]
     \/ Faults /\ recorded' = [recorded EXCEPT ![p].status = "refused"]
  /\ UNCHANGED <<promotionVars, runtime, swapped, request, reload, prediction, audit, restarts>>

(* An HTTP error, no connection, or a timeout, which may expire at any step of the service. *)
RefusePrediction(p) ==
  /\ recorded[p].status = "waiting"
  /\ recorded' = [recorded EXCEPT ![p].status = "refused"]
  /\ UNCHANGED <<promotionVars, runtime, swapped, request, reload, prediction, audit, restarts>>

-----------------------------------------------------------------------------

Init ==
  /\ PromotionInit
  /\ runtime = 0 /\ swapped = {} /\ audit = {} /\ restarts = 0
  /\ request = [r \in Requests |-> "new"]
  /\ reload = [r \in Requests |-> NoReload]
  /\ prediction = [p \in Predictions |-> NoPrediction]
  /\ recorded = [p \in Predictions |-> NotRecorded]

Inference ==
  \/ \E r \in Requests : ResolveModel(r) \/ LoadModel(r) \/ LoadFails(r)
  \/ \E p \in Predictions : StartPrediction(p) \/ Decide(p) \/ PredictFails(p)
  \/ RestartInference

Api ==
  \/ \E r \in Requests : AskReload(r) \/ RefuseReload(r) \/ AnswerReload(r)
  \/ \E p \in Predictions : AskPrediction(p) \/ RecordPrediction(p) \/ RefusePrediction(p)

(* A step of Promotion is one of the whole. *)
Promoting(step) == step /\ UNCHANGED servingVars

Registry ==
  \/ Promoting(TaskLifecycleDecision) \/ Promoting(TaskDataset) \/ Promoting(TaskTrain) \/ Promoting(TaskEval)
  \/ Promoting(TaskGates) \/ Promoting(TaskMlflow) \/ Promoting(SavePreviousProd)
  \/ Promoting(SavePreviousAlias) \/ Promoting(Promote) \/ Promoting(ResolveArtifacts)
  \/ Promoting(TaskReload) \/ Promoting(SupplyDataset) \/ Promoting(RegisterLoggedModel)
  \/ Promoting(StartRollback) \/ Promoting(GetPreviousProd) \/ Promoting(RestoreProd)
  \/ Promoting(ArchiveFaulty)

Next == Registry \/ Inference \/ Api

(* urlopen has a timeout: a call that was made is answered. *)
Fairness == \A r \in Requests : WF_vars(AnswerReload(r))

Spec == Init /\ [][Next]_vars /\ Fairness

-----------------------------------------------------------------------------
(* Properties. *)

(* The types of the variables; an alias names a version that exists. *)
TypeOK ==
  /\ \A v \in DOMAIN registry : registry[v].source \in {"run", "logged"}
  /\ alias \in [Stages -> 0 .. Len(registry)]
  /\ was_prod \subseteq DOMAIN registry
  /\ chain.task \in {"dataset", "train", "eval", "gates", "mlflow", "save", "save_alias", "promote", "resolve",
                     "reload", "done"}
  /\ rollback.step \in {"idle", "read", "restore", "archive"}
  /\ runtime \in 0 .. Len(registry)
  /\ \A r \in Requests : reload[r].step \in {"none", "asked", "resolved", "swapped", "refused", "lost"}
                         /\ request[r] \in {"new", "waiting", "done", "broken"}
  /\ \A p \in Predictions : prediction[p].step \in {"none", "asked", "running", "answered", "failed"}
                            /\ recorded[p].status \in {"new", "waiting", "recorded", "refused"}
  /\ \A e \in audit : e.status \in {"reloaded", "failed", "refused"}

(* What the gates of configs/promotion_gates.yaml ask of an evaluation. *)
MeetsGates(metrics) == metrics.recall >= 100 /\ metrics.latency_ms <= 1000

Aliases == INSTANCE ModelAliases WITH
  approved <- {v \in DOMAIN registry : registry[v].source = "logged" \/ MeetsGates(registry[v].metrics)},
  prod <- alias["prod"], previous <- alias["previous_prod"], was_prod <- was_prod

(* docs/gates.md, docs/rollback.md: whatever fails or runs beside it, the                 *)
(* promotion only puts versions in production that passed the gates, and what a rollback  *)
(* would restore was in production.                                                       *)
AliasesSpec == Aliases!Spec

(* The model that serves was in production, and its bundle is whole: a reload that failed *)
(* leaves the runtime alone, a version without thresholds is never served.                *)
ServedWasProd ==
  runtime # 0 => /\ runtime \in was_prod
                 /\ registry[runtime].source = "logged" /\ registry[runtime].valid

(* What the API records of a prediction names one version, which was in production or is  *)
(* the bootstrap: that of the checkpoint that scored the piece and of the thresholds that *)
(* decided it, however many reloads and restarts happen meanwhile.                        *)
PredictionIsOneVersion ==
  \A p \in Predictions :
    /\ prediction[p].checkpoint = prediction[p].thresholds
    /\ recorded[p].status = "recorded" =>
         /\ recorded[p].version = prediction[p].thresholds
         /\ prediction[p].step = "answered" /\ prediction[p].checkpoint \in was_prod \cup {0}

(* The audit log says of a request that it reloaded a version only when the service was   *)
(* swapped to that version for it.  (The converse fails: see the README on timeouts.)     *)
ReloadedWasSwapped ==
  \A e \in audit : e.status = "reloaded" => <<e.request, e.version>> \in swapped

(* Every reload that was sent ends, and is audited then, timeouts and lost services       *)
(* included, unless its connection broke before the whole answer was read.                *)
ReloadIsAudited ==
  \A r \in Requests :
    request[r] = "waiting" ~> request[r] = "broken" \/ \E e \in audit : e.request = r

(* docs/ai_security_governance.md:124, "Accepted reloads are audited": a reload the       *)
(* service carried out has its entry once its request ended.                              *)
AcceptedReloadsAreAudited ==
  \A r \in Requests :
    request[r] \in {"done", "broken"} /\ (\E v \in was_prod : <<r, v>> \in swapped)
      => \E e \in audit : e.request = r
=============================================================================

------------------------------ MODULE Feedback ------------------------------
(***************************************************************************)
(* The prediction and feedback handlers of the IQA API (iqa/api/main.py)   *)
(* over their two stores: the PostgreSQL metadata tables and the in-memory *)
(* dictionaries of the process.                                            *)
(*                                                                         *)
(* The handlers are plain `def` endpoints, so FastAPI runs them in a pool  *)
(* of threads and no lock orders them.  A request is a sequence of steps:  *)
(* one per call to the repository, which is one database transaction, and  *)
(* one for the dictionary updates that follow it.  Requests interleave     *)
(* between steps, PostgreSQL may be unreachable at any call, the answer to *)
(* a commit may be lost after the commit took effect, and the process may  *)
(* restart and lose its dictionaries.                                      *)
(*                                                                         *)
(* Left out: the counters of AI_SECURITY_METRICS and PREDICTION_METRICS,   *)
(* the call to the inference service (it changes no state here), and the   *)
(* trace fields copied from the prediction into the feedback record.       *)
(***************************************************************************)
EXTENDS Naturals, FiniteSets

CONSTANTS
  Threads,      \* the worker threads that run request handlers
  Predictions,  \* the prediction ids uuid4 may draw; bounds the number of /predict
  Identities,   \* the <<piece_event_id, scenario_id>> pairs requests carry
  Decisions,    \* the decisions the inference service returns
  Statuses,     \* the feedback_status values of the requests
  Backends,     \* the configured metadata backends to consider
  Faults,       \* what the environment may do to a request
  None          \* Python's None

ASSUME ThreadsAssumption == None \notin Threads
ASSUME PredictionsAssumption == None \notin Predictions
ASSUME IdentitiesAssumption == None \notin Identities
ASSUME BackendsAssumption == Backends \subseteq {"postgres", "memory"}
ASSUME FaultsAssumption == Faults \subseteq {"unreachable", "lost_reply", "restart"}
ASSUME DecisionsAssumption == Decisions \subseteq {"Vert", "Orange", "Rouge"}
ASSUME StatusesAssumption ==
  Statuses \subseteq {"conforme_valide", "defaut_confirme", "faux_negatif",
                      "faux_positif", "roi_warning", "roi_fail"}

VARIABLES
  backend,                  \* METADATA_BACKEND of the process
  predictions,              \* table predictions
  feedback_events,          \* table feedback_events
  display_feedback_events,  \* table display_feedback_events, as the ids that have a row
  PREDICTION_STORE,         \* the dictionaries of the process
  FEEDBACK_STORE,
  DISPLAY_FEEDBACK_STORE,
  INCIDENT_STORE,           \* the incidents raised, as a set of <<type, prediction id>>
  req,                      \* the request each thread handles
  issued,                   \* history: the prediction ids drawn so far
  answered,                 \* history: the <<answer, prediction id>> of 200 responses
  closings,                 \* history: how many times each prediction was closed
  interrupted               \* history: closings whose handler did not run to its end

tables == <<predictions, feedback_events, display_feedback_events>>
stores == <<PREDICTION_STORE, FEEDBACK_STORE, DISPLAY_FEEDBACK_STORE, INCIDENT_STORE>>
history == <<issued, answered, closings, interrupted>>
vars == <<backend, tables, stores, req, history>>

-----------------------------------------------------------------------------
(* Records.  A closing is stamped with the thread that made it, which stands *)
(* for its closed_at timestamp: no thread closes one prediction twice.       *)

Stamp == Threads \cup {None}
PredictionRecord ==
  [identity : Identities, decision : Decisions, feedback_closed_at : Stamp]
BlockReasons ==
  {None, "oracle_gt_defective", "feedback_status_defaut_confirme",
   "feedback_status_faux_negatif", "roi_warning", "roi_fail"}
FeedbackRecord ==
  [verdict : {"conforme", "defective"}, train_block_reason : BlockReasons,
   conflict_logged : BOOLEAN, closed_at : Threads]

ASSUME RecordsAssumption == None \notin PredictionRecord /\ None \notin FeedbackRecord

Steps == {"idle", "save_prediction", "store_prediction", "lookup", "check_open",
          "save_display", "store_display", "read_display", "refresh_display",
          "close", "store_feedback"}
Sources == {"oracle_gt", "human_sophie"}

Request ==
  [step : Steps,
   prediction_id : Predictions \cup {None},
   identity : Identities \cup {None},
   feedback_source : Sources \cup {None},
   feedback_status : Statuses \cup {None},
   gt_mask_has_defect : BOOLEAN,
   prediction : PredictionRecord \cup {None},  \* the local variable `prediction`
   shared : BOOLEAN,       \* it is the very object PREDICTION_STORE holds
   display : BOOLEAN,      \* display_feedback is not None
   after_close : BOOLEAN,  \* history: a closing of it had been answered before
   after_human : BOOLEAN]  \* history: so had a human_sophie feedback

Idle == [step |-> "idle", prediction_id |-> None, identity |-> None,
         feedback_source |-> None, feedback_status |-> None,
         gt_mask_has_defect |-> FALSE, prediction |-> None, shared |-> FALSE,
         display |-> FALSE, after_close |-> FALSE, after_human |-> FALSE]

Closed(record) == record.feedback_closed_at # None

(* oracle_gt_verdict: the verdict follows gt_mask_has_defect alone. *)
OracleVerdict(r) == IF r.gt_mask_has_defect THEN "defective" ELSE "conforme"

(* Bug: any status given becomes the reason. *)
BugStatusIsReason(r) ==
  IF r.gt_mask_has_defect THEN "oracle_gt_defective" ELSE r.feedback_status

(* Bug: the ground truth is not looked at. *)
BugStatusOnly(r) ==
  IF r.feedback_status \in {"roi_warning", "roi_fail"} THEN r.feedback_status ELSE None

(* _train_eligibility_from_feedback: the ground truth is looked at first.    *)
(* The record is eligible for training exactly when no reason blocks it.     *)
TrainBlockReason(r) ==
  CASE r.gt_mask_has_defect -> "oracle_gt_defective"
    [] ~r.gt_mask_has_defect /\ r.feedback_status = "defaut_confirme" ->
         "feedback_status_defaut_confirme"
    [] ~r.gt_mask_has_defect /\ r.feedback_status = "faux_negatif" ->
         "feedback_status_faux_negatif"
    [] ~r.gt_mask_has_defect /\ r.feedback_status \in {"roi_warning", "roi_fail"} ->
         r.feedback_status
    [] OTHER -> None

(* _oracle_divergence = "faux_negatif": an accepted piece that is defective. *)
FalseNegative(decision, verdict) == decision = "Vert" /\ verdict = "defective"

-----------------------------------------------------------------------------
Init ==
  /\ backend \in Backends
  /\ predictions = [p \in Predictions |-> None]
  /\ feedback_events = [p \in Predictions |-> None]
  /\ display_feedback_events = {}
  /\ PREDICTION_STORE = [p \in Predictions |-> None]
  /\ FEEDBACK_STORE = [p \in Predictions |-> None]
  /\ DISPLAY_FEEDBACK_STORE = {}
  /\ INCIDENT_STORE = {}
  /\ req = [t \in Threads |-> Idle]
  /\ issued = {}
  /\ answered = {}
  /\ closings = [p \in Predictions |-> 0]
  /\ interrupted = {}

Postgres == backend = "postgres"

At(t, step) == req[t].step = step
Goto(t, step) == req' = [req EXCEPT ![t].step = step]
Finish(t) == req' = [req EXCEPT ![t] = Idle]
Answer(answer, p) == answered' = answered \cup {<<answer, p>>}
RaiseIncidents(types, p) == INCIDENT_STORE' = INCIDENT_STORE \cup (types \X {p})

-----------------------------------------------------------------------------
(* POST /predict, once the inference service has answered. *)

(* Bug: ids that repeat, as ids derived from the piece would. *)
BugRepeatedId(p) == p \in Predictions

(* uuid4 never draws an id twice. *)
PredictionId(p) == p \notin issued

Predict(t) ==
  /\ At(t, "idle")
  /\ \E p \in Predictions, i \in Identities, d \in Decisions :
       /\ PredictionId(p)
       /\ issued' = issued \cup {p}
       /\ req' = [req EXCEPT ![t] = [Idle EXCEPT
                    !.step = "save_prediction", !.prediction_id = p, !.identity = i,
                    !.prediction = [identity |-> i, decision |-> d,
                                    feedback_closed_at |-> None]]]
  /\ UNCHANGED <<backend, tables, stores, answered, closings, interrupted>>

(* repository.save_prediction: an upsert of one row. *)
WritePrediction(t) ==
  /\ predictions' = [predictions EXCEPT ![req[t].prediction_id] = req[t].prediction]
  /\ UNCHANGED <<feedback_events, display_feedback_events, closings>>

SavePrediction(t) ==
  /\ At(t, "save_prediction")
  /\ IF Postgres THEN WritePrediction(t) ELSE UNCHANGED <<tables, closings>>
  /\ Goto(t, "store_prediction")
  /\ UNCHANGED <<backend, stores, issued, answered, interrupted>>

(* A new object in PREDICTION_STORE: what the other requests hold is no longer it. *)
Unshared(t, p) ==
  [u \in Threads |-> IF u # t /\ req[u].prediction_id = p
                     THEN [req[u] EXCEPT !.shared = FALSE] ELSE req[u]]

StorePrediction(t) ==
  LET p == req[t].prediction_id IN
  /\ At(t, "store_prediction")
  /\ PREDICTION_STORE' = [PREDICTION_STORE EXCEPT ![p] = req[t].prediction]
  /\ req' = [Unshared(t, p) EXCEPT ![t] = Idle]
  /\ UNCHANGED <<backend, tables, FEEDBACK_STORE, DISPLAY_FEEDBACK_STORE,
                 INCIDENT_STORE, history>>

-----------------------------------------------------------------------------
(* POST /feedback: the prediction is looked up and must be open. *)

Submit(t, p, i, src, st, defect) ==
  /\ At(t, "idle")
  /\ req' = [req EXCEPT ![t] = [Idle EXCEPT
               !.step = "lookup", !.prediction_id = p, !.identity = i,
               !.feedback_source = src, !.feedback_status = st,
               !.gt_mask_has_defect = defect,
               !.after_close = <<"closed", p>> \in answered,
               !.after_human = <<"displayed", p>> \in answered]]
  /\ UNCHANGED <<backend, tables, stores, history>>

SubmitOracle(t) ==
  \E p \in Predictions, i \in Identities, st \in Statuses \cup {None}, defect \in BOOLEAN :
    Submit(t, p, i, "oracle_gt", st, defect)

(* What the human reports is only displayed: its status is not told apart. *)
SubmitHuman(t) ==
  \E p \in Predictions, i \in Identities : Submit(t, p, i, "human_sophie", None, FALSE)

(* Bug: the dictionary of the process is trusted before the table. *)
BugCacheFirst(p) ==
  IF PREDICTION_STORE[p] # None THEN PREDICTION_STORE[p]
  ELSE IF Postgres THEN predictions[p] ELSE None

(* repository.get_prediction; without a repository the read yields None. *)
ReadPrediction(p) == IF Postgres THEN predictions[p] ELSE None

Lookup(t) ==
  /\ At(t, "lookup")
  /\ req' = [req EXCEPT ![t].step = "check_open",
                        ![t].prediction = ReadPrediction(req[t].prediction_id)]
  /\ UNCHANGED <<backend, tables, stores, history>>

(* What the read found, or what the dictionary holds. *)
Found(t) ==
  IF req[t].prediction # None THEN req[t].prediction
  ELSE PREDICTION_STORE[req[t].prediction_id]

(* A record read from the table replaces the one in the dictionary; the      *)
(* request goes on as r.                                                     *)
Refresh(t, r) ==
  LET p == req[t].prediction_id IN
  IF req[t].prediction # None
  THEN /\ PREDICTION_STORE' = [PREDICTION_STORE EXCEPT ![p] = req[t].prediction]
       /\ req' = [Unshared(t, p) EXCEPT ![t] = r]
  ELSE /\ req' = [req EXCEPT ![t] = r]
       /\ UNCHANGED PREDICTION_STORE

RefuseUnknown(t) ==
  /\ At(t, "check_open") /\ Found(t) = None
  /\ Finish(t)
  /\ UNCHANGED <<backend, tables, stores, history>>

(* The piece or the scenario differs: both raise the same incident. *)
RefuseMismatch(t) ==
  /\ At(t, "check_open") /\ Found(t) # None
  /\ Found(t).identity # req[t].identity
  /\ Refresh(t, Idle)
  /\ RaiseIncidents({"feedback_conflict"}, req[t].prediction_id)
  /\ UNCHANGED <<backend, tables, FEEDBACK_STORE, DISPLAY_FEEDBACK_STORE, history>>

(* Bug: feedback_closed is not looked at. *)
BugReopens(record) == TRUE

(* prediction.get("feedback_closed") is not True *)
IsOpen(record) == ~Closed(record)

RefuseClosed(t) ==
  /\ At(t, "check_open") /\ Found(t) # None
  /\ Found(t).identity = req[t].identity
  /\ ~IsOpen(Found(t))
  /\ Refresh(t, Idle)
  /\ UNCHANGED <<backend, tables, FEEDBACK_STORE, DISPLAY_FEEDBACK_STORE,
                 INCIDENT_STORE, history>>

Admit(t) ==
  /\ At(t, "check_open") /\ Found(t) # None
  /\ Found(t).identity = req[t].identity
  /\ IsOpen(Found(t))
  /\ Refresh(t, [req[t] EXCEPT
       !.step = IF req[t].feedback_source = "human_sophie" THEN "save_display" ELSE "read_display",
       !.prediction = Found(t), !.shared = TRUE])
  /\ UNCHANGED <<backend, tables, FEEDBACK_STORE, DISPLAY_FEEDBACK_STORE,
                 INCIDENT_STORE, history>>

-----------------------------------------------------------------------------
(* human_sophie: kept for display, closes nothing and never makes eligible. *)

WriteDisplay(t) ==
  /\ display_feedback_events' = display_feedback_events \cup {req[t].prediction_id}
  /\ UNCHANGED <<predictions, feedback_events, closings>>

SaveDisplay(t) ==
  /\ At(t, "save_display")
  /\ IF Postgres THEN WriteDisplay(t) ELSE UNCHANGED <<tables, closings>>
  /\ Goto(t, "store_display")
  /\ UNCHANGED <<backend, stores, issued, answered, interrupted>>

StoreDisplay(t) ==
  /\ At(t, "store_display")
  /\ DISPLAY_FEEDBACK_STORE' = DISPLAY_FEEDBACK_STORE \cup {req[t].prediction_id}
  /\ Answer("displayed", req[t].prediction_id)
  /\ Finish(t)
  /\ UNCHANGED <<backend, tables, PREDICTION_STORE, FEEDBACK_STORE, INCIDENT_STORE,
                 issued, closings, interrupted>>

-----------------------------------------------------------------------------
(* oracle_gt: the verdict is recorded and the prediction closed.             *)

(* Bug: only the dictionary is asked for an earlier human feedback. *)
BugDisplayFromStore(p) == FALSE

ReadDisplayRow(p) == Postgres /\ p \in display_feedback_events

ReadDisplay(t) ==
  /\ At(t, "read_display")
  /\ req' = [req EXCEPT ![t].step = "refresh_display",
                        ![t].display = ReadDisplayRow(req[t].prediction_id)]
  /\ UNCHANGED <<backend, tables, stores, history>>

RefreshDisplay(t) ==
  LET p == req[t].prediction_id IN
  /\ At(t, "refresh_display")
  /\ DISPLAY_FEEDBACK_STORE' =
       IF req[t].display THEN DISPLAY_FEEDBACK_STORE \cup {p} ELSE DISPLAY_FEEDBACK_STORE
  /\ req' = [req EXCEPT ![t].step = "close",
                        ![t].display = @ \/ p \in DISPLAY_FEEDBACK_STORE]
  /\ UNCHANGED <<backend, tables, PREDICTION_STORE, FEEDBACK_STORE, INCIDENT_STORE, history>>

Feedback(t) ==
  [verdict |-> OracleVerdict(req[t]), train_block_reason |-> TrainBlockReason(req[t]),
   conflict_logged |-> req[t].display, closed_at |-> t]

(* Bug: INSERT ... ON CONFLICT DO NOTHING. *)
BugKeepFirst(t) ==
  LET p == req[t].prediction_id IN
  /\ feedback_events' = [feedback_events EXCEPT ![p] = IF @ = None THEN Feedback(t) ELSE @]
  /\ predictions' = [predictions EXCEPT ![p].feedback_closed_at = t]
  /\ closings' = [closings EXCEPT ![p] = @ + 1]
  /\ UNCHANGED display_feedback_events

(* repository.save_feedback_and_close_prediction: one transaction upserts    *)
(* the feedback row and closes the row the prediction has by then.           *)
WriteClosing(t) ==
  LET p == req[t].prediction_id IN
  /\ feedback_events' = [feedback_events EXCEPT ![p] = Feedback(t)]
  /\ predictions' = [predictions EXCEPT ![p].feedback_closed_at = t]
  /\ closings' = [closings EXCEPT ![p] = @ + 1]
  /\ UNCHANGED display_feedback_events

Close(t) ==
  /\ At(t, "close")
  /\ IF Postgres
     THEN predictions[req[t].prediction_id] # None /\ WriteClosing(t)
     ELSE UNCHANGED <<tables, closings>>
  /\ Goto(t, "store_feedback")
  /\ UNCHANGED <<backend, stores, issued, answered, interrupted>>

(* Bug: the reason is looked for where a defect shadows it. *)
BugIncidents(t) ==
  IF TrainBlockReason(req[t]) = "roi_fail" THEN {"roi_fail"}
  ELSE IF FalseNegative(req[t].prediction.decision, OracleVerdict(req[t]))
          /\ req[t].feedback_status = "faux_negatif" THEN {"false_negative"} ELSE {}

ClosingIncidents(t) ==
  (IF FalseNegative(req[t].prediction.decision, OracleVerdict(req[t]))
   THEN {"false_negative"} ELSE {})
  \cup (IF TrainBlockReason(req[t]) = "roi_fail" THEN {"roi_fail"} ELSE {})

(* prediction.update(...) reaches PREDICTION_STORE only while `prediction`   *)
(* is the object stored there.  Without a repository it is what closes.      *)
StoreFeedback(t) ==
  LET p == req[t].prediction_id IN
  /\ At(t, "store_feedback")
  /\ PREDICTION_STORE' =
       IF req[t].shared THEN [PREDICTION_STORE EXCEPT ![p].feedback_closed_at = t]
       ELSE PREDICTION_STORE
  /\ FEEDBACK_STORE' = [FEEDBACK_STORE EXCEPT ![p] = Feedback(t)]
  /\ RaiseIncidents(ClosingIncidents(t), p)
  /\ Answer("closed", p)
  /\ closings' = IF Postgres THEN closings ELSE [closings EXCEPT ![p] = @ + 1]
  /\ Finish(t)
  /\ UNCHANGED <<backend, tables, DISPLAY_FEEDBACK_STORE, issued, interrupted>>

-----------------------------------------------------------------------------
(* Failures of a call to the repository: the handler answers 503. *)

RepositorySteps == {"save_prediction", "lookup", "save_display", "read_display", "close"}

(* Bug: the write is best effort and the handler goes on. *)
BugBestEffort(t) ==
  Goto(t, CASE At(t, "save_prediction") -> "store_prediction"
            [] At(t, "save_display") -> "store_display"
            [] At(t, "close") -> "store_feedback"
            [] OTHER -> "idle")

(* HTTPException(503): nothing of the handler runs after the failed call. *)
Abort(t) == Finish(t)

(* No transaction took place; also the KeyError that rolls a closing back. *)
CallFails(t) ==
  /\ Postgres /\ req[t].step \in RepositorySteps
  /\ \/ "unreachable" \in Faults
     \/ At(t, "close") /\ predictions[req[t].prediction_id] = None
  /\ Abort(t)
  /\ UNCHANGED <<backend, tables, stores, history>>

(* The transaction committed and the connection broke before the reply. *)
ReplyLost(t) ==
  /\ Postgres /\ "lost_reply" \in Faults
  /\ \/ At(t, "save_prediction") /\ WritePrediction(t) /\ UNCHANGED interrupted
     \/ At(t, "save_display") /\ WriteDisplay(t) /\ UNCHANGED interrupted
     \/ /\ At(t, "close") /\ predictions[req[t].prediction_id] # None
        /\ WriteClosing(t)
        /\ interrupted' = interrupted \cup {req[t].prediction_id}
  /\ Abort(t)
  /\ UNCHANGED <<backend, stores, issued, answered>>

(* The process ends, by a crash or a deployment, and starts again. *)
Restart ==
  /\ "restart" \in Faults
  /\ PREDICTION_STORE' = [p \in Predictions |-> None]
  /\ FEEDBACK_STORE' = [p \in Predictions |-> None]
  /\ DISPLAY_FEEDBACK_STORE' = {}
  /\ INCIDENT_STORE' = {}
  /\ req' = [t \in Threads |-> Idle]
  /\ interrupted' = interrupted \cup {p \in Predictions : feedback_events[p] # None}
  /\ UNCHANGED <<backend, tables, issued, answered, closings>>

-----------------------------------------------------------------------------
Handle(t) ==
  \/ Predict(t) \/ SavePrediction(t) \/ StorePrediction(t)
  \/ SubmitOracle(t) \/ SubmitHuman(t) \/ Lookup(t)
  \/ RefuseUnknown(t) \/ RefuseMismatch(t) \/ RefuseClosed(t) \/ Admit(t)
  \/ SaveDisplay(t) \/ StoreDisplay(t)
  \/ ReadDisplay(t) \/ RefreshDisplay(t) \/ Close(t) \/ StoreFeedback(t)
  \/ CallFails(t) \/ ReplyLost(t)

Next == Restart \/ \E t \in Threads : Handle(t)

Spec == Init /\ [][Next]_vars

-----------------------------------------------------------------------------
(* Properties. *)

(* Every variable has the shape the code gives it. *)
TypeOK ==
  /\ backend \in Backends
  /\ predictions \in [Predictions -> PredictionRecord \cup {None}]
  /\ feedback_events \in [Predictions -> FeedbackRecord \cup {None}]
  /\ display_feedback_events \subseteq Predictions
  /\ PREDICTION_STORE \in [Predictions -> PredictionRecord \cup {None}]
  /\ FEEDBACK_STORE \in [Predictions -> FeedbackRecord \cup {None}]
  /\ DISPLAY_FEEDBACK_STORE \subseteq Predictions
  /\ INCIDENT_STORE \subseteq {"feedback_conflict", "false_negative", "roi_fail"} \X Predictions
  /\ req \in [Threads -> Request]
  /\ issued \subseteq Predictions
  /\ answered \subseteq {"closed", "displayed"} \X Predictions
  /\ closings \in [Predictions -> Nat]
  /\ interrupted \subseteq Predictions

(* In the tables a prediction is closed exactly when it has a feedback row,  *)
(* and both come from the same closing, whatever overlapped or failed.       *)
ClosureAgreement ==
  Postgres =>
    \A p \in Predictions :
      /\ feedback_events[p] # None <=> predictions[p] # None /\ Closed(predictions[p])
      /\ feedback_events[p] # None =>
           feedback_events[p].closed_at = predictions[p].feedback_closed_at

(* The dictionaries never run ahead of the tables: what they show as known,  *)
(* closed, judged or displayed is durable.                                   *)
StoresBehindTables ==
  Postgres =>
    \A p \in Predictions :
      /\ PREDICTION_STORE[p] # None =>
           /\ predictions[p] # None
           /\ Closed(PREDICTION_STORE[p]) => Closed(predictions[p])
      /\ FEEDBACK_STORE[p] # None => feedback_events[p] # None
      /\ p \in DISPLAY_FEEDBACK_STORE => p \in display_feedback_events

(* What a 200 response told a client is in the tables, across restarts. *)
AnswersAreDurable ==
  Postgres =>
    \A p \in Predictions :
      /\ <<"closed", p>> \in answered => feedback_events[p] # None
      /\ <<"displayed", p>> \in answered => p \in display_feedback_events

(* A feedback sent after a closing of its prediction was answered is never   *)
(* admitted, even after a restart: the 409 feedback_already_closed contract  *)
(* as requests that do not overlap observe it.                               *)
LateFeedbackRejected ==
  \A t \in Threads : req[t].after_close => req[t].step \in {"lookup", "check_open"}

(* An oracle feedback sent after a human feedback was answered records the   *)
(* conflict: conflict_logged is set in what it writes.                       *)
EarlierHumanIsLogged ==
  \A t \in Threads :
    req[t].after_human /\ req[t].step \in {"close", "store_feedback"} => req[t].display

(* A closed prediction is never reopened, and a prediction once saved keeps  *)
(* its piece, its scenario and its decision.                                 *)
RowsOnlyClose ==
  [][\A p \in Predictions : predictions[p] # None =>
       /\ predictions'[p] # None
       /\ Closed(predictions[p]) => Closed(predictions'[p])
       /\ predictions'[p].identity = predictions[p].identity
       /\ predictions'[p].decision = predictions[p].decision]_vars

(* An accepted defective piece raises a false_negative incident unless a     *)
(* lost commit reply or a restart ended its handler.                         *)
EscapesAreRaised ==
  Postgres =>
    \A p \in Predictions :
      feedback_events[p] # None
        /\ FalseNegative(predictions[p].decision, feedback_events[p].verdict)
        /\ p \notin interrupted
      => \/ <<"false_negative", p>> \in INCIDENT_STORE
         \/ /\ req[feedback_events[p].closed_at].step = "store_feedback"
            /\ req[feedback_events[p].closed_at].prediction_id = p

(* docs/feedback_rules.md: a prediction can be closed only once by oracle    *)
(* feedback.                                                                 *)
ClosedOnlyOnce == \A p \in Predictions : closings[p] <= 1
=============================================================================

--------------------------- MODULE FeedbackProofs ---------------------------
(***************************************************************************)
(* Theorems about Feedback, for every set of threads, ids, identities,     *)
(* decisions and statuses, every backend and every fault: the types; the   *)
(* closure of a prediction in the tables and what the dictionaries and the *)
(* answers say of it (ClosureAgreement, RowsOnlyClose, StoresBehindTables, *)
(* AnswersAreDurable); what the answers commit the later ones to           *)
(* (LateFeedbackRejected, EarlierHumanIsLogged, EscapesAreRaised); and for *)
(* one worker thread ClosedOnlyOnce and the refinement of FeedbackLedger.  *)
(***************************************************************************)
EXTENDS Feedback, FeedbackRefinement, TLAPS

-----------------------------------------------------------------------------
(* The requests stay requests. *)

LEMMA IdleIsRequest == Idle \in Request
BY DEF Idle, Request, Steps

LEMMA StepUpdate ==
  ASSUME NEW r \in Request, NEW s \in Steps
  PROVE  [r EXCEPT !.step = s] \in Request
BY DEF Request

LEMMA SharedUpdate ==
  ASSUME NEW r \in Request, NEW b \in BOOLEAN
  PROVE  [r EXCEPT !.shared = b] \in Request
BY DEF Request

LEMMA PredictionUpdate ==
  ASSUME NEW r \in Request, NEW s \in Steps, NEW pr \in PredictionRecord \cup {None}
  PROVE  [r EXCEPT !.step = s, !.prediction = pr] \in Request
BY DEF Request

LEMMA AdmitUpdate ==
  ASSUME NEW r \in Request, NEW s \in Steps, NEW pr \in PredictionRecord
  PROVE  [r EXCEPT !.step = s, !.prediction = pr, !.shared = TRUE] \in Request
BY DEF Request

LEMMA DisplayUpdate ==
  ASSUME NEW r \in Request, NEW s \in Steps, NEW b \in BOOLEAN
  PROVE  [r EXCEPT !.step = s, !.display = b] \in Request
BY DEF Request

LEMMA PredictUpdate ==
  ASSUME NEW p \in Predictions, NEW i \in Identities, NEW pr \in PredictionRecord
  PROVE  [Idle EXCEPT !.step = "save_prediction", !.prediction_id = p, !.identity = i,
                      !.prediction = pr] \in Request
BY DEF Idle, Request, Steps

LEMMA StepNames ==
  /\ "save_prediction" \in Steps /\ "store_prediction" \in Steps /\ "lookup" \in Steps
  /\ "check_open" \in Steps /\ "save_display" \in Steps /\ "store_display" \in Steps
  /\ "read_display" \in Steps /\ "refresh_display" \in Steps /\ "close" \in Steps
  /\ "store_feedback" \in Steps
BY DEF Steps

(* One thread's request changes. *)
LEMMA OneRequestChanges ==
  ASSUME NEW f \in [Threads -> Request], NEW t \in Threads, NEW r \in Request
  PROVE  [f EXCEPT ![t] = r] \in [Threads -> Request]
OBVIOUS

LEMMA UnsharedIsTyped ==
  ASSUME req \in [Threads -> Request], NEW t \in Threads, NEW p
  PROVE  Unshared(t, p) \in [Threads -> Request]
<1> DEFINE V(u) == [req[u] EXCEPT !.shared = FALSE]
<1>1. ASSUME NEW u \in Threads PROVE V(u) \in Request
  <2>1. req[u] \in Request /\ FALSE \in BOOLEAN
    OBVIOUS
  <2>2. QED
    BY <2>1, SharedUpdate, Zenon
<1>2. Unshared(t, p) =
        [u \in Threads |-> IF u # t /\ req[u].prediction_id = p THEN V(u) ELSE req[u]]
  BY Zenon DEF Unshared
<1> HIDE DEF V
<1>3. QED
  BY <1>1, <1>2

LEMMA FeedbackIsRecord ==
  ASSUME NEW t \in Threads, req[t] \in Request
  PROVE  Feedback(t) \in FeedbackRecord
BY DEF Feedback, FeedbackRecord, OracleVerdict, TrainBlockReason, BlockReasons, Request

-----------------------------------------------------------------------------
(* What a handler may rely on between its steps: TypeOK alone is not         *)
(* inductive, since the steps use the id and the record as if present.       *)

AdmittedSteps == {"save_display", "store_display", "read_display", "refresh_display",
                  "close", "store_feedback"}

(* A request at work names a prediction; one that was admitted, or that      *)
(* predicts, holds its record; a shared record is in the dictionary.         *)
LocalOK(r, store) ==
  /\ r.step # "idle" => r.prediction_id \in Predictions
  /\ r.step \in {"save_prediction", "store_prediction"} \cup AdmittedSteps =>
       r.prediction \in PredictionRecord
  /\ r.shared => r.step \in AdmittedSteps /\ store[r.prediction_id] # None

LocalsOK == \A t \in Threads : LocalOK(req[t], PREDICTION_STORE)

TypeInv == TypeOK /\ LocalsOK

StoreKept == \A p \in Predictions : PREDICTION_STORE[p] # None => PREDICTION_STORE'[p] # None

LEMMA IdleIsOK == ASSUME NEW store PROVE LocalOK(Idle, store)
BY DEF LocalOK, Idle, AdmittedSteps

(* The two shapes the handlers' updates of req have. *)
LEMMA LocalsOfOne ==
  ASSUME TypeInv, NEW t \in Threads, NEW r \in Request, StoreKept,
         req' = [req EXCEPT ![t] = r], LocalOK(r, PREDICTION_STORE')
  PROVE  req' \in [Threads -> Request] /\ LocalsOK'
<1>1. ASSUME NEW u \in Threads PROVE LocalOK(req'[u], PREDICTION_STORE')
  BY <1>1 DEF TypeInv, TypeOK, LocalsOK, LocalOK, StoreKept, Request, AdmittedSteps
<1>2. QED
  BY <1>1 DEF TypeInv, TypeOK, LocalsOK

LEMMA LocalsOfUnshared ==
  ASSUME TypeInv, NEW t \in Threads, NEW r \in Request, NEW p \in Predictions, StoreKept,
         req' = [Unshared(t, p) EXCEPT ![t] = r], LocalOK(r, PREDICTION_STORE')
  PROVE  req' \in [Threads -> Request] /\ LocalsOK'
<1>1. Unshared(t, p) \in [Threads -> Request]
  BY UnsharedIsTyped DEF TypeInv, TypeOK
<1>2. ASSUME NEW u \in Threads, u # t PROVE LocalOK(req'[u], PREDICTION_STORE')
  <2> DEFINE v == [req[u] EXCEPT !.shared = FALSE]
  <2>1. req'[u] = v \/ req'[u] = req[u]
    BY <1>1, <1>2 DEF Unshared
  <2>2. req[u] \in Request /\ LocalOK(req[u], PREDICTION_STORE)
    BY DEF TypeInv, TypeOK, LocalsOK
  <2>3. LocalOK(v, PREDICTION_STORE')
    BY <2>2 DEF LocalOK, Request
  <2>4. LocalOK(req[u], PREDICTION_STORE')
    BY <2>2 DEF LocalOK, StoreKept, Request, AdmittedSteps
  <2>5. QED
    BY <2>1, <2>3, <2>4
<1>3. QED
  BY <1>1, <1>2, OneRequestChanges DEF LocalsOK

(* Both outcomes of a lookup: the dictionary keeps its records. *)
LEMMA RefreshIsTyped ==
  ASSUME TypeInv, NEW t \in Threads, NEW r \in Request, At(t, "check_open"),
         r = Idle \/ (r.step \in AdmittedSteps /\ r.prediction_id = req[t].prediction_id
                        /\ r.prediction = Found(t) /\ Found(t) # None),
         Refresh(t, r)
  PROVE  /\ req' \in [Threads -> Request] /\ LocalsOK'
         /\ PREDICTION_STORE' \in [Predictions -> PredictionRecord \cup {None}]
<1> DEFINE p == req[t].prediction_id
<1>0. /\ req \in [Threads -> Request] /\ req[t] \in Request
      /\ PREDICTION_STORE \in [Predictions -> PredictionRecord \cup {None}]
  BY DEF TypeInv, TypeOK
<1>1. p \in Predictions
  BY DEF TypeInv, LocalsOK, LocalOK, At
<1>2. CASE req[t].prediction # None
  <2>1. req[t].prediction \in PredictionRecord
    BY <1>0, <1>2 DEF Request
  <2>2. /\ req' = [Unshared(t, p) EXCEPT ![t] = r]
        /\ PREDICTION_STORE' = [PREDICTION_STORE EXCEPT ![p] = req[t].prediction]
    BY <1>2 DEF Refresh
  <2>3. /\ StoreKept /\ PREDICTION_STORE'[p] # None
        /\ PREDICTION_STORE' \in [Predictions -> PredictionRecord \cup {None}]
    BY <1>0, <1>1, <1>2, <2>1, <2>2 DEF StoreKept
  <2>4. LocalOK(r, PREDICTION_STORE')
    BY <1>1, <1>2, <2>1, <2>3, IdleIsOK DEF LocalOK, Found, AdmittedSteps
  <2>5. QED
    BY <1>1, <2>2, <2>3, <2>4, LocalsOfUnshared
<1>3. CASE req[t].prediction = None
  <2>1. req' = [req EXCEPT ![t] = r] /\ PREDICTION_STORE' = PREDICTION_STORE
    BY <1>3 DEF Refresh
  <2>2. StoreKept
    BY <2>1 DEF StoreKept
  <2>3. LocalOK(r, PREDICTION_STORE')
    BY <1>0, <1>1, <1>3, <2>1, IdleIsOK DEF LocalOK, Found, AdmittedSteps
  <2>4. QED
    BY <1>0, <2>1, <2>2, <2>3, LocalsOfOne
<1>4. QED
  BY <1>2, <1>3

(* WritePrediction and WriteClosing keep the tables' types. *)
LEMMA WritesAreTyped ==
  ASSUME TypeInv, NEW t \in Threads, req[t].prediction_id \in Predictions
  PROVE  /\ WritePrediction(t) /\ req[t].prediction \in PredictionRecord =>
              /\ predictions' \in [Predictions -> PredictionRecord \cup {None}]
              /\ UNCHANGED <<feedback_events, display_feedback_events, closings>>
         /\ WriteClosing(t) /\ predictions[req[t].prediction_id] # None =>
              /\ predictions' \in [Predictions -> PredictionRecord \cup {None}]
              /\ feedback_events' \in [Predictions -> FeedbackRecord \cup {None}]
              /\ closings' \in [Predictions -> Nat]
              /\ UNCHANGED display_feedback_events
<1> DEFINE p == req[t].prediction_id
<1>1. ASSUME WritePrediction(t), req[t].prediction \in PredictionRecord
      PROVE  /\ predictions' \in [Predictions -> PredictionRecord \cup {None}]
             /\ UNCHANGED <<feedback_events, display_feedback_events, closings>>
  BY <1>1 DEF WritePrediction, TypeInv, TypeOK
<1>2. ASSUME WriteClosing(t), predictions[p] # None
      PROVE  /\ predictions' \in [Predictions -> PredictionRecord \cup {None}]
             /\ feedback_events' \in [Predictions -> FeedbackRecord \cup {None}]
             /\ closings' \in [Predictions -> Nat]
             /\ UNCHANGED display_feedback_events
  <2>1. predictions[p] \in PredictionRecord
    BY <1>2 DEF TypeInv, TypeOK
  <2>2. [predictions[p] EXCEPT !.feedback_closed_at = t] \in PredictionRecord
    BY <2>1 DEF PredictionRecord, Stamp
  <2>3. predictions' \in [Predictions -> PredictionRecord \cup {None}]
    BY <1>2, <2>2 DEF WriteClosing, TypeInv, TypeOK
  <2>4. Feedback(t) \in FeedbackRecord
    BY FeedbackIsRecord DEF TypeInv, TypeOK
  <2>5. QED
    BY <1>2, <2>3, <2>4 DEF WriteClosing, TypeInv, TypeOK
<1>3. QED
  BY <1>1, <1>2

-----------------------------------------------------------------------------
(* Every step keeps the types. *)
LEMMA TypeInvKept ==
  ASSUME TypeInv, [Next]_vars
  PROVE  TypeInv'
<1>0. /\ TypeOK /\ req \in [Threads -> Request]
      /\ PREDICTION_STORE \in [Predictions -> PredictionRecord \cup {None}]
  BY DEF TypeInv, TypeOK
<1>1. CASE Restart
  BY <1>0, <1>1, IdleIsRequest, IdleIsOK DEF Restart, tables, TypeInv, TypeOK, LocalsOK
<1>2. ASSUME NEW t \in Threads, Handle(t) PROVE TypeInv'
  <2> DEFINE p == req[t].prediction_id
  <2>0. /\ req[t] \in Request /\ LocalOK(req[t], PREDICTION_STORE)
        /\ ~At(t, "idle") => p \in Predictions
        /\ req[t].step \in {"save_prediction", "store_prediction"} \cup AdmittedSteps =>
             req[t].prediction \in PredictionRecord
        /\ req[t].shared => PREDICTION_STORE[p] # None
    BY <1>0 DEF TypeInv, LocalsOK, LocalOK, At
  <2>1. CASE Predict(t)
    <3>1. PICK q \in Predictions, i \in Identities, d \in Decisions :
            /\ issued' = issued \cup {q}
            /\ req' = [req EXCEPT ![t] = [Idle EXCEPT
                  !.step = "save_prediction", !.prediction_id = q, !.identity = i,
                  !.prediction = [identity |-> i, decision |-> d,
                                  feedback_closed_at |-> None]]]
      BY <2>1 DEF Predict
    <3> DEFINE pr == [identity |-> i, decision |-> d, feedback_closed_at |-> None]
               r == [Idle EXCEPT !.step = "save_prediction", !.prediction_id = q,
                                 !.identity = i, !.prediction = pr]
    <3>2. pr \in PredictionRecord
      BY DEF PredictionRecord, Stamp
    <3>3. r \in Request
      BY <3>2, PredictUpdate
    <3>4. LocalOK(r, PREDICTION_STORE') /\ StoreKept
      BY <2>1, <3>2 DEF LocalOK, AdmittedSteps, Idle, StoreKept, Predict, stores
    <3>5. req' = [req EXCEPT ![t] = r]
      BY <3>1
    <3> HIDE DEF r
    <3>6. QED
      BY <2>1, <3>1, <3>3, <3>4, <3>5, LocalsOfOne
      DEF Predict, tables, stores, TypeInv, TypeOK
  <2>2. CASE SavePrediction(t)
    <3> DEFINE r == [req[t] EXCEPT !.step = "store_prediction"]
    <3>1. r \in Request /\ LocalOK(r, PREDICTION_STORE') /\ StoreKept
      BY <2>0, <2>2, StepUpdate, StepNames
      DEF SavePrediction, At, stores, StoreKept, LocalOK, AdmittedSteps, Request
    <3>2. req' = [req EXCEPT ![t] = r]
      BY <2>2 DEF SavePrediction, Goto
    <3>3. /\ predictions' \in [Predictions -> PredictionRecord \cup {None}]
          /\ UNCHANGED <<feedback_events, display_feedback_events, closings>>
      BY <1>0, <2>0, <2>2, WritesAreTyped DEF SavePrediction, At, tables, TypeOK
    <3> HIDE DEF r
    <3>4. req' \in [Threads -> Request] /\ LocalsOK'
      BY <3>1, <3>2, LocalsOfOne
    <3>5. QED
      BY <1>0, <2>2, <3>3, <3>4 DEF SavePrediction, stores, TypeInv, TypeOK
  <2>3. CASE StorePrediction(t)
    <3>1. /\ p \in Predictions /\ req[t].prediction \in PredictionRecord
          /\ PREDICTION_STORE' = [PREDICTION_STORE EXCEPT ![p] = req[t].prediction]
          /\ req' = [Unshared(t, p) EXCEPT ![t] = Idle]
      BY <2>0, <2>3 DEF StorePrediction, At
    <3>2. PREDICTION_STORE' \in [Predictions -> PredictionRecord \cup {None}] /\ StoreKept
      BY <1>0, <3>1, RecordsAssumption DEF StoreKept
    <3>3. req' \in [Threads -> Request] /\ LocalsOK'
      BY <3>1, <3>2, IdleIsRequest, IdleIsOK, LocalsOfUnshared
    <3>4. QED
      BY <1>0, <2>3, <3>2, <3>3 DEF StorePrediction, tables, history, TypeInv, TypeOK
  <2>4. ASSUME NEW q \in Predictions, NEW i \in Identities, NEW src \in Sources,
               NEW st \in Statuses \cup {None}, NEW defect \in BOOLEAN,
               Submit(t, q, i, src, st, defect)
        PROVE  TypeInv'
    <3> DEFINE c == <<"closed", q>> \in answered
               h == <<"displayed", q>> \in answered
               r == [Idle EXCEPT !.step = "lookup", !.prediction_id = q, !.identity = i,
                       !.feedback_source = src, !.feedback_status = st,
                       !.gt_mask_has_defect = defect, !.after_close = c, !.after_human = h]
    <3>1. r \in Request
      <4>1. c \in BOOLEAN /\ h \in BOOLEAN
        OBVIOUS
      <4> HIDE DEF c, h
      <4>2. QED
        BY <4>1 DEF Idle, Request, Steps
    <3>2. LocalOK(r, PREDICTION_STORE') /\ StoreKept
      BY <2>4 DEF LocalOK, AdmittedSteps, Idle, StoreKept, Submit, stores
    <3>3. req' = [req EXCEPT ![t] = r]
      BY <2>4 DEF Submit
    <3> HIDE DEF r
    <3>4. req' \in [Threads -> Request] /\ LocalsOK'
      BY <3>1, <3>2, <3>3, LocalsOfOne
    <3>5. QED
      BY <1>0, <2>4, <3>4 DEF Submit, tables, stores, history, TypeInv, TypeOK
  <2>5. CASE SubmitOracle(t) \/ SubmitHuman(t)
    BY <2>4, <2>5 DEF SubmitOracle, SubmitHuman, Sources
  <2>6. CASE Lookup(t)
    <3> DEFINE rec == ReadPrediction(p)
               r == [req[t] EXCEPT !.step = "check_open", !.prediction = rec]
    <3>1. rec \in PredictionRecord \cup {None}
      BY <1>0, <2>0, <2>6 DEF ReadPrediction, TypeOK, Lookup, At
    <3>2. req' = [req EXCEPT ![t] = r]
      BY <2>6 DEF Lookup
    <3> HIDE DEF rec
    <3>3. r \in Request
      BY <2>0, <3>1, PredictionUpdate, StepNames
    <3>4. LocalOK(r, PREDICTION_STORE') /\ StoreKept
      BY <2>0, <2>6, <3>1
      DEF LocalOK, AdmittedSteps, StoreKept, Lookup, At, stores, Request
    <3> HIDE DEF r
    <3>5. req' \in [Threads -> Request] /\ LocalsOK'
      BY <3>2, <3>3, <3>4, LocalsOfOne
    <3>6. QED
      BY <1>0, <2>6, <3>5 DEF Lookup, tables, stores, history, TypeInv, TypeOK
  <2>7. ASSUME Finish(t), UNCHANGED PREDICTION_STORE
        PROVE  req' \in [Threads -> Request] /\ LocalsOK'
    <3>1. StoreKept /\ req' = [req EXCEPT ![t] = Idle]
      BY <2>7 DEF StoreKept, Finish
    <3>2. QED
      BY <3>1, IdleIsRequest, IdleIsOK, LocalsOfOne
  <2>8. CASE RefuseUnknown(t)
    BY <1>0, <2>7, <2>8 DEF RefuseUnknown, tables, stores, history, TypeInv, TypeOK
  <2>9. CASE RefuseMismatch(t)
    <3>1. /\ req' \in [Threads -> Request] /\ LocalsOK'
          /\ PREDICTION_STORE' \in [Predictions -> PredictionRecord \cup {None}]
      BY <2>9, RefreshIsTyped, IdleIsRequest DEF RefuseMismatch
    <3>2. QED
      BY <1>0, <2>0, <2>9, <3>1
      DEF RefuseMismatch, RaiseIncidents, At, tables, history, TypeInv, TypeOK
  <2>10. CASE RefuseClosed(t)
    <3>1. /\ req' \in [Threads -> Request] /\ LocalsOK'
          /\ PREDICTION_STORE' \in [Predictions -> PredictionRecord \cup {None}]
      BY <2>10, RefreshIsTyped, IdleIsRequest DEF RefuseClosed
    <3>2. QED
      BY <1>0, <2>10, <3>1 DEF RefuseClosed, tables, history, TypeInv, TypeOK
  <2>11. CASE Admit(t)
    <3> DEFINE s == IF req[t].feedback_source = "human_sophie"
                    THEN "save_display" ELSE "read_display"
               rec == Found(t)
               r == [req[t] EXCEPT !.step = s, !.prediction = rec, !.shared = TRUE]
    <3>1. s \in Steps /\ s \in AdmittedSteps
      BY DEF Steps, AdmittedSteps
    <3>2. rec \in PredictionRecord /\ rec # None
      BY <1>0, <2>0, <2>11 DEF Admit, At, Found, Request
    <3>3. Refresh(t, r) /\ At(t, "check_open")
      BY <2>11 DEF Admit
    <3> HIDE DEF s
    <3>4. rec = Found(t)
      OBVIOUS
    <3> HIDE DEF rec
    <3>5. r \in Request
      BY <2>0, <3>1, <3>2, AdmitUpdate
    <3>6. r.step \in AdmittedSteps /\ r.prediction_id = p /\ r.prediction = Found(t)
      BY <2>0, <3>1, <3>4 DEF Request
    <3> HIDE DEF r
    <3>7. /\ req' \in [Threads -> Request] /\ LocalsOK'
          /\ PREDICTION_STORE' \in [Predictions -> PredictionRecord \cup {None}]
      BY <3>2, <3>3, <3>4, <3>5, <3>6, RefreshIsTyped
    <3>8. QED
      BY <1>0, <2>11, <3>7 DEF Admit, tables, history, TypeInv, TypeOK
  <2>12. CASE SaveDisplay(t)
    <3> DEFINE r == [req[t] EXCEPT !.step = "store_display"]
    <3>1. r \in Request /\ LocalOK(r, PREDICTION_STORE') /\ StoreKept
      BY <2>0, <2>12, StepUpdate, StepNames
      DEF SaveDisplay, At, stores, StoreKept, LocalOK, AdmittedSteps, Request
    <3>2. req' = [req EXCEPT ![t] = r]
      BY <2>12 DEF SaveDisplay, Goto
    <3> HIDE DEF r
    <3>3. req' \in [Threads -> Request] /\ LocalsOK'
      BY <3>1, <3>2, LocalsOfOne
    <3>4. QED
      BY <1>0, <2>0, <2>12, <3>3
      DEF SaveDisplay, WriteDisplay, At, tables, stores, TypeInv, TypeOK
  <2>13. CASE StoreDisplay(t)
    BY <1>0, <2>0, <2>7, <2>13 DEF StoreDisplay, Answer, At, tables, TypeInv, TypeOK
  <2>14. CASE ReadDisplay(t)
    <3> DEFINE b == ReadDisplayRow(p)
               r == [req[t] EXCEPT !.step = "refresh_display", !.display = b]
    <3>1. b \in BOOLEAN
      BY DEF ReadDisplayRow
    <3>2. req' = [req EXCEPT ![t] = r]
      BY <2>14 DEF ReadDisplay
    <3> HIDE DEF b
    <3>3. r \in Request /\ LocalOK(r, PREDICTION_STORE') /\ StoreKept
      BY <2>0, <2>14, <3>1, DisplayUpdate, StepNames
      DEF ReadDisplay, At, stores, StoreKept, LocalOK, AdmittedSteps, Request
    <3> HIDE DEF r
    <3>4. req' \in [Threads -> Request] /\ LocalsOK'
      BY <3>2, <3>3, LocalsOfOne
    <3>5. QED
      BY <1>0, <2>14, <3>4 DEF ReadDisplay, tables, stores, history, TypeInv, TypeOK
  <2>15. CASE RefreshDisplay(t)
    <3> DEFINE b == req[t].display \/ p \in DISPLAY_FEEDBACK_STORE
               r == [req[t] EXCEPT !.step = "close", !.display = b]
    <3>1. b \in BOOLEAN
      OBVIOUS
    <3>2. req' = [req EXCEPT ![t] = r]
      BY <2>15 DEF RefreshDisplay
    <3> HIDE DEF b
    <3>3. r \in Request /\ LocalOK(r, PREDICTION_STORE') /\ StoreKept
      BY <2>0, <2>15, <3>1, DisplayUpdate, StepNames
      DEF RefreshDisplay, At, StoreKept, LocalOK, AdmittedSteps, Request
    <3> HIDE DEF r
    <3>4. req' \in [Threads -> Request] /\ LocalsOK'
      BY <3>2, <3>3, LocalsOfOne
    <3>5. QED
      BY <1>0, <2>0, <2>15, <3>4
      DEF RefreshDisplay, At, tables, history, TypeInv, TypeOK
  <2>16. CASE Close(t)
    <3> DEFINE r == [req[t] EXCEPT !.step = "store_feedback"]
    <3>1. r \in Request /\ LocalOK(r, PREDICTION_STORE') /\ StoreKept
      BY <2>0, <2>16, StepUpdate, StepNames
      DEF Close, At, stores, StoreKept, LocalOK, AdmittedSteps, Request
    <3>2. req' = [req EXCEPT ![t] = r]
      BY <2>16 DEF Close, Goto
    <3> HIDE DEF r
    <3>3. req' \in [Threads -> Request] /\ LocalsOK'
      BY <3>1, <3>2, LocalsOfOne
    <3>4. /\ predictions' \in [Predictions -> PredictionRecord \cup {None}]
          /\ feedback_events' \in [Predictions -> FeedbackRecord \cup {None}]
          /\ closings' \in [Predictions -> Nat]
          /\ UNCHANGED display_feedback_events
      BY <1>0, <2>0, <2>16, WritesAreTyped DEF Close, At, tables, TypeOK
    <3>5. QED
      BY <1>0, <2>16, <3>3, <3>4 DEF Close, stores, TypeInv, TypeOK
  <2>17. CASE StoreFeedback(t)
    <3>1. /\ PREDICTION_STORE' \in [Predictions -> PredictionRecord \cup {None}]
          /\ StoreKept
      <4>1. CASE req[t].shared
        <5> DEFINE rec == [PREDICTION_STORE[p] EXCEPT !.feedback_closed_at = t]
        <5>1. PREDICTION_STORE[p] \in PredictionRecord
          BY <1>0, <2>0, <2>17, <4>1 DEF StoreFeedback, At
        <5>2. rec \in PredictionRecord
          BY <5>1 DEF PredictionRecord, Stamp
        <5>3. PREDICTION_STORE' = [PREDICTION_STORE EXCEPT ![p] = rec]
          BY <2>17, <4>1 DEF StoreFeedback
        <5>4. rec # None
          BY <5>2, RecordsAssumption
        <5> HIDE DEF rec
        <5>5. QED
          BY <1>0, <5>2, <5>3, <5>4 DEF StoreKept
      <4>2. CASE ~req[t].shared
        BY <1>0, <2>17, <4>2 DEF StoreFeedback, StoreKept
      <4>3. QED
        BY <4>1, <4>2
    <3>2. req' \in [Threads -> Request] /\ LocalsOK'
      BY <2>17, <3>1, IdleIsRequest, IdleIsOK, LocalsOfOne DEF StoreFeedback, Finish
    <3>3. Feedback(t) \in FeedbackRecord
      BY <2>0, FeedbackIsRecord
    <3>4. INCIDENT_STORE' \subseteq
            {"feedback_conflict", "false_negative", "roi_fail"} \X Predictions
      BY <1>0, <2>0, <2>17
      DEF StoreFeedback, RaiseIncidents, ClosingIncidents, At, TypeOK
    <3>5. closings' \in [Predictions -> Nat]
      <4>1. closings \in [Predictions -> Nat]
        BY <1>0 DEF TypeOK
      <4>2. \/ closings' = closings
            \/ closings' = [closings EXCEPT ![p] = closings[p] + 1]
        BY <2>17 DEF StoreFeedback
      <4>3. QED
        BY <2>0, <2>17, <4>1, <4>2 DEF StoreFeedback, At
    <3>6. QED
      BY <1>0, <2>0, <2>17, <3>1, <3>2, <3>3, <3>4, <3>5
      DEF StoreFeedback, Answer, At, tables, TypeInv, TypeOK
  <2>18. CASE CallFails(t)
    BY <1>0, <2>7, <2>18 DEF CallFails, Abort, tables, stores, history, TypeInv, TypeOK
  <2>19. CASE ReplyLost(t)
    <3>1. req' \in [Threads -> Request] /\ LocalsOK'
      BY <2>7, <2>19 DEF ReplyLost, Abort, stores
    <3>2. CASE At(t, "save_prediction") /\ WritePrediction(t) /\ UNCHANGED interrupted
      BY <1>0, <2>0, <2>19, <3>1, <3>2, WritesAreTyped
      DEF ReplyLost, At, stores, TypeInv, TypeOK
    <3>3. CASE At(t, "save_display") /\ WriteDisplay(t) /\ UNCHANGED interrupted
      BY <1>0, <2>0, <2>19, <3>1, <3>3
      DEF ReplyLost, WriteDisplay, At, stores, TypeInv, TypeOK
    <3>4. CASE /\ At(t, "close") /\ predictions[p] # None
               /\ WriteClosing(t)
               /\ interrupted' = interrupted \cup {p}
      BY <1>0, <2>0, <2>19, <3>1, <3>4, WritesAreTyped
      DEF ReplyLost, At, stores, TypeInv, TypeOK
    <3>5. QED
      BY <2>19, <3>2, <3>3, <3>4 DEF ReplyLost
  <2>20. QED
    BY <1>2, <2>1, <2>2, <2>3, <2>5, <2>6, <2>8, <2>9, <2>10, <2>11, <2>12, <2>13,
       <2>14, <2>15, <2>16, <2>17, <2>18, <2>19 DEF Handle
<1>3. CASE UNCHANGED vars
  BY <1>3 DEF vars, tables, stores, history, TypeInv, TypeOK, LocalsOK
<1>4. QED
  BY <1>1, <1>2, <1>3 DEF Next

(* The inductive typing invariant: every handler keeps it. *)
THEOREM TypeInvariant == Spec => []TypeInv
<1>1. Init => TypeInv
  BY IdleIsRequest, IdleIsOK DEF Init, TypeInv, TypeOK, LocalsOK
<1>2. TypeInv /\ [Next]_vars => TypeInv'
  BY TypeInvKept
<1>3. QED
  BY <1>1, <1>2, PTL DEF Spec

(* TypeOK, the type invariant the runs check. *)
THEOREM TypeCorrect == Spec => []TypeOK
<1>1. TypeInv => TypeOK
  BY DEF TypeInv
<1>2. QED
  BY <1>1, TypeInvariant, PTL

-----------------------------------------------------------------------------
(* What one handler's step can do to the rest of the state. *)

(* To the other requests: at most, their record is no longer shared. *)
LEMMA OthersKept ==
  ASSUME TypeInv, NEW t \in Threads, Handle(t), NEW u \in Threads, u # t
  PROVE  req'[u] = req[u] \/ req'[u] = [req[u] EXCEPT !.shared = FALSE]
<1>0. req \in [Threads -> Request]
  BY DEF TypeInv, TypeOK
<1> DEFINE Q == req'[u] = req[u] \/ req'[u] = [req[u] EXCEPT !.shared = FALSE]
<1>1. ASSUME NEW r, req' = [req EXCEPT ![t] = r] PROVE Q
  BY <1>0, <1>1
<1>2. ASSUME NEW r, NEW p, req' = [Unshared(t, p) EXCEPT ![t] = r] PROVE Q
  BY <1>0, <1>2 DEF Unshared
<1>3. ASSUME NEW r, Refresh(t, r) PROVE Q
  BY <1>1, <1>2, <1>3 DEF Refresh
<1> HIDE DEF Q
<1>4. CASE Predict(t) \/ SubmitOracle(t) \/ SubmitHuman(t)
  BY <1>1, <1>4, Zenon DEF Predict, SubmitOracle, SubmitHuman, Submit, Q
<1>5. CASE SavePrediction(t) \/ SaveDisplay(t) \/ Close(t)
  BY <1>0, <1>5 DEF SavePrediction, SaveDisplay, Close, Goto, Q
<1>6. CASE StorePrediction(t)
  BY <1>2, <1>6, Zenon DEF StorePrediction, Q
<1>7. CASE RefuseMismatch(t) \/ RefuseClosed(t) \/ Admit(t)
  BY <1>3, <1>7, Zenon DEF RefuseMismatch, RefuseClosed, Admit, Q
<1>8. CASE Lookup(t) \/ ReadDisplay(t) \/ RefreshDisplay(t)
  BY <1>0, <1>8 DEF Lookup, ReadDisplay, RefreshDisplay, Q
<1>9. CASE RefuseUnknown(t) \/ StoreDisplay(t) \/ StoreFeedback(t)
           \/ CallFails(t) \/ ReplyLost(t)
  <2>1. Finish(t)
    BY <1>9, Zenon DEF RefuseUnknown, StoreDisplay, StoreFeedback, CallFails, ReplyLost, Abort
  <2>2. QED
    BY <1>1, <2>1, Zenon DEF Finish, Q
<1>10. QED
  BY <1>4, <1>5, <1>6, <1>7, <1>8, <1>9 DEF Handle, Q

(* To the tables: nothing, or one of three transactions. *)
TableStep(t) ==
  \/ UNCHANGED tables
  \/ At(t, "save_prediction") /\ Postgres /\ WritePrediction(t)
  \/ At(t, "save_display") /\ Postgres /\ WriteDisplay(t)
  \/ /\ At(t, "close") /\ Postgres /\ predictions[req[t].prediction_id] # None
     /\ WriteClosing(t)

LEMMA TableSteps ==
  ASSUME NEW t \in Threads, Handle(t) PROVE TableStep(t)
<1>1. CASE SavePrediction(t) \/ SaveDisplay(t) \/ Close(t)
  BY <1>1, Zenon DEF SavePrediction, SaveDisplay, Close, TableStep, tables
<1>2. CASE ReplyLost(t)
  BY <1>2, Zenon DEF ReplyLost, TableStep
<1>3. CASE Predict(t) \/ SubmitOracle(t) \/ SubmitHuman(t)
  BY <1>3, Zenon DEF Predict, SubmitOracle, SubmitHuman, Submit, TableStep
<1>4. QED
  BY <1>1, <1>2, <1>3, Zenon
  DEF Handle, StorePrediction, Lookup, RefuseUnknown, RefuseMismatch, RefuseClosed, Admit,
      StoreDisplay, ReadDisplay, RefreshDisplay, StoreFeedback, CallFails, TableStep

LEMMA BackendKept == ASSUME [Next]_vars PROVE backend' = backend
<1>1. CASE Restart \/ UNCHANGED vars
  BY <1>1 DEF Restart, vars
<1>2. ASSUME NEW t \in Threads, Handle(t) PROVE backend' = backend
  BY <1>2, Zenon
  DEF Handle, Predict, SavePrediction, StorePrediction, SubmitOracle, SubmitHuman, Submit,
      Lookup, RefuseUnknown, RefuseMismatch, RefuseClosed, Admit, SaveDisplay, StoreDisplay,
      ReadDisplay, RefreshDisplay, Close, StoreFeedback, CallFails, ReplyLost
<1>3. QED
  BY <1>1, <1>2 DEF Next

(* Only /predict begins a save, under an id never drawn before. *)
LEMMA SaversAreNew ==
  ASSUME TypeInv, NEW t \in Threads, Handle(t)
  PROVE  \/ issued' = issued /\ req'[t].step # "save_prediction"
         \/ /\ UNCHANGED tables
            /\ req'[t].prediction_id \in Predictions \ issued
            /\ issued' = issued \cup {req'[t].prediction_id}
            /\ req'[t].step = "save_prediction" /\ ~Closed(req'[t].prediction)
<1> DEFINE Q == issued' = issued /\ req'[t].step # "save_prediction"
<1>0. req \in [Threads -> Request] /\ req[t] \in Request
  BY DEF TypeInv, TypeOK
<1>1. CASE Predict(t)
  <2>1. PICK p \in Predictions, i \in Identities, d \in Decisions :
          /\ PredictionId(p) /\ issued' = issued \cup {p}
          /\ req' = [req EXCEPT ![t] = [Idle EXCEPT
               !.step = "save_prediction", !.prediction_id = p, !.identity = i,
               !.prediction = [identity |-> i, decision |-> d, feedback_closed_at |-> None]]]
    BY <1>1, Zenon DEF Predict
  <2>2. /\ req'[t].step = "save_prediction" /\ req'[t].prediction_id = p
        /\ req'[t].prediction.feedback_closed_at = None
    BY <1>0, <2>1 DEF Idle
  <2>3. UNCHANGED tables
    BY <1>1 DEF Predict
  <2>4. QED
    BY <2>1, <2>2, <2>3 DEF PredictionId, Closed
<1>2. ASSUME Finish(t), issued' = issued PROVE Q
  BY <1>0, <1>2 DEF Finish, Idle
<1>3. CASE SubmitOracle(t) \/ SubmitHuman(t)
  <2>1. PICK p, i, src, st, defect : Submit(t, p, i, src, st, defect)
    BY <1>3, Zenon DEF SubmitOracle, SubmitHuman
  <2>2. QED
    BY <1>0, <2>1 DEF Submit, Idle, history
<1>4. CASE SavePrediction(t) \/ SaveDisplay(t) \/ Close(t) \/ Lookup(t) \/ ReadDisplay(t)
           \/ RefreshDisplay(t)
  BY <1>0, <1>4
  DEF SavePrediction, SaveDisplay, Close, Lookup, ReadDisplay, RefreshDisplay, Goto, history,
      Request
<1>5. CASE StorePrediction(t)
  BY <1>0, <1>5, UnsharedIsTyped DEF StorePrediction, Idle, history
<1>6. ASSUME NEW r, r.step # "save_prediction", Refresh(t, r), UNCHANGED history PROVE Q
  BY <1>0, <1>6, UnsharedIsTyped DEF Refresh, history
<1>7. CASE RefuseMismatch(t) \/ RefuseClosed(t)
  BY <1>6, <1>7 DEF RefuseMismatch, RefuseClosed, Idle
<1>8. CASE Admit(t)
  <2> DEFINE s == IF req[t].feedback_source = "human_sophie"
                  THEN "save_display" ELSE "read_display"
             r == [req[t] EXCEPT !.step = s, !.prediction = Found(t), !.shared = TRUE]
  <2>1. Refresh(t, r) /\ UNCHANGED history
    BY <1>8, Zenon DEF Admit
  <2>2. r.step # "save_prediction"
    BY <1>0 DEF Request
  <2> HIDE DEF r
  <2>3. QED
    BY <1>6, <2>1, <2>2
<1>9. CASE RefuseUnknown(t) \/ StoreDisplay(t) \/ StoreFeedback(t)
           \/ CallFails(t) \/ ReplyLost(t)
  <2>1. Finish(t) /\ issued' = issued
    BY <1>9, Zenon
    DEF RefuseUnknown, StoreDisplay, StoreFeedback, CallFails, ReplyLost, Abort, history
  <2>2. QED
    BY <1>2, <2>1
<1>10. QED
  BY <1>1, <1>3, <1>4, <1>5, <1>7, <1>8, <1>9 DEF Handle

-----------------------------------------------------------------------------
(* Ids are drawn once: a request about to save a prediction finds no row.    *)

Saving(t) == At(t, "save_prediction")

FreshIds ==
  /\ \A p \in Predictions : predictions[p] # None => p \in issued
  /\ \A t \in Threads : Saving(t) =>
       /\ req[t].prediction_id \in issued
       /\ predictions[req[t].prediction_id] = None
       /\ ~Closed(req[t].prediction)
  /\ \A t, u \in Threads : Saving(t) /\ Saving(u) /\ t # u =>
       req[t].prediction_id # req[u].prediction_id

ClosureInv == TypeInv /\ FreshIds /\ ClosureAgreement

(* A row changes by being inserted where there was none or by being closed.  *)
LEMMA RowChanges ==
  ASSUME TypeInv, FreshIds, NEW t \in Threads, Handle(t), NEW p \in Predictions
  PROVE  \/ predictions'[p] = predictions[p]
         \/ predictions[p] = None /\ p = req[t].prediction_id /\ Saving(t)
         \/ /\ predictions[p] # None
            /\ predictions'[p] = [predictions[p] EXCEPT !.feedback_closed_at = t]
<1>1. TableStep(t)
  BY TableSteps
<1>2. /\ predictions \in [Predictions -> PredictionRecord \cup {None}]
      /\ Saving(t) => predictions[req[t].prediction_id] = None
  BY DEF TypeInv, TypeOK, FreshIds
<1>3. QED
  BY <1>1, <1>2 DEF TableStep, tables, WritePrediction, WriteDisplay, WriteClosing, Saving

LEMMA FreshIdsKept ==
  ASSUME TypeInv, FreshIds, NEW t \in Threads, Handle(t) PROVE FreshIds'
<1>0. req \in [Threads -> Request] /\ TypeOK
  BY DEF TypeInv, TypeOK
<1>1. ASSUME NEW u \in Threads, u # t
      PROVE  /\ req'[u].step = req[u].step /\ req'[u].prediction_id = req[u].prediction_id
             /\ req'[u].prediction = req[u].prediction
  <2>1. req'[u] = req[u] \/ req'[u] = [req[u] EXCEPT !.shared = FALSE]
    BY <1>1, OthersKept
  <2>2. QED
    BY <1>0, <2>1 DEF Request
<1>2. \/ issued' = issued /\ req'[t].step # "save_prediction"
      \/ /\ UNCHANGED tables
         /\ req'[t].prediction_id \in Predictions \ issued
         /\ issued' = issued \cup {req'[t].prediction_id}
         /\ req'[t].step = "save_prediction" /\ ~Closed(req'[t].prediction)
  BY SaversAreNew
<1>3. ASSUME NEW p \in Predictions, predictions'[p] # None PROVE p \in issued'
  <2>1. \/ predictions'[p] = predictions[p]
        \/ predictions[p] = None /\ p = req[t].prediction_id /\ Saving(t)
        \/ predictions[p] # None
    BY RowChanges
  <2>2. p \in issued
    BY <1>3, <2>1 DEF FreshIds
  <2>3. QED
    BY <1>2, <2>2
<1>4. ASSUME NEW u \in Threads, Saving(u)'
      PROVE  /\ req'[u].prediction_id \in issued'
             /\ predictions'[req'[u].prediction_id] = None
             /\ ~Closed(req'[u].prediction)
  <2>1. CASE u = t
    BY <1>2, <1>4, <2>1 DEF Saving, At, FreshIds, tables
  <2>2. CASE u # t
    <3>1. Saving(u) /\ req[u].prediction_id \in Predictions
      BY <1>1, <1>4, <2>2 DEF Saving, At, TypeInv, LocalsOK, LocalOK
    <3>2. Saving(t) => req[t].prediction_id # req[u].prediction_id
      BY <2>2, <3>1 DEF FreshIds
    <3>3. predictions'[req[u].prediction_id] = None
      BY <3>1, <3>2, RowChanges DEF FreshIds
    <3>4. QED
      BY <1>1, <1>2, <2>2, <3>1, <3>3 DEF FreshIds, Closed
  <2>3. QED
    BY <2>1, <2>2
<1>5. ASSUME NEW u \in Threads, NEW v \in Threads, Saving(u)', Saving(v)', u # v
      PROVE  req'[u].prediction_id # req'[v].prediction_id
  BY <1>1, <1>2, <1>5 DEF Saving, At, FreshIds
<1>6. QED
  BY <1>3, <1>4, <1>5 DEF FreshIds

LEMMA ClosureKept ==
  ASSUME ClosureInv, NEW t \in Threads, Handle(t), backend' = backend PROVE ClosureAgreement'
<1> SUFFICES ASSUME Postgres', NEW p \in Predictions
    PROVE  /\ feedback_events'[p] # None <=> predictions'[p] # None /\ Closed(predictions'[p])
           /\ feedback_events'[p] # None =>
                feedback_events'[p].closed_at = predictions'[p].feedback_closed_at
  BY DEF ClosureAgreement, Closed
<1>0. /\ Postgres /\ TypeInv /\ FreshIds
      /\ predictions \in [Predictions -> PredictionRecord \cup {None}]
      /\ feedback_events \in [Predictions -> FeedbackRecord \cup {None}]
      /\ feedback_events[p] # None <=> predictions[p] # None /\ Closed(predictions[p])
      /\ feedback_events[p] # None =>
           feedback_events[p].closed_at = predictions[p].feedback_closed_at
      /\ None \notin Threads /\ req[t] \in Request
  BY ThreadsAssumption DEF ClosureInv, TypeInv, TypeOK, ClosureAgreement, Postgres
<1> DEFINE q == req[t].prediction_id
<1>1. CASE UNCHANGED tables \/ (At(t, "save_display") /\ WriteDisplay(t))
  BY <1>0, <1>1 DEF tables, WriteDisplay, Closed
<1>2. CASE At(t, "save_prediction") /\ WritePrediction(t)
  <2>1. predictions[q] = None /\ ~Closed(req[t].prediction)
    BY <1>0, <1>2 DEF FreshIds, Saving
  <2>2. QED
    BY <1>0, <1>2, <2>1 DEF WritePrediction, Closed
<1>3. CASE At(t, "close") /\ predictions[q] # None /\ WriteClosing(t)
  <2>1. Feedback(t) # None /\ Feedback(t).closed_at = t
    BY <1>0, FeedbackIsRecord, RecordsAssumption DEF Feedback
  <2>2. CASE p = q
    <3>1. feedback_events'[p] = Feedback(t)
      BY <1>0, <1>3, <2>2 DEF WriteClosing
    <3>2. predictions'[p] = [predictions[p] EXCEPT !.feedback_closed_at = t]
      BY <1>0, <1>3, <2>2 DEF WriteClosing
    <3>3. predictions[p] \in PredictionRecord
      BY <1>0, <1>3, <2>2
    <3>4. predictions'[p] \in PredictionRecord /\ predictions'[p].feedback_closed_at = t
      BY <3>2, <3>3 DEF PredictionRecord, Stamp
    <3>5. QED
      BY <1>0, <2>1, <3>1, <3>4, RecordsAssumption DEF Closed
  <2>3. CASE p # q
    BY <1>0, <1>3, <2>3 DEF WriteClosing, Closed
  <2>4. QED
    BY <2>2, <2>3
<1>4. QED
  BY <1>1, <1>2, <1>3, TableSteps DEF TableStep

(* Every step keeps the closures. *)
LEMMA ClosureInvKept ==
  ASSUME ClosureInv, [Next]_vars
  PROVE  ClosureInv'
<1>0. TypeInv /\ FreshIds /\ ClosureAgreement /\ TypeInv'
  BY TypeInvKept DEF ClosureInv
<1>1. CASE Restart
  <2>1. FreshIds' /\ ClosureAgreement'
    BY <1>0, <1>1
    DEF Restart, tables, FreshIds, ClosureAgreement, Saving, At, Idle, Postgres, Closed
  <2>2. QED
    BY <1>0, <2>1 DEF ClosureInv
<1>2. CASE \E t \in Threads : Handle(t)
  BY <1>0, <1>2, FreshIdsKept, ClosureKept, BackendKept DEF ClosureInv
<1>3. CASE UNCHANGED vars
  <2>1. FreshIds' /\ ClosureAgreement'
    BY <1>0, <1>3
    DEF vars, tables, history, FreshIds, ClosureAgreement, Saving, At, Postgres, Closed
  <2>2. QED
    BY <1>0, <2>1 DEF ClosureInv
<1>4. QED
  BY <1>1, <1>2, <1>3 DEF Next

(* The inductive invariant of the tables. *)
THEOREM ClosureInvariant == Spec => []ClosureInv
<1>1. Init => FreshIds /\ ClosureAgreement
  BY DEF Init, FreshIds, ClosureAgreement, Saving, At, Idle
<1>2. ClosureInv /\ [Next]_vars => ClosureInv'
  BY ClosureInvKept
<1>3. QED
  BY <1>1, <1>2, TypeInvariant, PTL DEF Spec, ClosureInv

(* A closed row and its feedback row always come from one closing, whatever  *)
(* overlaps, fails or restarts: the transaction of                           *)
(* save_feedback_and_close_prediction is what keeps them together.           *)
THEOREM ClosuresAgree == Spec => []ClosureAgreement
<1>1. ClosureInv => ClosureAgreement
  BY DEF ClosureInv
<1>2. QED
  BY <1>1, ClosureInvariant, PTL

(* A row stays, keeps what it is about and, once closed, stays closed. *)
RowKept(p) ==
  /\ predictions'[p] # None
  /\ Closed(predictions[p]) => Closed(predictions'[p])
  /\ predictions'[p].identity = predictions[p].identity
  /\ predictions'[p].decision = predictions[p].decision

LEMMA RowsKept ==
  ASSUME ClosureInv, [Next]_vars, NEW p \in Predictions, predictions[p] # None
  PROVE  RowKept(p)
<1>0. TypeInv /\ FreshIds /\ predictions[p] \in PredictionRecord
  BY DEF ClosureInv, TypeInv, TypeOK
<1>1. CASE Restart \/ UNCHANGED vars
  BY <1>1 DEF Restart, vars, tables, Closed, RowKept
<1>2. ASSUME NEW t \in Threads, Handle(t) PROVE RowKept(p)
  <2>1. \/ predictions'[p] = predictions[p]
        \/ predictions'[p] = [predictions[p] EXCEPT !.feedback_closed_at = t]
    BY <1>0, <1>2, RowChanges
  <2>2. CASE predictions'[p] = [predictions[p] EXCEPT !.feedback_closed_at = t]
    <3>1. predictions'[p] \in PredictionRecord
      BY <1>0, <2>2 DEF PredictionRecord, Stamp
    <3>2. QED
      BY <1>0, <2>2, <3>1, ThreadsAssumption, RecordsAssumption
      DEF PredictionRecord, Closed, RowKept
  <2>3. QED
    BY <2>1, <2>2 DEF Closed, RowKept
<1>3. QED
  BY <1>1, <1>2 DEF Next

(* No step of any handler reopens a prediction or changes what it is about:  *)
(* the upsert of save_prediction only ever inserts.                          *)
THEOREM RowsOnlyEverClose == Spec => RowsOnlyClose
<1>1. ClosureInv /\ [Next]_vars => \A p \in Predictions : predictions[p] # None => RowKept(p)
  BY RowsKept
<1>2. QED
  BY <1>1, ClosureInvariant, PTL DEF Spec, RowsOnlyClose, RowKept

-----------------------------------------------------------------------------
(* Write first, remember and answer after: what a request may rely on        *)
(* between its transaction and its updates of the dictionaries.              *)

RequestDurable(r, rows, judged, shown) ==
  LET p == r.prediction_id IN
  /\ r.step \in {"save_prediction", "store_prediction"} => ~Closed(r.prediction)
  /\ r.step = "store_prediction" => rows[p] # None
  /\ r.step = "check_open" /\ r.prediction # None =>
       rows[p] # None /\ (Closed(r.prediction) => Closed(rows[p]))
  /\ r.step = "store_display" => p \in shown
  /\ r.step = "refresh_display" /\ r.display => p \in shown
  /\ r.step = "store_feedback" => judged[p] # None

Durable(r) == RequestDurable(r, predictions, feedback_events, display_feedback_events)
DurableNext(r) == RequestDurable(r, predictions', feedback_events', display_feedback_events')

DurableInv ==
  /\ ClosureInv
  /\ StoresBehindTables /\ AnswersAreDurable
  /\ Postgres => \A t \in Threads : Durable(req[t])

(* Nothing a request relied on disappears from the tables. *)
TablesGrow ==
  /\ \A p \in Predictions :
       /\ predictions[p] # None => predictions'[p] # None
       /\ predictions[p] # None /\ Closed(predictions[p]) => Closed(predictions'[p])
       /\ feedback_events[p] # None => feedback_events'[p] # None
  /\ display_feedback_events \subseteq display_feedback_events'

LEMMA TablesOnlyGrow ==
  ASSUME ClosureInv, NEW t \in Threads, Handle(t) PROVE TablesGrow
<1>0. /\ TypeInv /\ FreshIds
      /\ feedback_events \in [Predictions -> FeedbackRecord \cup {None}]
      /\ predictions \in [Predictions -> PredictionRecord \cup {None}]
      /\ req[t] \in Request
  BY DEF ClosureInv, TypeInv, TypeOK
<1>1. ASSUME NEW p \in Predictions, predictions[p] # None
      PROVE  /\ predictions'[p] # None
             /\ Closed(predictions[p]) => Closed(predictions'[p])
  <2>1. \/ predictions'[p] = predictions[p]
        \/ predictions'[p] = [predictions[p] EXCEPT !.feedback_closed_at = t]
    BY <1>0, <1>1, RowChanges
  <2>2. CASE predictions'[p] = [predictions[p] EXCEPT !.feedback_closed_at = t]
    <3>1. predictions[p] \in PredictionRecord
      BY <1>0, <1>1
    <3>2. predictions'[p] \in PredictionRecord /\ predictions'[p].feedback_closed_at = t
      BY <2>2, <3>1 DEF PredictionRecord, Stamp
    <3>3. QED
      BY <3>2, ThreadsAssumption, RecordsAssumption DEF Closed
  <2>3. QED
    BY <1>1, <2>1, <2>2 DEF Closed
<1>2. Feedback(t) # None
  BY <1>0, FeedbackIsRecord, RecordsAssumption
<1>3. /\ \A p \in Predictions : feedback_events[p] # None => feedback_events'[p] # None
      /\ display_feedback_events \subseteq display_feedback_events'
  <2>1. CASE UNCHANGED tables \/ WritePrediction(t) \/ WriteDisplay(t)
    BY <2>1 DEF tables, WritePrediction, WriteDisplay
  <2>2. CASE WriteClosing(t)
    <3>1. /\ feedback_events' = [feedback_events EXCEPT ![req[t].prediction_id] = Feedback(t)]
          /\ UNCHANGED display_feedback_events
      BY <2>2, Zenon DEF WriteClosing
    <3>2. QED
      BY <1>0, <1>2, <3>1
  <2>3. QED
    BY <2>1, <2>2, TableSteps DEF TableStep
<1>4. QED
  BY <1>1, <1>3 DEF TablesGrow

(* What a request relies on stays true as the tables grow. *)
LEMMA DurableStays ==
  ASSUME TypeInv, NEW r \in Request, LocalOK(r, PREDICTION_STORE), Durable(r), TablesGrow
  PROVE  DurableNext(r)
<1>1. r.step # "idle" => r.prediction_id \in Predictions
  BY DEF LocalOK
<1>2. QED
  BY <1>1 DEF Durable, DurableNext, RequestDurable, TablesGrow, Closed

(* The acting request, step by step: each reaches its new step durably. *)
LEMMA ActorIsDurable ==
  ASSUME DurableInv, Postgres, NEW t \in Threads, Handle(t)
  PROVE  DurableNext(req'[t])
<1> DEFINE p == req[t].prediction_id
<1>0. /\ TypeInv /\ ClosureInv /\ req \in [Threads -> Request] /\ req[t] \in Request
      /\ ~At(t, "idle") => p \in Predictions
      /\ Durable(req[t]) /\ TablesGrow
      /\ LocalOK(req[t], PREDICTION_STORE)
      /\ predictions \in [Predictions -> PredictionRecord \cup {None}]
  BY TablesOnlyGrow DEF DurableInv, ClosureInv, TypeInv, TypeOK, LocalsOK, LocalOK, At
<1>1. ASSUME req'[t].step \in {"idle", "lookup", "save_display", "read_display", "close"}
      PROVE  DurableNext(req'[t])
  BY <1>1 DEF DurableNext, RequestDurable
<1>2. CASE Predict(t)
  <2>1. req'[t].step = "save_prediction" /\ ~Closed(req'[t].prediction)
    BY <1>0, <1>2 DEF Predict, Idle, Closed
  <2>2. QED
    BY <2>1 DEF DurableNext, RequestDurable, Closed
<1>3. CASE SavePrediction(t)
  <2>1. req'[t] = [req[t] EXCEPT !.step = "store_prediction"]
    BY <1>0, <1>3 DEF SavePrediction, Goto
  <2>2. req[t].prediction \in PredictionRecord /\ p \in Predictions
    BY <1>0, <1>3 DEF SavePrediction, At, LocalOK
  <2>3. predictions'[p] # None
    BY <1>0, <1>3, <2>2, RecordsAssumption DEF SavePrediction, WritePrediction
  <2>4. ~Closed(req[t].prediction)
    BY <1>0, <1>3 DEF SavePrediction, At, Durable, RequestDurable
  <2>5. QED
    BY <1>0, <2>1, <2>3, <2>4 DEF DurableNext, RequestDurable, Closed, Request
<1>4. CASE StorePrediction(t)
  <2>1. req'[t] = Idle
    BY <1>0, <1>4, UnsharedIsTyped DEF StorePrediction
  <2>2. QED
    BY <1>1, <2>1 DEF Idle
<1>5. CASE SubmitOracle(t) \/ SubmitHuman(t)
  <2>1. PICK q, i, src, st, defect : Submit(t, q, i, src, st, defect)
    BY <1>5, Zenon DEF SubmitOracle, SubmitHuman
  <2>2. req'[t].step = "lookup"
    BY <1>0, <2>1 DEF Submit, Idle
  <2>3. QED
    BY <1>1, <2>2
<1>6. CASE Lookup(t)
  <2>1. req'[t] = [req[t] EXCEPT !.step = "check_open", !.prediction = predictions[p]]
    BY <1>0, <1>6 DEF Lookup, ReadPrediction
  <2>2. req'[t].step = "check_open" /\ req'[t].prediction = predictions[p]
        /\ req'[t].prediction_id = p
    BY <1>0, <2>1 DEF Request
  <2>3. predictions' = predictions
    BY <1>6 DEF Lookup, tables
  <2>4. QED
    BY <2>2, <2>3 DEF DurableNext, RequestDurable, Closed
<1>7. ASSUME NEW r, Refresh(t, r) PROVE req'[t] = r
  BY <1>0, <1>7, UnsharedIsTyped DEF Refresh
<1>8. CASE RefuseMismatch(t) \/ RefuseClosed(t)
  BY <1>1, <1>7, <1>8 DEF RefuseMismatch, RefuseClosed, Idle
<1>9. CASE Admit(t)
  <2> DEFINE s == IF req[t].feedback_source = "human_sophie"
                  THEN "save_display" ELSE "read_display"
             r == [req[t] EXCEPT !.step = s, !.prediction = Found(t), !.shared = TRUE]
  <2>1. Refresh(t, r)
    BY <1>9, Zenon DEF Admit
  <2>2. r.step \in {"save_display", "read_display"}
    BY <1>0 DEF Request
  <2> HIDE DEF r
  <2>3. req'[t] = r
    BY <1>7, <2>1
  <2>4. QED
    BY <1>1, <2>2, <2>3
<1>10. CASE SaveDisplay(t)
  <2>1. req'[t] = [req[t] EXCEPT !.step = "store_display"] /\ p \in display_feedback_events'
    BY <1>0, <1>10 DEF SaveDisplay, Goto, WriteDisplay
  <2>2. QED
    BY <1>0, <2>1 DEF DurableNext, RequestDurable, Request
<1>11. CASE ReadDisplay(t)
  <2>1. req'[t] = [req[t] EXCEPT !.step = "refresh_display", !.display = ReadDisplayRow(p)]
    BY <1>0, <1>11 DEF ReadDisplay
  <2>2. /\ req'[t].step = "refresh_display" /\ req'[t].display = ReadDisplayRow(p)
        /\ req'[t].prediction_id = p
    BY <1>0, <2>1 DEF Request
  <2>3. display_feedback_events' = display_feedback_events
    BY <1>11 DEF ReadDisplay, tables
  <2>4. QED
    BY <2>2, <2>3 DEF DurableNext, RequestDurable, ReadDisplayRow
<1>12. CASE RefreshDisplay(t)
  <2>1. req'[t].step = "close"
    BY <1>0, <1>12 DEF RefreshDisplay, Request
  <2>2. QED
    BY <1>1, <2>1
<1>13. CASE Close(t)
  <2>1. req'[t] = [req[t] EXCEPT !.step = "store_feedback"]
    BY <1>0, <1>13 DEF Close, Goto
  <2>2. feedback_events' = [feedback_events EXCEPT ![p] = Feedback(t)]
    BY <1>13 DEF Close, WriteClosing
  <2>3. Feedback(t) # None /\ p \in Predictions
    BY <1>0, <1>13, FeedbackIsRecord, RecordsAssumption DEF Close, At
  <2>4. feedback_events'[p] # None
    BY <1>0, <2>2, <2>3 DEF TypeInv, TypeOK
  <2>5. QED
    BY <1>0, <2>1, <2>4 DEF DurableNext, RequestDurable, Request
<1>14. CASE RefuseUnknown(t) \/ StoreDisplay(t) \/ StoreFeedback(t)
            \/ CallFails(t) \/ ReplyLost(t)
  <2>1. Finish(t)
    BY <1>14, Zenon DEF RefuseUnknown, StoreDisplay, StoreFeedback, CallFails, ReplyLost, Abort
  <2>2. QED
    BY <1>0, <1>1, <2>1 DEF Finish, Idle
<1>15. QED
  BY <1>2, <1>3, <1>4, <1>5, <1>6, <1>8, <1>9, <1>10, <1>11, <1>12, <1>13, <1>14 DEF Handle

(* What the dictionaries and the answers gain in one step is in the tables.  *)
LEMMA GainsAreDurable ==
  ASSUME DurableInv, Postgres, NEW t \in Threads, Handle(t), NEW q \in Predictions
  PROVE  /\ PREDICTION_STORE'[q] # None =>
              \/ PREDICTION_STORE[q] # None
                   /\ (Closed(PREDICTION_STORE'[q]) =>
                          Closed(PREDICTION_STORE[q]) \/ feedback_events[q] # None)
              \/ predictions[q] # None
                   /\ (Closed(PREDICTION_STORE'[q]) => Closed(predictions[q]))
         /\ FEEDBACK_STORE'[q] # None => FEEDBACK_STORE[q] # None \/ feedback_events[q] # None
         /\ q \in DISPLAY_FEEDBACK_STORE' =>
              q \in DISPLAY_FEEDBACK_STORE \/ q \in display_feedback_events
         /\ <<"closed", q>> \in answered' =>
              <<"closed", q>> \in answered \/ feedback_events[q] # None
         /\ <<"displayed", q>> \in answered' =>
              <<"displayed", q>> \in answered \/ q \in display_feedback_events
<1> DEFINE p == req[t].prediction_id
           Pred == PREDICTION_STORE'[q] # None =>
              \/ PREDICTION_STORE[q] # None
                   /\ (Closed(PREDICTION_STORE'[q]) =>
                          Closed(PREDICTION_STORE[q]) \/ feedback_events[q] # None)
              \/ predictions[q] # None
                   /\ (Closed(PREDICTION_STORE'[q]) => Closed(predictions[q]))
           Fb == FEEDBACK_STORE'[q] # None => FEEDBACK_STORE[q] # None \/ feedback_events[q] # None
           Disp == q \in DISPLAY_FEEDBACK_STORE' =>
              q \in DISPLAY_FEEDBACK_STORE \/ q \in display_feedback_events
           Ans == /\ <<"closed", q>> \in answered' =>
                       <<"closed", q>> \in answered \/ feedback_events[q] # None
                  /\ <<"displayed", q>> \in answered' =>
                       <<"displayed", q>> \in answered \/ q \in display_feedback_events
<1>0. /\ ~At(t, "idle") => p \in Predictions
      /\ Durable(req[t])
      /\ LocalOK(req[t], PREDICTION_STORE)
      /\ PREDICTION_STORE \in [Predictions -> PredictionRecord \cup {None}]
      /\ FEEDBACK_STORE \in [Predictions -> FeedbackRecord \cup {None}]
  BY DEF DurableInv, ClosureInv, TypeInv, TypeOK, LocalsOK, LocalOK, At
<1>1. UNCHANGED stores => Pred /\ Fb /\ Disp
  BY DEF stores
<1>2. UNCHANGED answered => Ans
  OBVIOUS
<1>3. CASE UNCHANGED stores /\ UNCHANGED answered
  BY <1>1, <1>2, <1>3
<1>4. CASE StorePrediction(t)
  <2>1. /\ predictions[p] # None /\ ~Closed(req[t].prediction) /\ p \in Predictions
        /\ PREDICTION_STORE' = [PREDICTION_STORE EXCEPT ![p] = req[t].prediction]
    BY <1>0, <1>4 DEF StorePrediction, At, Durable, RequestDurable
  <2>2. Pred
    BY <1>0, <2>1 DEF Closed
  <2>3. QED
    BY <1>2, <1>4, <2>2 DEF StorePrediction, history
<1>5. ASSUME NEW r, Refresh(t, r), At(t, "check_open") PROVE Pred
  <2>1. CASE req[t].prediction # None
    BY <1>0, <1>5, <2>1 DEF Refresh, Durable, RequestDurable, At, Closed
  <2>2. CASE req[t].prediction = None
    BY <1>0, <1>5, <2>2 DEF Refresh, Closed
  <2>3. QED
    BY <2>1, <2>2
<1>6. CASE RefuseMismatch(t) \/ RefuseClosed(t) \/ Admit(t)
  <2>1. Pred
    <3> HIDE DEF Pred
    <3>1. QED
      BY <1>5, <1>6, Zenon DEF RefuseMismatch, RefuseClosed, Admit
  <2>2. UNCHANGED <<FEEDBACK_STORE, DISPLAY_FEEDBACK_STORE, history>>
    BY <1>6 DEF RefuseMismatch, RefuseClosed, Admit
  <2>3. QED
    BY <1>2, <2>1, <2>2 DEF history
<1>7. CASE StoreDisplay(t)
  BY <1>0, <1>1, <1>7 DEF StoreDisplay, Answer, At, Durable, RequestDurable, Closed
<1>8. CASE RefreshDisplay(t)
  BY <1>0, <1>8 DEF RefreshDisplay, At, Durable, RequestDurable, history, Closed
<1>9. CASE StoreFeedback(t)
  <2>1. /\ feedback_events[p] # None /\ p \in Predictions
        /\ FEEDBACK_STORE' = [FEEDBACK_STORE EXCEPT ![p] = Feedback(t)]
        /\ answered' = answered \cup {<<"closed", p>>}
        /\ UNCHANGED DISPLAY_FEEDBACK_STORE
    BY <1>0, <1>9 DEF StoreFeedback, Answer, At, Durable, RequestDurable
  <2>2. Fb /\ Disp /\ Ans
    BY <1>0, <2>1
  <2>3. Pred
    <3>1. CASE req[t].shared
      <4>1. PREDICTION_STORE[p] # None
        BY <1>0, <3>1 DEF LocalOK
      <4>2. PREDICTION_STORE' = [PREDICTION_STORE EXCEPT ![p].feedback_closed_at = t]
        BY <1>9, <3>1 DEF StoreFeedback
      <4>3. QED
        BY <1>0, <2>1, <4>1, <4>2 DEF Closed
    <3>2. CASE ~req[t].shared
      BY <1>9, <3>2 DEF StoreFeedback, Closed
    <3>3. QED
      BY <3>1, <3>2
  <2>4. QED
    BY <2>2, <2>3
<1>10. CASE Predict(t) \/ SubmitOracle(t) \/ SubmitHuman(t)
  BY <1>3, <1>10, Zenon DEF Predict, SubmitOracle, SubmitHuman, Submit, history
<1>11. CASE SavePrediction(t) \/ Lookup(t) \/ RefuseUnknown(t) \/ SaveDisplay(t)
            \/ ReadDisplay(t) \/ Close(t) \/ CallFails(t) \/ ReplyLost(t)
  <2>1. UNCHANGED stores /\ UNCHANGED answered
    BY <1>11
    DEF SavePrediction, Lookup, RefuseUnknown, SaveDisplay, ReadDisplay, Close, CallFails,
        ReplyLost, history
  <2>2. QED
    BY <1>3, <2>1
<1>12. QED
  BY <1>4, <1>6, <1>7, <1>8, <1>9, <1>10, <1>11 DEF Handle

LEMMA DurabilityKept ==
  ASSUME DurableInv, Postgres, NEW t \in Threads, Handle(t), backend' = backend, ClosureInv'
  PROVE  DurableInv'
<1>0. /\ TypeInv /\ ClosureInv /\ TablesGrow /\ Postgres' /\ req \in [Threads -> Request]
  BY TablesOnlyGrow DEF DurableInv, ClosureInv, TypeInv, TypeOK, Postgres
<1>1. ASSUME NEW q \in Predictions
      PROVE  /\ PREDICTION_STORE'[q] # None =>
                  /\ predictions'[q] # None
                  /\ Closed(PREDICTION_STORE'[q]) => Closed(predictions'[q])
             /\ FEEDBACK_STORE'[q] # None => feedback_events'[q] # None
             /\ q \in DISPLAY_FEEDBACK_STORE' => q \in display_feedback_events'
             /\ <<"closed", q>> \in answered' => feedback_events'[q] # None
             /\ <<"displayed", q>> \in answered' => q \in display_feedback_events'
  <2>1. /\ feedback_events[q] # None => predictions[q] # None /\ Closed(predictions[q])
        /\ PREDICTION_STORE[q] # None => predictions[q] # None
        /\ PREDICTION_STORE[q] # None /\ Closed(PREDICTION_STORE[q]) => Closed(predictions[q])
        /\ FEEDBACK_STORE[q] # None => feedback_events[q] # None
        /\ q \in DISPLAY_FEEDBACK_STORE => q \in display_feedback_events
        /\ <<"closed", q>> \in answered => feedback_events[q] # None
        /\ <<"displayed", q>> \in answered => q \in display_feedback_events
    BY DEF DurableInv, ClosureInv, ClosureAgreement, StoresBehindTables, AnswersAreDurable
  <2>2. /\ predictions[q] # None => predictions'[q] # None
        /\ predictions[q] # None /\ Closed(predictions[q]) => Closed(predictions'[q])
        /\ feedback_events[q] # None => feedback_events'[q] # None
        /\ q \in display_feedback_events => q \in display_feedback_events'
    BY <1>0 DEF TablesGrow
  <2> HIDE DEF Closed
  <2>3. QED
    BY <2>1, <2>2, GainsAreDurable
<1>2. ASSUME NEW u \in Threads PROVE DurableNext(req'[u])
  <2>1. CASE u = t
    BY <2>1, ActorIsDurable
  <2>2. CASE u # t
    <3>1. Durable(req[u]) /\ LocalOK(req[u], PREDICTION_STORE) /\ req[u] \in Request
      BY <1>0 DEF DurableInv, TypeInv, LocalsOK
    <3>2. DurableNext(req[u])
      <4> DEFINE r == req[u]
      <4>1. r \in Request /\ Durable(r) /\ LocalOK(r, PREDICTION_STORE)
        BY <3>1
      <4>2. QED
        BY <1>0, <4>1, DurableStays
    <3>3. QED
      BY <2>2, <3>1, <3>2, OthersKept, <1>0, ZenonT(30)
      DEF Durable, DurableNext, RequestDurable, Request
  <2>3. QED
    BY <2>1, <2>2
<1>3. QED
  <2>1. StoresBehindTables' /\ AnswersAreDurable'
    BY <1>1 DEF StoresBehindTables, AnswersAreDurable, Closed
  <2>2. (Postgres => \A u \in Threads : Durable(req[u]))'
    BY <1>2 DEF Durable, DurableNext
  <2>3. QED
    BY <2>1, <2>2 DEF DurableInv
(* Every step keeps what is durable. *)
LEMMA DurableInvKept ==
  ASSUME DurableInv, ClosureInv', [Next]_vars
  PROVE  DurableInv'
<1>0. backend' = backend
  BY BackendKept
<1>1. CASE ~Postgres
  BY <1>0, <1>1 DEF DurableInv, StoresBehindTables, AnswersAreDurable, Postgres
<1>2. CASE Restart
  BY <1>2
  DEF Restart, tables, DurableInv, StoresBehindTables, AnswersAreDurable, Durable, RequestDurable,
      Idle, Postgres
<1>3. CASE UNCHANGED vars
  BY <1>3
  DEF vars, tables, stores, history, DurableInv, StoresBehindTables, AnswersAreDurable,
      Durable, RequestDurable, Postgres, Closed
<1>4. ASSUME Postgres, NEW t \in Threads, Handle(t) PROVE DurableInv'
  BY <1>0, <1>4, DurabilityKept
<1>5. QED
  BY <1>1, <1>2, <1>3, <1>4 DEF Next


THEOREM DurabilityInvariant == Spec => []DurableInv
<1>1. Init /\ ClosureInv => DurableInv
  BY DEF Init, DurableInv, StoresBehindTables, AnswersAreDurable, Durable, RequestDurable, Idle
<1>2. DurableInv /\ ClosureInv' /\ [Next]_vars => DurableInv'
  BY DurableInvKept
<1>3. QED
  BY <1>1, <1>2, ClosureInvariant, PTL DEF Spec

(* The dictionaries never show what the tables do not hold: each handler     *)
(* writes the table first and a failed write ends it.                        *)
THEOREM StoresStayBehind == Spec => []StoresBehindTables
<1>1. DurableInv => StoresBehindTables
  BY DEF DurableInv
<1>2. QED
  BY <1>1, DurabilityInvariant, PTL

(* What a 200 response said stays in the tables, whatever fails afterwards.  *)
THEOREM AnswersStayDurable == Spec => []AnswersAreDurable
<1>1. DurableInv => AnswersAreDurable
  BY DEF DurableInv
<1>2. QED
  BY <1>1, DurabilityInvariant, PTL

-----------------------------------------------------------------------------
(* What one handler's step does to its own request, to the dictionary of     *)
(* predictions and to the answers, in the terms the invariants below use.    *)

Onward(r, n) ==
  /\ n.prediction_id = r.prediction_id /\ n.gt_mask_has_defect = r.gt_mask_has_defect
  /\ n.after_close = r.after_close /\ n.after_human = r.after_human

Move(t) ==
  LET r == req[t]
      n == req'[t]
      p == r.prediction_id
  IN
  \/ n.step = "idle" /\ ~n.after_close /\ ~n.after_human /\ ~n.shared
  \/ /\ n.step = "save_prediction" /\ ~n.after_close /\ ~n.after_human
     /\ n.prediction_id \in Predictions \ issued /\ issued' = issued \cup {n.prediction_id}
     /\ ~Closed(n.prediction)
  \/ /\ n.step = "lookup" /\ n.prediction_id \in Predictions
     /\ n.after_close <=> <<"closed", n.prediction_id>> \in answered
     /\ n.after_human <=> <<"displayed", n.prediction_id>> \in answered
  \/ /\ Onward(r, n)
     /\ \/ /\ r.step = "save_prediction" /\ n.step = "store_prediction"
           /\ n.prediction = r.prediction /\ (Postgres => WritePrediction(t))
        \/ /\ r.step = "lookup" /\ n.step = "check_open" /\ n.prediction = ReadPrediction(p)
           /\ UNCHANGED tables
        \/ /\ r.step = "check_open" /\ n.step \in {"save_display", "read_display"}
           /\ Found(t) # None /\ ~Closed(Found(t)) /\ n.prediction = Found(t) /\ n.shared
           /\ UNCHANGED tables
        \/ /\ n.prediction = r.prediction /\ n.shared = r.shared
           /\ \/ r.step = "save_display" /\ n.step = "store_display"
              \/ /\ r.step = "read_display" /\ n.step = "refresh_display"
                 /\ n.display = ReadDisplayRow(p) /\ UNCHANGED tables
              \/ /\ r.step = "refresh_display" /\ n.step = "close"
                 /\ n.display <=> r.display \/ p \in DISPLAY_FEEDBACK_STORE
                 /\ UNCHANGED tables
              \/ /\ r.step = "close" /\ n.step = "store_feedback" /\ n.display = r.display
                 /\ Postgres => WriteClosing(t)

LEMMA RequestMoves ==
  ASSUME TypeInv, NEW t \in Threads, Handle(t) PROVE Move(t)
<1> DEFINE r == req[t]
           n == req'[t]
<1>0. /\ req \in [Threads -> Request] /\ r \in Request
      /\ DISPLAY_FEEDBACK_STORE \subseteq Predictions
  BY DEF TypeInv, TypeOK
<1>1. ASSUME n = Idle PROVE Move(t)
  BY <1>1 DEF Move, Idle
<1>2. CASE Predict(t)
  <2>1. PICK p \in Predictions, i \in Identities, d \in Decisions :
          /\ PredictionId(p) /\ issued' = issued \cup {p}
          /\ req' = [req EXCEPT ![t] = [Idle EXCEPT
               !.step = "save_prediction", !.prediction_id = p, !.identity = i,
               !.prediction = [identity |-> i, decision |-> d, feedback_closed_at |-> None]]]
    BY <1>2, Zenon DEF Predict
  <2>2. /\ n.step = "save_prediction" /\ n.prediction_id = p
        /\ n.prediction.feedback_closed_at = None /\ ~n.after_close /\ ~n.after_human
    BY <1>0, <2>1 DEF Idle
  <2>3. QED
    BY <2>1, <2>2 DEF PredictionId, Closed, Move
<1>3. ASSUME NEW p \in Predictions, NEW i, NEW src, NEW st, NEW defect,
             Submit(t, p, i, src, st, defect)
      PROVE  Move(t)
  <2>1. /\ n.step = "lookup" /\ n.prediction_id = p
        /\ n.after_close <=> <<"closed", p>> \in answered
        /\ n.after_human <=> <<"displayed", p>> \in answered
    BY <1>0, <1>3 DEF Submit, Idle
  <2>2. QED
    BY <2>1 DEF Move
<1>4. CASE SubmitOracle(t) \/ SubmitHuman(t)
  BY <1>3, <1>4, Zenon DEF SubmitOracle, SubmitHuman
<1>5. ASSUME NEW s, Goto(t, s)
      PROVE  /\ n.step = s /\ Onward(r, n) /\ n.prediction = r.prediction
             /\ n.shared = r.shared /\ n.display = r.display
  BY <1>0, <1>5 DEF Goto, Onward, Request
<1>6. CASE SavePrediction(t)
  <2>1. /\ r.step = "save_prediction" /\ Goto(t, "store_prediction")
        /\ Postgres => WritePrediction(t)
    BY <1>6 DEF SavePrediction, At
  <2>2. QED
    BY <1>5, <2>1, Zenon DEF Move
<1>7. CASE SaveDisplay(t)
  <2>1. r.step = "save_display" /\ Goto(t, "store_display")
    BY <1>7 DEF SaveDisplay, At
  <2>2. QED
    BY <1>5, <2>1, Zenon DEF Move
<1>8. CASE Close(t)
  <2>1. /\ r.step = "close" /\ Goto(t, "store_feedback")
        /\ Postgres => WriteClosing(t)
    BY <1>8 DEF Close, At
  <2>2. QED
    BY <1>5, <2>1, Zenon DEF Move
<1>9. CASE Lookup(t)
  <2>1. /\ r.step = "lookup" /\ n.step = "check_open" /\ Onward(r, n)
        /\ n.prediction = ReadPrediction(r.prediction_id) /\ UNCHANGED tables
    BY <1>0, <1>9 DEF Lookup, At, Onward, Request
  <2>2. QED
    BY <2>1 DEF Move
<1>10. CASE ReadDisplay(t)
  <2>1. /\ r.step = "read_display" /\ n.step = "refresh_display" /\ Onward(r, n)
        /\ n.display = ReadDisplayRow(r.prediction_id) /\ UNCHANGED tables
        /\ n.prediction = r.prediction /\ n.shared = r.shared
    BY <1>0, <1>10 DEF ReadDisplay, At, Onward, Request
  <2>2. QED
    BY <2>1, Zenon DEF Move
<1>11. CASE RefreshDisplay(t)
  <2> DEFINE b == r.display \/ r.prediction_id \in DISPLAY_FEEDBACK_STORE
  <2>1. /\ r.step = "refresh_display" /\ n = [r EXCEPT !.step = "close", !.display = b]
        /\ UNCHANGED tables
    BY <1>0, <1>11 DEF RefreshDisplay, At
  <2> HIDE DEF b
  <2>2. /\ n.step = "close" /\ Onward(r, n) /\ n.display = b
        /\ n.prediction = r.prediction /\ n.shared = r.shared
    BY <1>0, <2>1 DEF Onward, Request
  <2>3. n.display <=> r.display \/ r.prediction_id \in DISPLAY_FEEDBACK_STORE
    BY <2>2 DEF b
  <2>4. QED
    BY <2>1, <2>2, <2>3, Zenon DEF Move
<1>12. ASSUME NEW m, Refresh(t, m) PROVE n = m
  BY <1>0, <1>12, UnsharedIsTyped DEF Refresh
<1>13. CASE Admit(t)
  <2> DEFINE s == IF r.feedback_source = "human_sophie" THEN "save_display" ELSE "read_display"
             m == [r EXCEPT !.step = s, !.prediction = Found(t), !.shared = TRUE]
  <2>1. /\ Refresh(t, m) /\ r.step = "check_open" /\ Found(t) # None /\ ~Closed(Found(t))
        /\ UNCHANGED tables
    BY <1>13, Zenon DEF Admit, IsOpen, At
  <2>2. s \in {"save_display", "read_display"}
    OBVIOUS
  <2> HIDE DEF s
  <2>3. /\ m.step = s /\ Onward(r, m) /\ m.prediction = Found(t) /\ m.shared
    BY <1>0 DEF Onward, Request
  <2> HIDE DEF m
  <2>4. n = m
    BY <1>12, <2>1
  <2>5. QED
    BY <2>1, <2>2, <2>3, <2>4 DEF Move
<1>14. CASE StorePrediction(t)
  <2>1. n = Idle
    BY <1>0, <1>14, UnsharedIsTyped DEF StorePrediction
  <2>2. QED
    BY <1>1, <2>1
<1>15. CASE RefuseMismatch(t) \/ RefuseClosed(t)
  BY <1>1, <1>12, <1>15, Zenon DEF RefuseMismatch, RefuseClosed
<1>16. CASE RefuseUnknown(t) \/ StoreDisplay(t) \/ StoreFeedback(t)
            \/ CallFails(t) \/ ReplyLost(t)
  <2>1. Finish(t)
    BY <1>16, Zenon DEF RefuseUnknown, StoreDisplay, StoreFeedback, CallFails, ReplyLost, Abort
  <2>2. QED
    BY <1>0, <1>1, <2>1 DEF Finish
<1>17. QED
  BY <1>2, <1>4, <1>6, <1>7, <1>8, <1>9, <1>10, <1>11, <1>13, <1>14, <1>15, <1>16 DEF Handle

(* Three steps write PREDICTION_STORE, each at the id of the request. *)
StoreStep(t) ==
  LET p == req[t].prediction_id IN
  \/ UNCHANGED PREDICTION_STORE
  \/ /\ \/ At(t, "store_prediction")
        \/ At(t, "check_open") /\ req[t].prediction # None
     /\ PREDICTION_STORE' = [PREDICTION_STORE EXCEPT ![p] = req[t].prediction]
  \/ /\ At(t, "store_feedback") /\ req[t].shared
     /\ PREDICTION_STORE' = [PREDICTION_STORE EXCEPT ![p].feedback_closed_at = t]

LEMMA StoreSteps ==
  ASSUME NEW t \in Threads, Handle(t) PROVE StoreStep(t)
<1>1. ASSUME NEW r, Refresh(t, r), At(t, "check_open") PROVE StoreStep(t)
  BY <1>1 DEF Refresh, StoreStep
<1>2. CASE RefuseMismatch(t) \/ RefuseClosed(t) \/ Admit(t)
  BY <1>1, <1>2, Zenon DEF RefuseMismatch, RefuseClosed, Admit
<1>3. CASE StorePrediction(t) \/ StoreFeedback(t)
  BY <1>3 DEF StorePrediction, StoreFeedback, StoreStep
<1>4. CASE Predict(t) \/ SubmitOracle(t) \/ SubmitHuman(t)
  BY <1>4, Zenon DEF Predict, SubmitOracle, SubmitHuman, Submit, StoreStep, stores
<1>5. QED
  BY <1>2, <1>3, <1>4
  DEF Handle, SavePrediction, Lookup, RefuseUnknown, SaveDisplay, StoreDisplay, ReadDisplay,
      RefreshDisplay, Close, CallFails, ReplyLost, StoreStep, stores

(* Two steps answer 200: the ones that end a feedback. *)
AnswerStep(t) ==
  LET p == req[t].prediction_id IN
  \/ UNCHANGED answered
  \/ /\ At(t, "store_display") /\ answered' = answered \cup {<<"displayed", p>>}
     /\ DISPLAY_FEEDBACK_STORE' = DISPLAY_FEEDBACK_STORE \cup {p}
     /\ UNCHANGED PREDICTION_STORE
  \/ /\ At(t, "store_feedback") /\ answered' = answered \cup {<<"closed", p>>}
     /\ req[t].shared =>
          PREDICTION_STORE' = [PREDICTION_STORE EXCEPT ![p].feedback_closed_at = t]
     /\ UNCHANGED DISPLAY_FEEDBACK_STORE

LEMMA AnswerSteps ==
  ASSUME NEW t \in Threads, Handle(t)
  PROVE  AnswerStep(t) /\ DISPLAY_FEEDBACK_STORE \subseteq DISPLAY_FEEDBACK_STORE'
<1>1. CASE StoreDisplay(t) \/ StoreFeedback(t)
  BY <1>1 DEF StoreDisplay, StoreFeedback, Answer, AnswerStep
<1>2. CASE Predict(t) \/ SubmitOracle(t) \/ SubmitHuman(t)
  BY <1>2, Zenon DEF Predict, SubmitOracle, SubmitHuman, Submit, AnswerStep, stores, history
<1>3. CASE RefuseMismatch(t) \/ RefuseClosed(t) \/ Admit(t) \/ StorePrediction(t)
  BY <1>3 DEF RefuseMismatch, RefuseClosed, Admit, StorePrediction, AnswerStep, history
<1>4. QED
  BY <1>1, <1>2, <1>3
  DEF Handle, SavePrediction, Lookup, RefuseUnknown, SaveDisplay, ReadDisplay,
      RefreshDisplay, Close, CallFails, ReplyLost, AnswerStep, stores, history

(* The other requests keep what they hold; a record stops being shared only  *)
(* when the acting request puts another object in its place.                 *)
PutsAnother(t) == At(t, "store_prediction") \/ (At(t, "check_open") /\ req[t].prediction # None)

Bystander(t, u) ==
  /\ Onward(req[u], req'[u])
  /\ req'[u].step = req[u].step /\ req'[u].prediction = req[u].prediction
  /\ req'[u].display = req[u].display
  /\ req[u].shared => \/ req'[u].shared
                      \/ (PutsAnother(t) /\ req[u].prediction_id = req[t].prediction_id)

LEMMA Bystanders ==
  ASSUME TypeInv, NEW t \in Threads, Handle(t), NEW u \in Threads, u # t
  PROVE  Bystander(t, u)
<1>0. req \in [Threads -> Request] /\ req[u] \in Request
  BY DEF TypeInv, TypeOK
<1>1. req'[u] = req[u] \/ req'[u] = [req[u] EXCEPT !.shared = FALSE]
  BY OthersKept
<1>2. /\ Onward(req[u], req'[u])
      /\ req'[u].step = req[u].step /\ req'[u].prediction = req[u].prediction
      /\ req'[u].display = req[u].display
  BY <1>0, <1>1 DEF Onward, Request
<1> DEFINE Q == req'[u] = req[u] \/ (PutsAnother(t) /\ req[u].prediction_id = req[t].prediction_id)
<1> SUFFICES Q
  BY <1>2 DEF Bystander
<1>3. ASSUME NEW r, req' = [req EXCEPT ![t] = r] PROVE Q
  BY <1>0, <1>3
<1>4. ASSUME NEW r, PutsAnother(t), req' = [Unshared(t, req[t].prediction_id) EXCEPT ![t] = r]
      PROVE  Q
  BY <1>0, <1>4 DEF Unshared
<1>5. ASSUME NEW r, Refresh(t, r), At(t, "check_open") PROVE Q
  BY <1>3, <1>4, <1>5 DEF Refresh, PutsAnother
<1> HIDE DEF Q
<1>6. CASE Predict(t) \/ SubmitOracle(t) \/ SubmitHuman(t)
  BY <1>3, <1>6, Zenon DEF Predict, SubmitOracle, SubmitHuman, Submit
<1>7. CASE SavePrediction(t) \/ SaveDisplay(t) \/ Close(t)
  BY <1>0, <1>7 DEF SavePrediction, SaveDisplay, Close, Goto, Q
<1>8. CASE StorePrediction(t)
  BY <1>4, <1>8, Zenon DEF StorePrediction, PutsAnother
<1>9. CASE RefuseMismatch(t) \/ RefuseClosed(t) \/ Admit(t)
  BY <1>5, <1>9, Zenon DEF RefuseMismatch, RefuseClosed, Admit
<1>10. CASE Lookup(t) \/ ReadDisplay(t) \/ RefreshDisplay(t)
  <2>1. req'[u] = req[u]
    BY <1>0, <1>10 DEF Lookup, ReadDisplay, RefreshDisplay
  <2>2. QED
    BY <2>1 DEF Q
<1>11. CASE RefuseUnknown(t) \/ StoreDisplay(t) \/ StoreFeedback(t)
           \/ CallFails(t) \/ ReplyLost(t)
  <2>1. Finish(t)
    BY <1>11, Zenon DEF RefuseUnknown, StoreDisplay, StoreFeedback, CallFails, ReplyLost, Abort
  <2>2. QED
    BY <1>3, <2>1, Zenon DEF Finish
<1>12. QED
  BY <1>6, <1>7, <1>8, <1>9, <1>10, <1>11 DEF Handle

-----------------------------------------------------------------------------
(* Without tables the dictionaries are the record: an id is stored once,     *)
(* under a fresh id, and every admitted request holds the stored object.     *)

Inserting(t) == req[t].step \in {"save_prediction", "store_prediction"}

IdsIssued ==
  \A p \in Predictions :
    /\ PREDICTION_STORE[p] # None => p \in issued
    /\ <<"closed", p>> \in answered => p \in issued
    /\ <<"displayed", p>> \in answered => p \in issued

InsertsAreNew ==
  /\ \A t \in Threads : Inserting(t) =>
       /\ req[t].prediction_id \in issued
       /\ PREDICTION_STORE[req[t].prediction_id] = None
       /\ ~Closed(req[t].prediction)
       /\ <<"closed", req[t].prediction_id>> \notin answered
       /\ <<"displayed", req[t].prediction_id>> \notin answered
  /\ \A t, u \in Threads : Inserting(t) /\ Inserting(u) /\ t # u =>
       req[t].prediction_id # req[u].prediction_id

HandlersShare ==
  \A t \in Threads :
    /\ req[t].step = "check_open" => req[t].prediction = None
    /\ req[t].step \in AdmittedSteps => req[t].shared

AnswersAreStored ==
  \A p \in Predictions : PREDICTION_STORE[p] # None =>
    /\ <<"closed", p>> \in answered => Closed(PREDICTION_STORE[p])
    /\ <<"displayed", p>> \in answered => p \in DISPLAY_FEEDBACK_STORE

MemoryInv == ~Postgres => IdsIssued /\ InsertsAreNew /\ HandlersShare /\ AnswersAreStored

(* A request sent after an answer finds what that answer left: after a       *)
(* closing a closed record, after a human feedback its display record.       *)
AfterOK(r) ==
  /\ r.after_close =>
       /\ <<"closed", r.prediction_id>> \in answered
       /\ r.step \in {"lookup", "check_open"}
       /\ Postgres /\ r.step = "check_open" => r.prediction # None /\ Closed(r.prediction)
  /\ r.after_human =>
       /\ <<"displayed", r.prediction_id>> \in answered
       /\ Postgres /\ r.step = "refresh_display" => r.display
       /\ r.step \in {"close", "store_feedback"} => r.display

AnswersInv == MemoryInv /\ \A t \in Threads : AfterOK(req[t])

(* In memory, a step inserts a fresh object, closes a stored one or answers  *)
(* for a stored one.                                                         *)
MemoryStep(t, q) ==
  LET p == req[t].prediction_id IN
  /\ \/ PREDICTION_STORE'[q] = PREDICTION_STORE[q]
     \/ q = p /\ At(t, "store_prediction")
     \/ /\ q = p /\ At(t, "store_feedback") /\ PREDICTION_STORE[q] # None
        /\ PREDICTION_STORE'[q] # None /\ Closed(PREDICTION_STORE'[q])
  /\ <<"closed", q>> \in answered' =>
       \/ <<"closed", q>> \in answered
       \/ /\ q = p /\ At(t, "store_feedback") /\ PREDICTION_STORE[q] # None
          /\ Closed(PREDICTION_STORE'[q])
  /\ <<"displayed", q>> \in answered' =>
       \/ <<"displayed", q>> \in answered
       \/ /\ q = p /\ At(t, "store_display") /\ PREDICTION_STORE[q] # None
          /\ q \in DISPLAY_FEEDBACK_STORE'

LEMMA MemorySteps ==
  ASSUME TypeInv, HandlersShare, NEW t \in Threads, Handle(t), NEW q \in Predictions
  PROVE  MemoryStep(t, q)
<1> DEFINE p == req[t].prediction_id
           Object == [PREDICTION_STORE[p] EXCEPT !.feedback_closed_at = t]
<1>0. /\ StoreStep(t) /\ AnswerStep(t) /\ None \notin Threads
      /\ PREDICTION_STORE \in [Predictions -> PredictionRecord \cup {None}]
      /\ req[t].step = "check_open" => req[t].prediction = None
      /\ req[t].step \in AdmittedSteps =>
           req[t].shared /\ PREDICTION_STORE[p] # None /\ p \in Predictions
  BY StoreSteps, AnswerSteps, ThreadsAssumption
  DEF TypeInv, TypeOK, LocalsOK, LocalOK, HandlersShare, AdmittedSteps
<1>1. ASSUME req[t].step \in AdmittedSteps PROVE Object # None /\ Closed(Object)
  <2>1. PREDICTION_STORE[p] \in PredictionRecord
    BY <1>0, <1>1
  <2>2. Object \in PredictionRecord /\ Object.feedback_closed_at = t
    BY <2>1 DEF PredictionRecord, Stamp
  <2>3. QED
    BY <1>0, <2>2, RecordsAssumption DEF Closed
<1> HIDE DEF Object
<1>2. ASSUME PREDICTION_STORE' = [PREDICTION_STORE EXCEPT ![p] = Object]
      PROVE  q # p => PREDICTION_STORE'[q] = PREDICTION_STORE[q]
  BY <1>0, <1>2
<1>3. ASSUME PREDICTION_STORE' = [PREDICTION_STORE EXCEPT ![p] = Object], p \in Predictions
      PROVE  PREDICTION_STORE'[p] = Object
  BY <1>0, <1>3
<1>4. /\ \/ PREDICTION_STORE'[q] = PREDICTION_STORE[q]
         \/ q = p /\ At(t, "store_prediction")
         \/ /\ q = p /\ At(t, "store_feedback") /\ PREDICTION_STORE[q] # None
            /\ PREDICTION_STORE'[q] # None /\ Closed(PREDICTION_STORE'[q])
  <2>1. CASE UNCHANGED PREDICTION_STORE
    BY <2>1
  <2>2. CASE /\ At(t, "store_prediction")
             /\ PREDICTION_STORE' = [PREDICTION_STORE EXCEPT ![p] = req[t].prediction]
    BY <1>0, <2>2
  <2>3. CASE /\ At(t, "store_feedback")
             /\ PREDICTION_STORE' = [PREDICTION_STORE EXCEPT ![p].feedback_closed_at = t]
    <3>1. PREDICTION_STORE' = [PREDICTION_STORE EXCEPT ![p] = Object]
      BY <2>3, Zenon DEF Object
    <3>2. QED
      BY <1>0, <1>1, <1>2, <1>3, <2>3, <3>1 DEF At, AdmittedSteps
  <2>4. QED
    BY <1>0, <2>1, <2>2, <2>3 DEF StoreStep, At
<1>5. CASE UNCHANGED answered
  BY <1>4, <1>5 DEF MemoryStep
<1>6. CASE /\ At(t, "store_display") /\ answered' = answered \cup {<<"displayed", p>>}
           /\ DISPLAY_FEEDBACK_STORE' = DISPLAY_FEEDBACK_STORE \cup {p}
  <2>1. PREDICTION_STORE[p] # None
    BY <1>0, <1>6 DEF At, AdmittedSteps
  <2>2. QED
    BY <1>4, <1>6, <2>1 DEF MemoryStep
<1>7. CASE /\ At(t, "store_feedback") /\ answered' = answered \cup {<<"closed", p>>}
           /\ req[t].shared =>
                PREDICTION_STORE' = [PREDICTION_STORE EXCEPT ![p].feedback_closed_at = t]
  <2>1. PREDICTION_STORE[p] # None /\ req[t].shared /\ p \in Predictions
    BY <1>0, <1>7 DEF At, AdmittedSteps
  <2>2. PREDICTION_STORE' = [PREDICTION_STORE EXCEPT ![p] = Object]
    BY <1>7, <2>1, Zenon DEF Object
  <2>3. Closed(PREDICTION_STORE'[p])
    BY <1>1, <1>3, <1>7, <2>1, <2>2 DEF At, AdmittedSteps
  <2>4. QED
    BY <1>4, <1>7, <2>1, <2>3 DEF MemoryStep
<1>8. QED
  BY <1>0, <1>5, <1>6, <1>7 DEF AnswerStep

LEMMA MemoryKept ==
  ASSUME TypeInv, MemoryInv, ~Postgres, NEW t \in Threads, Handle(t), backend' = backend
  PROVE  MemoryInv'
<1> DEFINE p == req[t].prediction_id
<1>0. /\ IdsIssued /\ InsertsAreNew /\ HandlersShare /\ AnswersAreStored
      /\ Move(t) /\ \A u \in Threads : u # t => Bystander(t, u)
      /\ \A q \in Predictions : MemoryStep(t, q)
      /\ DISPLAY_FEEDBACK_STORE \subseteq DISPLAY_FEEDBACK_STORE'
  BY RequestMoves, Bystanders, MemorySteps, AnswerSteps DEF MemoryInv
<1>1. /\ ~At(t, "idle") => p \in Predictions
      /\ \A u \in Threads : req[u].shared => PREDICTION_STORE[req[u].prediction_id] # None
      /\ \A u \in Threads : Inserting(u) => req[u].prediction_id \in Predictions
  BY DEF TypeInv, LocalsOK, LocalOK, At, Inserting
<1>2. /\ issued \subseteq issued'
      /\ req'[t].step = "save_prediction" =>
           req'[t].prediction_id \in Predictions \ issued /\ ~Closed(req'[t].prediction)
      /\ req'[t].step = "save_prediction" => req'[t].prediction_id \in issued'
  BY SaversAreNew
<1>3. IdsIssued'
  BY <1>0, <1>1, <1>2 DEF IdsIssued, InsertsAreNew, Inserting, MemoryStep, At
<1>4. ASSUME NEW u \in Threads, Inserting(u)'
      PROVE  /\ req'[u].prediction_id \in issued'
             /\ PREDICTION_STORE'[req'[u].prediction_id] = None
             /\ ~Closed(req'[u].prediction)
             /\ <<"closed", req'[u].prediction_id>> \notin answered'
             /\ <<"displayed", req'[u].prediction_id>> \notin answered'
  <2> DEFINE q == req'[u].prediction_id
  <2>1. CASE req'[u].step = "save_prediction" /\ u = t
    <3>1. q \in Predictions /\ q \notin issued
      BY <1>2, <2>1
    <3>2. PREDICTION_STORE[q] = None /\ <<"closed", q>> \notin answered
          /\ <<"displayed", q>> \notin answered
      BY <1>0, <3>1 DEF IdsIssued
    <3>3. MemoryStep(t, q) /\ (At(t, "store_prediction") => q # p)
      BY <1>0, <3>1 DEF InsertsAreNew, Inserting, At
    <3> HIDE DEF q
    <3>4. QED
      BY <1>2, <2>1, <3>2, <3>3 DEF MemoryStep, q
  <2>2. CASE req'[u].step = "store_prediction" /\ u = t
    <3>1. At(t, "save_prediction") /\ q = p /\ req'[u].prediction = req[t].prediction
      BY <1>0, <2>2 DEF Move, Onward, At
    <3>2. /\ p \in Predictions /\ p \in issued /\ PREDICTION_STORE[p] = None
          /\ ~Closed(req[t].prediction)
          /\ <<"closed", p>> \notin answered /\ <<"displayed", p>> \notin answered
      BY <1>0, <1>1, <3>1 DEF InsertsAreNew, Inserting, At
    <3>3. MemoryStep(t, p)
      BY <1>0, <3>2
    <3>4. QED
      BY <1>2, <3>1, <3>2, <3>3 DEF MemoryStep, At, Closed
  <2>3. CASE u # t
    <3>1. /\ Inserting(u) /\ q = req[u].prediction_id /\ req'[u].prediction = req[u].prediction
      BY <1>0, <1>4, <2>3 DEF Bystander, Onward, Inserting
    <3>2. /\ q \in Predictions /\ q \in issued /\ PREDICTION_STORE[q] = None
          /\ ~Closed(req[u].prediction)
          /\ <<"closed", q>> \notin answered /\ <<"displayed", q>> \notin answered
      BY <1>0, <1>1, <3>1 DEF InsertsAreNew
    <3>3. MemoryStep(t, q) /\ (At(t, "store_prediction") => q # p)
      BY <1>0, <2>3, <3>1, <3>2 DEF InsertsAreNew, Inserting, At
    <3>4. QED
      BY <1>2, <3>1, <3>2, <3>3 DEF MemoryStep, Closed
  <2>4. QED
    BY <1>4, <2>1, <2>2, <2>3 DEF Inserting
<1>5. ASSUME NEW u \in Threads, NEW v \in Threads, Inserting(u)', Inserting(v)', u # v
      PROVE  req'[u].prediction_id # req'[v].prediction_id
  BY <1>0, <1>2, <1>5 DEF Move, Bystander, Onward, InsertsAreNew, Inserting
<1>6. ASSUME NEW u \in Threads
      PROVE  /\ req'[u].step = "check_open" => req'[u].prediction = None
             /\ req'[u].step \in AdmittedSteps => req'[u].shared
  <2>1. CASE u = t
    BY <1>0, <2>1 DEF Move, HandlersShare, AdmittedSteps, ReadPrediction
  <2>2. CASE u # t
    <3>1. PutsAnother(t) => PREDICTION_STORE[p] = None
      BY <1>0 DEF PutsAnother, HandlersShare, InsertsAreNew, Inserting, At
    <3>2. QED
      BY <1>0, <1>1, <2>2, <3>1 DEF Bystander, HandlersShare
  <2>3. QED
    BY <2>1, <2>2
<1>7. ASSUME NEW q \in Predictions, PREDICTION_STORE'[q] # None
      PROVE  /\ <<"closed", q>> \in answered' => Closed(PREDICTION_STORE'[q])
             /\ <<"displayed", q>> \in answered' => q \in DISPLAY_FEEDBACK_STORE'
  <2>1. MemoryStep(t, q)
    BY <1>0
  <2>2. CASE PREDICTION_STORE'[q] = PREDICTION_STORE[q]
    BY <1>0, <1>7, <2>1, <2>2 DEF MemoryStep, AnswersAreStored, Closed
  <2>3. CASE q = p /\ At(t, "store_prediction")
    <3>1. <<"closed", q>> \notin answered /\ <<"displayed", q>> \notin answered
      BY <1>0, <2>3 DEF InsertsAreNew, Inserting, At
    <3>2. QED
      BY <2>1, <2>3, <3>1 DEF MemoryStep, At
  <2>4. CASE /\ q = p /\ At(t, "store_feedback") /\ PREDICTION_STORE[q] # None
             /\ Closed(PREDICTION_STORE'[q])
    BY <1>0, <2>1, <2>4 DEF MemoryStep, AnswersAreStored, At
  <2>5. QED
    BY <2>1, <2>2, <2>3, <2>4 DEF MemoryStep
<1>8. QED
  BY <1>3, <1>4, <1>5, <1>6, <1>7
  DEF MemoryInv, IdsIssued, InsertsAreNew, HandlersShare, AnswersAreStored, Closed

(* The flags of a request hold what they promise at every step it takes. *)
LEMMA AfterKept ==
  ASSUME DurableInv, AnswersInv, NEW t \in Threads, Handle(t), backend' = backend,
         NEW u \in Threads
  PROVE  AfterOK(req[u])'
<1> DEFINE p == req[t].prediction_id
<1>0. /\ TypeInv /\ AfterOK(req[t]) /\ AfterOK(req[u]) /\ Move(t)
      /\ ~At(t, "idle") => p \in Predictions
      /\ Postgres' <=> Postgres
  BY RequestMoves DEF AnswersInv, DurableInv, ClosureInv, TypeInv, LocalsOK, LocalOK, At, Postgres
<1>1. answered \subseteq answered'
  BY AnswerSteps DEF AnswerStep
<1>2. ASSUME Postgres, p \in Predictions
      PROVE  /\ <<"closed", p>> \in answered => predictions[p] # None /\ Closed(predictions[p])
             /\ <<"displayed", p>> \in answered => p \in display_feedback_events
  BY <1>2 DEF DurableInv, ClosureInv, ClosureAgreement, AnswersAreDurable
<1>3. ASSUME ~Postgres, p \in Predictions, PREDICTION_STORE[p] # None
      PROVE  /\ <<"closed", p>> \in answered => Closed(PREDICTION_STORE[p])
             /\ <<"displayed", p>> \in answered => p \in DISPLAY_FEEDBACK_STORE
  BY <1>3 DEF AnswersInv, MemoryInv, AnswersAreStored
<1>4. ~Postgres => /\ At(t, "check_open") => req[t].prediction = None
                   /\ At(t, "refresh_display") => PREDICTION_STORE[p] # None
  BY <1>0
  DEF AnswersInv, MemoryInv, HandlersShare, TypeInv, LocalsOK, LocalOK, At, AdmittedSteps
<1> DEFINE r == req[t]
           n == req'[t]
           Same == Onward(r, n)
<1>5. CASE u = t
  <2>1. CASE n.step \in {"idle", "save_prediction"} /\ ~n.after_close /\ ~n.after_human
    BY <1>5, <2>1 DEF AfterOK
  <2>2. CASE /\ n.step = "lookup"
             /\ n.after_close <=> <<"closed", n.prediction_id>> \in answered
             /\ n.after_human <=> <<"displayed", n.prediction_id>> \in answered
    BY <1>1, <1>5, <2>2 DEF AfterOK
  <2>3. CASE Same /\ n.step \in {"store_prediction", "store_display"} /\ ~r.after_close
    BY <1>0, <1>1, <1>5, <2>3 DEF AfterOK, Onward
  <2>4. CASE Same /\ r.step = "lookup" /\ n.step = "check_open" /\ n.prediction = ReadPrediction(p)
    BY <1>0, <1>1, <1>2, <1>5, <2>4 DEF AfterOK, Onward, ReadPrediction, At, Closed
  <2>5. CASE /\ Same /\ r.step = "check_open" /\ n.step \in {"save_display", "read_display"}
             /\ Found(t) # None /\ ~Closed(Found(t))
    <3>1. ~r.after_close
      BY <1>0, <1>3, <1>4, <2>5 DEF AfterOK, Found, At, Closed
    <3>2. QED
      BY <1>0, <1>1, <1>5, <2>5, <3>1 DEF AfterOK, Onward
  <2>6. CASE /\ Same /\ r.step = "read_display" /\ n.step = "refresh_display"
             /\ n.display = ReadDisplayRow(p)
    BY <1>0, <1>1, <1>2, <1>5, <2>6 DEF AfterOK, Onward, ReadDisplayRow, At
  <2>7. CASE /\ Same /\ r.step = "refresh_display" /\ n.step = "close"
             /\ n.display <=> r.display \/ p \in DISPLAY_FEEDBACK_STORE
    BY <1>0, <1>1, <1>3, <1>4, <1>5, <2>7 DEF AfterOK, Onward, At
  <2>8. CASE /\ Same /\ r.step = "close" /\ n.step = "store_feedback" /\ n.display = r.display
    BY <1>0, <1>1, <1>5, <2>8 DEF AfterOK, Onward
  <2>9. r.step \in {"save_prediction", "save_display"} => ~r.after_close
    BY <1>0 DEF AfterOK
  <2>10. QED
    BY <1>0, <2>1, <2>2, <2>3, <2>4, <2>5, <2>6, <2>7, <2>8, <2>9, Zenon DEF Move
<1>6. CASE u # t
  <2>1. Bystander(t, u)
    BY <1>0, <1>6, Bystanders
  <2>2. QED
    BY <1>0, <1>1, <2>1 DEF Bystander, Onward, AfterOK, Closed
<1>7. QED
  BY <1>5, <1>6
(* Every step keeps what the answers commit to. *)
LEMMA AnswersInvKept ==
  ASSUME AnswersInv, DurableInv, [Next]_vars
  PROVE  AnswersInv'
<1>0. backend' = backend /\ TypeInv
  BY BackendKept DEF DurableInv, ClosureInv
<1>1. CASE Restart
  BY <1>0, <1>1
  DEF Restart, AnswersInv, MemoryInv, IdsIssued, InsertsAreNew, HandlersShare,
      AnswersAreStored, AfterOK, Inserting, AdmittedSteps, Idle, Postgres
<1>2. ASSUME NEW t \in Threads, Handle(t) PROVE AnswersInv'
  <2>1. MemoryInv'
    <3>1. CASE Postgres
      BY <1>0, <3>1 DEF Postgres, MemoryInv
    <3>2. QED
      BY <1>0, <1>2, <3>1, MemoryKept DEF AnswersInv
  <2>2. QED
    BY <1>0, <1>2, <2>1, AfterKept DEF AnswersInv
<1>3. CASE UNCHANGED vars
  BY <1>3
  DEF vars, stores, history, AnswersInv, MemoryInv, IdsIssued, InsertsAreNew, HandlersShare,
      AnswersAreStored, AfterOK, Inserting, AdmittedSteps, Postgres, Closed
<1>4. QED
  BY <1>1, <1>2, <1>3 DEF Next


THEOREM AnswersInvariant == Spec => []AnswersInv
<1>1. Init => AnswersInv
  BY DEF Init, AnswersInv, MemoryInv, IdsIssued, InsertsAreNew, HandlersShare, AnswersAreStored,
         AfterOK, Inserting, AdmittedSteps, Idle
<1>2. AnswersInv /\ DurableInv /\ [Next]_vars => AnswersInv'
  BY AnswersInvKept
<1>3. QED
  BY <1>1, <1>2, DurabilityInvariant, PTL DEF Spec

(* A feedback sent after a closing of its prediction was answered is never   *)
(* admitted, with either backend and across restarts: _require_prediction    *)
(* reads the closed row, or finds the closed object or nothing.              *)
THEOREM LateFeedbackIsRejected == Spec => []LateFeedbackRejected
<1>1. AnswersInv => LateFeedbackRejected
  BY DEF AnswersInv, AfterOK, LateFeedbackRejected
<1>2. QED
  BY <1>1, AnswersInvariant, PTL

(* An oracle feedback that writes after a human feedback was answered has    *)
(* found it, so that conflict_logged is set.                                 *)
THEOREM EarlierHumansAreLogged == Spec => []EarlierHumanIsLogged
<1>1. AnswersInv => EarlierHumanIsLogged
  BY DEF AnswersInv, AfterOK, EarlierHumanIsLogged
<1>2. QED
  BY <1>1, AnswersInvariant, PTL

-----------------------------------------------------------------------------
(* The decision a closing judges is the one in the table, and the row a      *)
(* thread has closed holds the verdict that thread gives.                    *)

SameDecision(record, p) == predictions[p] # None /\ record.decision = predictions[p].decision

JudgesTheRow(t) ==
  /\ req[t].step \in {"store_prediction"} \cup AdmittedSteps =>
       SameDecision(req[t].prediction, req[t].prediction_id)
  /\ req[t].step = "check_open" /\ req[t].prediction # None =>
       SameDecision(req[t].prediction, req[t].prediction_id)
  /\ LET row == feedback_events[req[t].prediction_id] IN
     req[t].step = "store_feedback" /\ row.closed_at = t => row.verdict = OracleVerdict(req[t])

EscapeInv ==
  Postgres =>
    /\ \A p \in Predictions : PREDICTION_STORE[p] # None => SameDecision(PREDICTION_STORE[p], p)
    /\ \A t \in Threads : JudgesTheRow(t)

(* The transaction of a closing is followed by its dictionary updates, or    *)
(* its reply is lost and the closing counts as interrupted.                  *)
LEMMA ClosingSteps ==
  ASSUME NEW t \in Threads, Handle(t), TypeInv
  PROVE  /\ \/ UNCHANGED feedback_events
            \/ /\ At(t, "close") /\ predictions[req[t].prediction_id] # None
               /\ WriteClosing(t)
               /\ \/ req'[t].step = "store_feedback" /\ Onward(req[t], req'[t])
                  \/ req[t].prediction_id \in interrupted'
         /\ interrupted \subseteq interrupted'
         /\ INCIDENT_STORE \subseteq INCIDENT_STORE'
         /\ At(t, "store_feedback") => StoreFeedback(t)
<1>0. req \in [Threads -> Request] /\ req[t] \in Request
  BY DEF TypeInv, TypeOK
<1> DEFINE Q == \/ UNCHANGED feedback_events
                \/ /\ At(t, "close") /\ predictions[req[t].prediction_id] # None
                   /\ WriteClosing(t)
                   /\ \/ req'[t].step = "store_feedback" /\ Onward(req[t], req'[t])
                      \/ req[t].prediction_id \in interrupted'
           Grow == interrupted \subseteq interrupted' /\ INCIDENT_STORE \subseteq INCIDENT_STORE'
<1>1. CASE Close(t)
  <2>1. req'[t].step = "store_feedback" /\ Onward(req[t], req'[t])
    BY <1>0, <1>1 DEF Close, Goto, Onward, Request
  <2>2. \/ UNCHANGED feedback_events
        \/ predictions[req[t].prediction_id] # None /\ WriteClosing(t)
    BY <1>1 DEF Close, tables
  <2>3. Grow /\ At(t, "close")
    BY <1>1 DEF Close, stores
  <2>4. QED
    BY <2>1, <2>2, <2>3 DEF At
<1>2. CASE ReplyLost(t)
  <2>1. Grow /\ Q
    <3>1. Grow
      BY <1>2 DEF ReplyLost, stores
    <3>2. CASE WritePrediction(t) \/ WriteDisplay(t)
      BY <3>1, <3>2 DEF WritePrediction, WriteDisplay
    <3>3. CASE /\ At(t, "close") /\ predictions[req[t].prediction_id] # None
               /\ WriteClosing(t)
               /\ interrupted' = interrupted \cup {req[t].prediction_id}
      BY <3>1, <3>3
    <3>4. QED
      BY <1>2, <3>2, <3>3, Zenon DEF ReplyLost
  <2>2. ~At(t, "store_feedback")
    BY <1>2 DEF ReplyLost, At
  <2>3. QED
    BY <2>1, <2>2
<1>3. CASE Predict(t) \/ SubmitOracle(t) \/ SubmitHuman(t)
  <2>1. UNCHANGED <<tables, stores, interrupted>> /\ At(t, "idle")
    BY <1>3, Zenon DEF Predict, SubmitOracle, SubmitHuman, Submit, history
  <2>2. QED
    BY <2>1 DEF tables, stores, At
<1>4. CASE SavePrediction(t) \/ SaveDisplay(t)
  <2>1. /\ UNCHANGED <<stores, interrupted>> /\ ~At(t, "store_feedback")
        /\ UNCHANGED feedback_events
    BY <1>4 DEF SavePrediction, SaveDisplay, WritePrediction, WriteDisplay, tables, At
  <2>2. QED
    BY <2>1 DEF stores
<1>5. CASE RefuseMismatch(t) \/ StorePrediction(t) \/ RefuseClosed(t) \/ Admit(t)
           \/ Lookup(t) \/ RefuseUnknown(t) \/ StoreDisplay(t) \/ ReadDisplay(t)
           \/ RefreshDisplay(t)
  BY <1>5
  DEF RefuseMismatch, StorePrediction, RefuseClosed, Admit, Lookup, RefuseUnknown, StoreDisplay,
      ReadDisplay, RefreshDisplay, RaiseIncidents, tables, stores, history, At
<1>6. CASE CallFails(t)
  BY <1>6 DEF CallFails, RepositorySteps, tables, stores, history, At
<1>7. CASE StoreFeedback(t)
  BY <1>7 DEF StoreFeedback, RaiseIncidents, tables
<1>8. QED
  BY <1>1, <1>2, <1>3, <1>4, <1>5, <1>6, <1>7 DEF Handle

(* Every copy of a prediction keeps the decision its row has. *)
LEMMA StoreJudges ==
  ASSUME DurableInv, EscapeInv, Postgres, NEW t \in Threads, Handle(t),
         NEW q \in Predictions, PREDICTION_STORE'[q] # None
  PROVE  SameDecision(PREDICTION_STORE[q], q)'
<1> DEFINE p == req[t].prediction_id
<1>0. /\ TypeInv /\ ClosureInv /\ StoreStep(t) /\ JudgesTheRow(t)
      /\ PREDICTION_STORE \in [Predictions -> PredictionRecord \cup {None}]
      /\ req[t].shared => PREDICTION_STORE[p] # None
      /\ PREDICTION_STORE[q] # None => SameDecision(PREDICTION_STORE[q], q)
  BY StoreSteps DEF DurableInv, ClosureInv, TypeInv, TypeOK, LocalsOK, LocalOK, EscapeInv
<1>1. ASSUME NEW record, SameDecision(record, q), PREDICTION_STORE'[q].decision = record.decision
      PROVE  SameDecision(PREDICTION_STORE[q], q)'
  <2>1. RowKept(q)
    BY <1>0, <1>1, RowsKept DEF SameDecision, Next
  <2>2. QED
    BY <1>1, <2>1 DEF SameDecision, RowKept
<1>2. CASE PREDICTION_STORE'[q] = PREDICTION_STORE[q]
  BY <1>0, <1>1, <1>2
<1>3. CASE /\ \/ At(t, "store_prediction")
              \/ At(t, "check_open") /\ req[t].prediction # None
           /\ PREDICTION_STORE' = [PREDICTION_STORE EXCEPT ![p] = req[t].prediction]
  <2>1. SameDecision(req[t].prediction, p)
    BY <1>0, <1>3 DEF JudgesTheRow, At
  <2>2. q # p => PREDICTION_STORE'[q] = PREDICTION_STORE[q]
    BY <1>0, <1>3
  <2>3. q = p => PREDICTION_STORE'[q] = req[t].prediction
    BY <1>0, <1>3
  <2>4. QED
    BY <1>1, <1>2, <2>1, <2>2, <2>3
<1>4. CASE /\ At(t, "store_feedback") /\ req[t].shared
           /\ PREDICTION_STORE' = [PREDICTION_STORE EXCEPT ![p].feedback_closed_at = t]
  <2>1. q # p => PREDICTION_STORE'[q] = PREDICTION_STORE[q]
    BY <1>0, <1>4
  <2>2. ASSUME q = p PROVE PREDICTION_STORE'[q].decision = PREDICTION_STORE[q].decision
    <3>1. PREDICTION_STORE[q] \in PredictionRecord
      BY <1>0, <1>4, <2>2
    <3>2. PREDICTION_STORE'[q] = [PREDICTION_STORE[q] EXCEPT !.feedback_closed_at = t]
      BY <1>0, <1>4, <2>2
    <3>3. QED
      BY <3>1, <3>2 DEF PredictionRecord
  <2>3. QED
    BY <1>0, <1>1, <1>2, <1>4, <2>1, <2>2
<1>5. QED
  BY <1>0, <1>2, <1>3, <1>4 DEF StoreStep

LEMMA HandlersJudge ==
  ASSUME DurableInv, EscapeInv, Postgres, NEW t \in Threads, Handle(t), NEW u \in Threads
  PROVE  JudgesTheRow(u)'
<1> DEFINE p == req[t].prediction_id
           n == req'[u]
<1>0. /\ TypeInv /\ ClosureInv /\ JudgesTheRow(u) /\ JudgesTheRow(t) /\ Move(t)
      /\ req \in [Threads -> Request]
      /\ \A v \in Threads : LocalOK(req[v], PREDICTION_STORE)
      /\ predictions \in [Predictions -> PredictionRecord \cup {None}]
      /\ feedback_events \in [Predictions -> FeedbackRecord \cup {None}]
  BY RequestMoves DEF DurableInv, ClosureInv, TypeInv, TypeOK, LocalsOK, EscapeInv
<1>1. ASSUME NEW record, NEW q \in Predictions, SameDecision(record, q)
      PROVE  predictions'[q] # None /\ record.decision = predictions'[q].decision
  <2>1. RowKept(q)
    BY <1>0, <1>1, RowsKept DEF SameDecision, Next
  <2>2. QED
    BY <1>1, <2>1 DEF SameDecision, RowKept
<1>2. \A q \in Predictions :
        \/ feedback_events'[q] = feedback_events[q]
        \/ /\ q = p /\ At(t, "close") /\ feedback_events'[q] = Feedback(t)
           /\ Feedback(t).closed_at = t /\ Feedback(t).verdict = OracleVerdict(req[t])
  <2>1. UNCHANGED feedback_events \/ (At(t, "close") /\ WriteClosing(t))
    BY <1>0, ClosingSteps
  <2>2. Feedback(t).closed_at = t /\ Feedback(t).verdict = OracleVerdict(req[t])
    BY DEF Feedback
  <2>3. CASE At(t, "close") /\ WriteClosing(t)
    <3>1. feedback_events' = [feedback_events EXCEPT ![p] = Feedback(t)]
      BY <2>3, Zenon DEF WriteClosing
    <3>2. QED
      BY <1>0, <2>2, <2>3, <3>1
  <2>4. QED
    BY <2>1, <2>3
<1>3. CASE u # t
  <2>1. Bystander(t, u)
    BY <1>0, <1>3, Bystanders
  <2>2. n.step = "store_feedback" =>
          LET row == feedback_events'[n.prediction_id] IN
          row.closed_at = u => row.verdict = OracleVerdict(n)
    <3>1. ASSUME n.step = "store_feedback" PROVE req[u].prediction_id \in Predictions
      BY <1>0, <2>1, <3>1 DEF Bystander, LocalOK
    <3>2. QED
      BY <1>0, <1>2, <1>3, <2>1, <3>1 DEF Bystander, Onward, JudgesTheRow, OracleVerdict
  <2>3. QED
    BY <1>0, <1>1, <2>1, <2>2
    DEF Bystander, Onward, JudgesTheRow, SameDecision, OracleVerdict, LocalOK, AdmittedSteps
<1>4. CASE u = t
  <2>0. req[t].step # "idle" => p \in Predictions
    BY <1>0 DEF LocalOK
  <2>1. ASSUME n.step \in {"idle", "save_prediction", "lookup"} PROVE JudgesTheRow(u)'
    BY <2>1 DEF JudgesTheRow, AdmittedSteps
  <2>2. ASSUME Onward(req[t], n), n.step # "store_feedback", req[t].step # "idle",
               n.prediction # None => SameDecision(n.prediction, p),
               n.step # "check_open" => n.prediction # None
        PROVE  JudgesTheRow(u)'
    BY <1>1, <1>4, <2>0, <2>2 DEF JudgesTheRow, SameDecision, Onward, AdmittedSteps
  <2>3. CASE /\ Onward(req[t], n) /\ req[t].step = "save_prediction"
             /\ n.step = "store_prediction" /\ n.prediction = req[t].prediction
             /\ (Postgres => WritePrediction(t))
    <3>1. predictions'[p] = req[t].prediction /\ req[t].prediction # None
      BY <1>0, <2>0, <2>3, RecordsAssumption DEF WritePrediction, LocalOK
    <3>2. QED
      BY <1>4, <2>3, <3>1 DEF JudgesTheRow, SameDecision, Onward, AdmittedSteps
  <2>4. CASE /\ Onward(req[t], n) /\ req[t].step = "lookup" /\ n.step = "check_open"
             /\ n.prediction = ReadPrediction(p)
    <3>1. n.prediction # None => SameDecision(n.prediction, p)
      BY <2>4 DEF ReadPrediction, SameDecision
    <3>2. QED
      BY <2>2, <2>4, <3>1
  <2>5. CASE /\ Onward(req[t], n) /\ req[t].step = "check_open"
             /\ n.step \in {"save_display", "read_display"}
             /\ Found(t) # None /\ n.prediction = Found(t)
    <3>1. SameDecision(n.prediction, p)
      BY <1>0, <2>0, <2>5 DEF Found, JudgesTheRow, EscapeInv
    <3>2. QED
      BY <2>2, <2>5, <3>1
  <2>6. CASE /\ Onward(req[t], n) /\ n.prediction = req[t].prediction
             /\ req[t].step \in AdmittedSteps
    <3>1. SameDecision(n.prediction, p) /\ n.prediction # None
      BY <1>0, <2>6, RecordsAssumption DEF JudgesTheRow, LocalOK
    <3>2. CASE n.step # "store_feedback"
      BY <2>2, <2>6, <3>1, <3>2 DEF AdmittedSteps
    <3>3. CASE n.step = "store_feedback"
      <4>1. req[t].step = "close" /\ WriteClosing(t)
        BY <1>0, <1>4, <3>3 DEF Move
      <4>2. feedback_events' = [feedback_events EXCEPT ![p] = Feedback(t)]
        BY <4>1, Zenon DEF WriteClosing
      <4>3. feedback_events'[p].verdict = OracleVerdict(req[t])
        BY <1>0, <2>0, <4>1, <4>2 DEF Feedback
      <4>4. predictions'[p] # None /\ n.prediction.decision = predictions'[p].decision
        BY <1>1, <2>0, <3>1, <4>1
      <4>5. QED
        BY <1>4, <2>6, <3>3, <4>3, <4>4
        DEF JudgesTheRow, SameDecision, Onward, OracleVerdict
    <3>4. QED
      BY <3>2, <3>3
  <2>7. QED
    BY <1>0, <1>4, <2>1, <2>3, <2>4, <2>5, <2>6 DEF Move, AdmittedSteps
<1>5. QED
  BY <1>3, <1>4

(* No step loses an escape: the closing that records it raises it, unless    *)
(* the handler ended between the two.                                        *)
LEMMA EscapesKept ==
  ASSUME DurableInv, EscapeInv, EscapesAreRaised, Postgres, NEW t \in Threads, Handle(t),
         NEW p \in Predictions, feedback_events'[p] # None, p \notin interrupted',
         FalseNegative(predictions'[p].decision, feedback_events'[p].verdict)
  PROVE  \/ <<"false_negative", p>> \in INCIDENT_STORE'
         \/ /\ req'[feedback_events'[p].closed_at].step = "store_feedback"
            /\ req'[feedback_events'[p].closed_at].prediction_id = p
<1>0. /\ TypeInv /\ ClosureInv /\ JudgesTheRow(t)
      /\ feedback_events \in [Predictions -> FeedbackRecord \cup {None}]
      /\ feedback_events[p] # None => predictions[p] # None
  BY DEF DurableInv, ClosureInv, TypeInv, TypeOK, ClosureAgreement, EscapeInv
<1>1. CASE feedback_events'[p] = feedback_events[p]
  <2> DEFINE u == feedback_events[p].closed_at
  <2>1. /\ u \in Threads /\ p \notin interrupted
        /\ FalseNegative(predictions[p].decision, feedback_events[p].verdict)
    <3>1. RowKept(p)
      BY <1>0, <1>1, RowsKept DEF Next
    <3>2. u \in Threads
      BY <1>0, <1>1 DEF FeedbackRecord
    <3>3. QED
      BY <1>0, <1>1, <3>1, <3>2, ClosingSteps DEF RowKept
  <2>2. \/ <<"false_negative", p>> \in INCIDENT_STORE
        \/ req[u].step = "store_feedback" /\ req[u].prediction_id = p
    BY <1>1, <2>1 DEF EscapesAreRaised
  <2>3. CASE <<"false_negative", p>> \in INCIDENT_STORE
    BY <1>0, <2>3, ClosingSteps
  <2>4. CASE req[u].step = "store_feedback" /\ req[u].prediction_id = p /\ u # t
    <3>1. Bystander(t, u)
      BY <1>0, <2>1, <2>4, Bystanders
    <3>2. QED
      BY <1>1, <2>4, <3>1 DEF Bystander, Onward
  <2>5. CASE req[u].step = "store_feedback" /\ req[u].prediction_id = p /\ u = t
    <3>1. StoreFeedback(t)
      BY <1>0, <2>5, ClosingSteps DEF At
    <3>2. /\ req[t].prediction.decision = predictions[p].decision
          /\ feedback_events[p].verdict = OracleVerdict(req[t])
      BY <1>0, <2>5 DEF JudgesTheRow, SameDecision, AdmittedSteps
    <3>3. "false_negative" \in ClosingIncidents(t)
      BY <2>1, <3>2 DEF ClosingIncidents
    <3>4. INCIDENT_STORE' = INCIDENT_STORE \cup (ClosingIncidents(t) \X {p})
      BY <2>5, <3>1 DEF StoreFeedback, RaiseIncidents
    <3>5. QED
      BY <3>3, <3>4
  <2>6. QED
    BY <2>2, <2>3, <2>4, <2>5
<1>2. CASE feedback_events'[p] # feedback_events[p]
  <2>1. /\ At(t, "close") /\ WriteClosing(t)
        /\ \/ req'[t].step = "store_feedback" /\ Onward(req[t], req'[t])
           \/ req[t].prediction_id \in interrupted'
    BY <1>0, <1>2, ClosingSteps
  <2>2. feedback_events' = [feedback_events EXCEPT ![req[t].prediction_id] = Feedback(t)]
    BY <2>1, Zenon DEF WriteClosing
  <2>3. p = req[t].prediction_id /\ feedback_events'[p] = Feedback(t)
    BY <1>0, <1>2, <2>2
  <2>4. feedback_events'[p].closed_at = t
    BY <2>3 DEF Feedback
  <2>5. QED
    BY <2>1, <2>3, <2>4 DEF Onward
<1>3. QED
  BY <1>1, <1>2
(* Every step keeps what the incidents are raised from. *)
LEMMA EscapeInvKept ==
  ASSUME DurableInv, EscapeInv, EscapesAreRaised, [Next]_vars
  PROVE  EscapeInv' /\ EscapesAreRaised'
<1>0. backend' = backend
  BY BackendKept
<1>1. CASE ~Postgres
  BY <1>0, <1>1 DEF EscapeInv, EscapesAreRaised, Postgres
<1>2. CASE Restart
  <2>1. EscapeInv'
    BY <1>2 DEF Restart, EscapeInv, JudgesTheRow, AdmittedSteps, Idle
  <2>2. EscapesAreRaised'
    BY <1>2 DEF Restart, tables, EscapesAreRaised
  <2>3. QED
    BY <2>1, <2>2
<1>3. ASSUME Postgres, NEW t \in Threads, Handle(t) PROVE EscapeInv' /\ EscapesAreRaised'
  <2>1. EscapeInv'
    BY <1>3, StoreJudges, HandlersJudge DEF EscapeInv
  <2>2. EscapesAreRaised'
    BY <1>3, EscapesKept DEF EscapesAreRaised
  <2>3. QED
    BY <2>1, <2>2
<1>4. CASE UNCHANGED vars
  BY <1>4
  DEF vars, tables, stores, history, EscapeInv, EscapesAreRaised, JudgesTheRow, SameDecision,
      Postgres
<1>5. QED
  BY <1>1, <1>2, <1>3, <1>4 DEF Next


THEOREM EscapeInvariant == Spec => [](EscapeInv /\ EscapesAreRaised)
<1>1. Init => EscapeInv /\ EscapesAreRaised
  BY DEF Init, EscapeInv, EscapesAreRaised, JudgesTheRow, AdmittedSteps, Idle
<1>2. /\ DurableInv /\ EscapeInv /\ EscapesAreRaised /\ [Next]_vars
      => EscapeInv' /\ EscapesAreRaised'
  BY EscapeInvKept
<1>3. QED
  BY <1>1, <1>2, DurabilityInvariant, PTL DEF Spec

(* A defective piece that was accepted is in the incidents once its closing  *)
(* is in the tables and its handler has run to its end.                      *)
THEOREM EscapesAreAlwaysRaised == Spec => []EscapesAreRaised
BY EscapeInvariant, PTL

-----------------------------------------------------------------------------
(* One thread: nothing changes under a request that looked.                  *)

OneThread == \A t, u \in Threads : t = u

LooksAtTheRow(r) ==
  LET p == r.prediction_id IN
  /\ r.step = "check_open" => r.prediction = predictions[p]
  /\ r.step \in AdmittedSteps \ {"store_feedback"} =>
       predictions[p] # None /\ ~Closed(predictions[p])
  /\ r.step \in {"refresh_display", "close"} => (r.display <=> p \in display_feedback_events)

CountsTheRow == \A p \in Predictions : closings[p] = IF feedback_events[p] = None THEN 0 ELSE 1

CountsTheObject ==
  /\ \A p \in Predictions :
       /\ closings[p] <= 1
       /\ closings[p] # 0 => p \in issued
       /\ closings[p] # 0 /\ PREDICTION_STORE[p] # None => Closed(PREDICTION_STORE[p])
  /\ \A t \in Threads : req[t].step \in AdmittedSteps \/ Inserting(t) =>
       closings[req[t].prediction_id] = 0

SerialInv ==
  /\ Postgres => CountsTheRow /\ \A t \in Threads : LooksAtTheRow(req[t])
  /\ ~Postgres => CountsTheObject

LEMMA CountSteps ==
  ASSUME NEW t \in Threads, Handle(t), TypeInv
  PROVE  /\ Postgres => \/ UNCHANGED <<feedback_events, closings>>
                        \/ At(t, "close") /\ WriteClosing(t)
         /\ ~Postgres => \/ UNCHANGED closings
                         \/ /\ At(t, "store_feedback") /\ req'[t].step = "idle"
                            /\ closings' = [closings EXCEPT ![req[t].prediction_id] = @ + 1]
<1>1. CASE Close(t) \/ SavePrediction(t) \/ SaveDisplay(t)
  BY <1>1
  DEF Close, SavePrediction, SaveDisplay, WritePrediction, WriteDisplay, tables
<1>2. CASE ReplyLost(t)
  BY <1>2, Zenon DEF ReplyLost, WritePrediction, WriteDisplay
<1>3. CASE StoreFeedback(t)
  <2>1. req'[t].step = "idle"
    BY <1>3 DEF StoreFeedback, Finish, Idle, TypeInv, TypeOK
  <2>2. QED
    BY <1>3, <2>1 DEF StoreFeedback, tables
<1>4. CASE Predict(t) \/ SubmitOracle(t) \/ SubmitHuman(t)
  <2>1. UNCHANGED <<tables, closings>>
    BY <1>4, Zenon DEF Predict, SubmitOracle, SubmitHuman, Submit, history
  <2>2. QED
    BY <2>1 DEF tables
<1>5. CASE RefuseMismatch(t) \/ StorePrediction(t) \/ RefuseClosed(t) \/ Admit(t)
           \/ Lookup(t) \/ RefuseUnknown(t) \/ StoreDisplay(t) \/ ReadDisplay(t)
           \/ RefreshDisplay(t) \/ CallFails(t)
  BY <1>5
  DEF RefuseMismatch, StorePrediction, RefuseClosed, Admit, Lookup, RefuseUnknown, StoreDisplay,
      ReadDisplay, RefreshDisplay, CallFails, tables, history
<1>6. QED
  BY <1>1, <1>2, <1>3, <1>4, <1>5 DEF Handle

LEMMA RowsCounted ==
  ASSUME OneThread, DurableInv, SerialInv, Postgres, NEW t \in Threads, Handle(t)
  PROVE  CountsTheRow' /\ LooksAtTheRow(req[t])'
<1> DEFINE p == req[t].prediction_id
           r == req[t]
           n == req'[t]
<1>0. /\ TypeInv /\ ClosureInv /\ CountsTheRow /\ LooksAtTheRow(r) /\ Move(t) /\ TableStep(t)
      /\ ~At(t, "idle") => p \in Predictions
      /\ req[t] \in Request
      /\ feedback_events \in [Predictions -> FeedbackRecord \cup {None}]
      /\ closings \in [Predictions -> Nat]
  BY RequestMoves, TableSteps
  DEF DurableInv, ClosureInv, TypeInv, TypeOK, LocalsOK, LocalOK, At, SerialInv
<1>1. CountsTheRow'
  <2>1. CASE UNCHANGED <<feedback_events, closings>>
    BY <1>0, <2>1 DEF CountsTheRow
  <2>2. CASE At(t, "close") /\ WriteClosing(t)
    <3>1. /\ feedback_events' = [feedback_events EXCEPT ![p] = Feedback(t)]
          /\ closings' = [closings EXCEPT ![p] = @ + 1] /\ p \in Predictions
      BY <1>0, <2>2 DEF WriteClosing, At
    <3>2. feedback_events[p] = None
      BY <1>0, <2>2, <3>1
      DEF LooksAtTheRow, AdmittedSteps, At, ClosureInv, ClosureAgreement, Closed
    <3>3. Feedback(t) # None
      BY <1>0, FeedbackIsRecord, RecordsAssumption
    <3>4. closings[p] = 0
      BY <1>0, <3>1, <3>2 DEF CountsTheRow
    <3>5. ASSUME NEW q \in Predictions
          PROVE  closings'[q] = IF feedback_events'[q] = None THEN 0 ELSE 1
      <4>1. CASE q = p
        BY <1>0, <3>1, <3>3, <3>4, <4>1
      <4>2. CASE q # p
        BY <1>0, <3>1, <4>2 DEF CountsTheRow
      <4>3. QED
        BY <4>1, <4>2
    <3>6. QED
      BY <3>5 DEF CountsTheRow
  <2>3. QED
    BY <1>0, <2>1, <2>2, CountSteps
<1>2. LooksAtTheRow(r)'
  <2>1. ASSUME n.step \in {"idle", "save_prediction", "lookup", "store_prediction",
                           "store_feedback"}
        PROVE  LooksAtTheRow(r)'
    BY <2>1 DEF LooksAtTheRow, AdmittedSteps
  <2>2. CASE /\ Onward(r, n) /\ r.step = "lookup" /\ n.step = "check_open"
             /\ n.prediction = ReadPrediction(p) /\ UNCHANGED tables
    BY <2>2 DEF Onward, LooksAtTheRow, AdmittedSteps, ReadPrediction, tables
  <2>3. CASE /\ Onward(r, n) /\ r.step = "check_open"
             /\ n.step \in {"save_display", "read_display"}
             /\ Found(t) # None /\ ~Closed(Found(t)) /\ UNCHANGED tables
    <3>1. r.prediction = predictions[p] /\ p \in Predictions
      BY <1>0, <2>3 DEF LooksAtTheRow, At
    <3>2. predictions[p] # None /\ ~Closed(predictions[p])
      BY <2>3, <3>1 DEF Found, DurableInv, StoresBehindTables
    <3>3. QED
      BY <2>3, <3>2 DEF Onward, LooksAtTheRow, tables, Closed
  <2>4. CASE Onward(r, n) /\ r.step = "save_display" /\ n.step = "store_display"
    <3>1. UNCHANGED predictions
      BY <1>0, <2>4 DEF TableStep, At, WriteDisplay, tables
    <3>2. QED
      BY <1>0, <2>4, <3>1 DEF Onward, LooksAtTheRow, AdmittedSteps, Closed
  <2>5. CASE /\ Onward(r, n) /\ r.step = "read_display" /\ n.step = "refresh_display"
             /\ n.display = ReadDisplayRow(p) /\ UNCHANGED tables
    BY <1>0, <2>5 DEF Onward, LooksAtTheRow, AdmittedSteps, ReadDisplayRow, tables, Closed
  <2>6. CASE /\ Onward(r, n) /\ r.step = "refresh_display" /\ n.step = "close"
             /\ n.display <=> r.display \/ p \in DISPLAY_FEEDBACK_STORE
             /\ UNCHANGED tables
    <3>1. p \in DISPLAY_FEEDBACK_STORE => p \in display_feedback_events
      BY <1>0, <2>6 DEF DurableInv, StoresBehindTables, At
    <3>2. QED
      BY <1>0, <2>6, <3>1 DEF Onward, LooksAtTheRow, AdmittedSteps, tables, Closed
  <2>7. QED
    BY <1>0, <2>1, <2>2, <2>3, <2>4, <2>5, <2>6 DEF Move
<1>3. QED
  BY <1>1, <1>2 DEF LooksAtTheRow, Closed

LEMMA ObjectsCounted ==
  ASSUME OneThread, TypeInv, AnswersInv, AnswersInv', SerialInv, ~Postgres, ~Postgres',
         NEW t \in Threads, Handle(t)
  PROVE  CountsTheObject'
<1> DEFINE p == req[t].prediction_id
           r == req[t]
           n == req'[t]
<1>0. /\ CountsTheObject /\ IdsIssued /\ HandlersShare /\ AnswersAreStored'
      /\ Move(t) /\ \A q \in Predictions : MemoryStep(t, q)
      /\ issued \subseteq issued'
      /\ r.step \in AdmittedSteps => PREDICTION_STORE[p] # None
      /\ r.step # "idle" => p \in Predictions
      /\ r.step = "check_open" => r.prediction = None
      /\ closings \in [Predictions -> Nat]
  BY RequestMoves, MemorySteps, SaversAreNew
  DEF AnswersInv, MemoryInv, SerialInv, TypeInv, TypeOK, LocalsOK, LocalOK, HandlersShare
<1>1. ASSUME At(t, "store_feedback")
      PROVE  PREDICTION_STORE[p] # None /\ closings[p] = 0 /\ p \in issued /\ p \in Predictions
  BY <1>0, <1>1 DEF At, CountsTheObject, IdsIssued, AdmittedSteps
<1>2. \A q \in Predictions :
        \/ closings'[q] = closings[q]
        \/ /\ q = p /\ At(t, "store_feedback") /\ closings'[q] = 1 /\ n.step = "idle"
           /\ <<"closed", q>> \in answered'
  <2>1. CASE UNCHANGED closings
    BY <2>1
  <2>2. CASE /\ At(t, "store_feedback") /\ n.step = "idle"
             /\ closings' = [closings EXCEPT ![p] = @ + 1]
    <3>1. StoreFeedback(t)
      BY <2>2, ClosingSteps
    <3>2. <<"closed", p>> \in answered'
      BY <3>1 DEF StoreFeedback, Answer
    <3>3. QED
      BY <1>0, <1>1, <2>2, <3>2
  <2>3. QED
    BY <2>1, <2>2, CountSteps
<1>3. ASSUME NEW q \in Predictions
      PROVE  /\ closings'[q] <= 1
             /\ closings'[q] # 0 => q \in issued'
             /\ closings'[q] # 0 /\ PREDICTION_STORE'[q] # None => Closed(PREDICTION_STORE'[q])
  <2>1. CASE closings'[q] = closings[q]
    <3>1. closings'[q] <= 1 /\ (closings'[q] # 0 => q \in issued')
      BY <1>0, <2>1 DEF CountsTheObject
    <3>2. ASSUME closings'[q] # 0, PREDICTION_STORE'[q] # None
          PROVE  Closed(PREDICTION_STORE'[q])
      <4>1. MemoryStep(t, q) /\ ~(q = p /\ At(t, "store_prediction"))
        BY <1>0, <2>1, <3>2 DEF CountsTheObject, Inserting, At
      <4>2. QED
        BY <1>0, <2>1, <3>2, <4>1 DEF MemoryStep, CountsTheObject, Closed
    <3>3. QED
      BY <3>1, <3>2
  <2>2. CASE /\ q = p /\ At(t, "store_feedback") /\ closings'[q] = 1
             /\ <<"closed", q>> \in answered'
    <3>1. q \in issued'
      BY <1>0, <1>1, <2>2
    <3>2. PREDICTION_STORE'[q] # None => Closed(PREDICTION_STORE'[q])
      BY <1>0, <2>2 DEF AnswersAreStored, Closed
    <3>3. QED
      BY <2>2, <3>1, <3>2
  <2>3. QED
    BY <1>2, <2>1, <2>2
<1>4. ASSUME n.step \in AdmittedSteps \/ Inserting(t)' PROVE closings'[n.prediction_id] = 0
  <2> DEFINE q == n.prediction_id
  <2>1. ASSUME q \in Predictions, closings[q] = 0 PROVE closings'[q] = 0
    BY <1>2, <1>4, <2>1 DEF AdmittedSteps, Inserting
  <2>2. CASE n.step = "save_prediction"
    <3>1. q \in Predictions \ issued
      BY <2>2, SaversAreNew
    <3>2. QED
      BY <1>0, <2>1, <3>1 DEF CountsTheObject
  <2>3. CASE Onward(r, n) /\ (r.step = "save_prediction" \/ r.step \in AdmittedSteps)
    <3>1. q = p /\ p \in Predictions /\ closings[p] = 0
      BY <1>0, <2>3 DEF Onward, CountsTheObject, Inserting, AdmittedSteps
    <3>2. QED
      BY <2>1, <3>1
  <2>4. CASE Onward(r, n) /\ r.step = "check_open" /\ Found(t) # None /\ ~Closed(Found(t))
    <3>1. q = p /\ p \in Predictions /\ PREDICTION_STORE[p] # None /\ ~Closed(PREDICTION_STORE[p])
      BY <1>0, <2>4 DEF Onward, Found
    <3>2. QED
      BY <1>0, <2>1, <3>1 DEF CountsTheObject
  <2>5. QED
    BY <1>0, <1>4, <2>2, <2>3, <2>4 DEF Move, Inserting, AdmittedSteps
<1>5. QED
  BY <1>3, <1>4 DEF CountsTheObject, OneThread, Inserting, Closed
(* With one thread, every step keeps the counts. *)
LEMMA SerialInvKept ==
  ASSUME OneThread, DurableInv, AnswersInv, AnswersInv', SerialInv, [Next]_vars
  PROVE  SerialInv'
<1>0. backend' = backend /\ TypeInv /\ (Postgres' <=> Postgres)
  BY BackendKept DEF DurableInv, ClosureInv, Postgres
<1>1. CASE Restart
  BY <1>0, <1>1
  DEF Restart, tables, SerialInv, CountsTheRow, CountsTheObject, LooksAtTheRow,
      AdmittedSteps, Inserting, Idle
<1>2. ASSUME NEW t \in Threads, Handle(t) PROVE SerialInv'
  <2>1. CASE Postgres
    <3>1. CountsTheRow' /\ LooksAtTheRow(req[t])'
      BY <1>2, <2>1, RowsCounted
    <3>2. \A u \in Threads : LooksAtTheRow(req[u])'
      BY <3>1 DEF OneThread
    <3>3. QED
      BY <1>0, <2>1, <3>1, <3>2 DEF SerialInv
  <2>2. CASE ~Postgres
    BY <1>0, <1>2, <2>2, ObjectsCounted DEF SerialInv
  <2>3. QED
    BY <2>1, <2>2
<1>3. CASE UNCHANGED vars
  BY <1>0, <1>3
  DEF vars, tables, stores, history, SerialInv, CountsTheRow, CountsTheObject, LooksAtTheRow,
      Inserting, Closed
<1>4. QED
  BY <1>1, <1>2, <1>3 DEF Next


THEOREM SerialInvariant == ASSUME OneThread PROVE Spec => []SerialInv
<1>1. Init => SerialInv
  BY DEF Init, SerialInv, CountsTheRow, CountsTheObject, LooksAtTheRow, AdmittedSteps, Inserting,
         Idle
<1>2. DurableInv /\ AnswersInv /\ AnswersInv' /\ SerialInv /\ [Next]_vars => SerialInv'
  BY SerialInvKept
<1>3. QED
  BY <1>1, <1>2, DurabilityInvariant, AnswersInvariant, PTL DEF Spec

(* docs/feedback_rules.md: a prediction is closed at most once by oracle     *)
(* feedback.  With one thread it is, through every failure and with either   *)
(* backend; with two it is not (the run feedback_overlap).                   *)
THEOREM SerialClosesOnce == ASSUME OneThread PROVE Spec => []ClosedOnlyOnce
<1>1. SerialInv => ClosedOnlyOnce
  BY DEF SerialInv, CountsTheRow, CountsTheObject, ClosedOnlyOnce
<1>2. QED
  BY <1>1, SerialInvariant, PTL

-----------------------------------------------------------------------------
(* The refinement of the ledger: each transaction is one of its steps, and   *)
(* everything else leaves it as it is.                                       *)

Opened == [q \in Predictions |-> OpenedOf(predictions[q])]
Judged == [q \in Predictions |-> JudgementOf(feedback_events[q])]

LEMMA LedgerOpens ==
  ASSUME ClosureInv, Postgres, NEW t \in Threads, At(t, "save_prediction"), WritePrediction(t)
  PROVE  Ledger!Next
<1> DEFINE p == req[t].prediction_id
           pr == req[t].prediction
           o == [identity |-> pr.identity, decision |-> pr.decision]
<1>0. /\ p \in Predictions /\ pr \in PredictionRecord /\ pr # None /\ predictions[p] = None
      /\ predictions \in [Predictions -> PredictionRecord \cup {None}]
  BY RecordsAssumption
  DEF ClosureInv, TypeInv, TypeOK, LocalsOK, LocalOK, FreshIds, Saving, At
<1>1. /\ predictions' = [predictions EXCEPT ![p] = pr]
      /\ UNCHANGED <<feedback_events, display_feedback_events>>
  BY DEF WritePrediction
<1>2. Opened[p] = None /\ OpenedOf(pr) = o
  BY <1>0 DEF Opened, OpenedOf
<1>3. Opened' = [Opened EXCEPT ![p] = o]
  <2>1. \A q \in Predictions : OpenedOf(predictions'[q]) = IF q = p THEN o ELSE Opened[q]
    BY <1>0, <1>1, <1>2 DEF Opened
  <2>2. QED
    BY <2>1 DEF Opened
<1>4. Judged' = Judged
  BY <1>1 DEF Judged
<1>5. pr.identity \in Identities /\ pr.decision \in Decisions
  BY <1>0 DEF PredictionRecord
<1>6. Ledger!Open(p)
  BY <1>1, <1>2, <1>3, <1>4, <1>5 DEF Ledger!Open, Opened, Judged
<1>7. QED
  BY <1>0, <1>6 DEF Ledger!Next

LEMMA LedgerIsOpen ==
  ASSUME ClosureInv, Postgres, NEW p \in Predictions,
         predictions[p] # None, ~Closed(predictions[p])
  PROVE  Ledger!IsOpen(p)
<1>1. feedback_events[p] = None /\ predictions[p] \in PredictionRecord
  BY DEF ClosureInv, TypeInv, TypeOK, ClosureAgreement, Closed
<1>2. OpenedOf(predictions[p]) \in [identity : Identities, decision : Decisions]
  BY <1>1 DEF OpenedOf, PredictionRecord
<1>3. JudgementOf(feedback_events[p]) = None
  BY <1>1 DEF JudgementOf
<1>4. QED
  BY <1>2, <1>3, LedgerAssumption DEF Ledger!IsOpen

LEMMA LedgerShows ==
  ASSUME ClosureInv, Postgres, NEW t \in Threads, At(t, "save_display"), WriteDisplay(t),
         LooksAtTheRow(req[t])
  PROVE  Ledger!Next
<1> DEFINE p == req[t].prediction_id
<1>1. p \in Predictions /\ predictions[p] # None /\ ~Closed(predictions[p])
  BY DEF ClosureInv, TypeInv, LocalsOK, LocalOK, LooksAtTheRow, AdmittedSteps, At
<1>2. Ledger!IsOpen(p)
  BY <1>1, LedgerIsOpen
<1>3. Opened' = Opened /\ Judged' = Judged
  BY DEF WriteDisplay, Opened, Judged
<1>4. Ledger!Show(p)
  BY <1>2, <1>3 DEF Ledger!Show, WriteDisplay, Opened, Judged
<1>5. QED
  BY <1>1, <1>4 DEF Ledger!Next

LEMMA LedgerJudges ==
  ASSUME ClosureInv, Postgres, NEW t \in Threads, At(t, "close"), WriteClosing(t),
         LooksAtTheRow(req[t])
  PROVE  Ledger!Next
<1> DEFINE p == req[t].prediction_id
           j == JudgementOf(Feedback(t))
<1>0. /\ p \in Predictions /\ predictions[p] # None /\ ~Closed(predictions[p])
      /\ req[t].display <=> p \in display_feedback_events
      /\ predictions \in [Predictions -> PredictionRecord \cup {None}]
      /\ feedback_events \in [Predictions -> FeedbackRecord \cup {None}]
      /\ req[t] \in Request
  BY DEF ClosureInv, TypeInv, TypeOK, LocalsOK, LocalOK, LooksAtTheRow, AdmittedSteps, At
<1>1. Ledger!IsOpen(p)
  BY <1>0, LedgerIsOpen
<1>2. /\ feedback_events' = [feedback_events EXCEPT ![p] = Feedback(t)]
      /\ predictions' = [predictions EXCEPT ![p].feedback_closed_at = t]
      /\ UNCHANGED display_feedback_events
  BY Zenon DEF WriteClosing
<1>3. j = [verdict |-> OracleVerdict(req[t]),
           eligible_for_train |-> TrainBlockReason(req[t]) = None,
           conflict_logged |-> req[t].display]
  BY <1>0, FeedbackIsRecord, RecordsAssumption DEF JudgementOf, Feedback
<1>4. j \in Ledger!Judgement
  BY <1>0, <1>3 DEF Ledger!Judgement, OracleVerdict, Request
<1>5. /\ j.verdict = "defective" => ~j.eligible_for_train
      /\ j.conflict_logged <=> p \in display_feedback_events
  <2> DEFINE eligible == TrainBlockReason(req[t]) = None
  <2>0. j = [verdict |-> OracleVerdict(req[t]), eligible_for_train |-> eligible,
             conflict_logged |-> req[t].display]
    BY <1>3
  <2> HIDE DEF j, eligible
  <2>1. /\ j.verdict = OracleVerdict(req[t]) /\ j.conflict_logged = req[t].display
        /\ j.eligible_for_train = eligible
    BY <2>0
  <2>2. ASSUME OracleVerdict(req[t]) = "defective" PROVE TrainBlockReason(req[t]) # None
    <3>1. req[t].gt_mask_has_defect
      BY <2>2 DEF OracleVerdict
    <3>2. TrainBlockReason(req[t]) = "oracle_gt_defective"
      BY <3>1 DEF TrainBlockReason
    <3>3. QED
      BY <3>2, LedgerAssumption
  <2>3. OracleVerdict(req[t]) = "defective" => ~eligible
    BY <2>2 DEF eligible
  <2>4. QED
    BY <1>0, <2>1, <2>3
<1>6. Judged' = [Judged EXCEPT ![p] = j]
  <2>1. \A q \in Predictions : JudgementOf(feedback_events'[q]) = IF q = p THEN j ELSE Judged[q]
    BY <1>0, <1>2 DEF Judged
  <2>2. QED
    BY <2>1 DEF Judged
<1>7. Opened' = Opened
  <2>1. ASSUME NEW q \in Predictions PROVE OpenedOf(predictions'[q]) = OpenedOf(predictions[q])
    <3>1. CASE q = p
      <4>1. predictions[p] \in PredictionRecord
        BY <1>0
      <4>2. predictions'[p] = [predictions[p] EXCEPT !.feedback_closed_at = t]
        BY <1>0, <1>2
      <4>3. /\ predictions'[p] \in PredictionRecord
            /\ predictions'[p].identity = predictions[p].identity
            /\ predictions'[p].decision = predictions[p].decision
        BY <4>1, <4>2 DEF PredictionRecord, Stamp
      <4>4. QED
        BY <1>0, <3>1, <4>3, RecordsAssumption DEF OpenedOf
    <3>2. CASE q # p
      BY <1>0, <1>2, <3>2
    <3>3. QED
      BY <3>1, <3>2
  <2>2. QED
    BY <2>1 DEF Opened
<1> HIDE DEF j
<1>8. Ledger!Judge(p)
  BY <1>1, <1>2, <1>4, <1>5, <1>6, <1>7 DEF Ledger!Judge, Opened, Judged
<1>9. QED
  BY <1>0, <1>8 DEF Ledger!Next

LEMMA LedgerSteps ==
  ASSUME OneThread, DurableInv, SerialInv, [Next]_vars
  PROVE  [Ledger!Next]_(Ledger!vars)
<1>1. ASSUME UNCHANGED tables PROVE UNCHANGED Ledger!vars
  BY <1>1 DEF Ledger!vars, tables
<1>2. CASE Restart \/ UNCHANGED vars
  BY <1>1, <1>2 DEF Restart, vars
<1>3. ASSUME NEW t \in Threads, Handle(t) PROVE [Ledger!Next]_(Ledger!vars)
  <2>1. TableStep(t) /\ ClosureInv
    BY <1>3, TableSteps DEF DurableInv
  <2>2. Postgres => LooksAtTheRow(req[t])
    BY DEF SerialInv
  <2>3. QED
    BY <1>1, <2>1, <2>2, LedgerOpens, LedgerShows, LedgerJudges DEF TableStep
<1>4. QED
  BY <1>2, <1>3 DEF Next

(* With one thread the tables are the ledger docs/feedback_rules.md promises *)
(* through every failure: an open prediction is judged once and for all, and *)
(* the conflict flag says whether a human came before.                       *)
THEOREM SerialRefinesLedger == ASSUME OneThread PROVE Spec => RefinesLedger
<1>1. Init => Ledger!Init
  BY DEF Init, Ledger!Init, OpenedOf, JudgementOf
<1>2. DurableInv /\ SerialInv /\ [Next]_vars => [Ledger!Next]_(Ledger!vars)
  BY LedgerSteps
<1>3. QED
  BY <1>1, <1>2, DurabilityInvariant, SerialInvariant, PTL DEF Spec, RefinesLedger, Ledger!Spec
=============================================================================

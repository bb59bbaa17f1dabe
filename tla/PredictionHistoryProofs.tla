----------------------- MODULE PredictionHistoryProofs -----------------------
(***************************************************************************)
(* Theorems about PredictionHistory, for any threads, predictions, faults  *)
(* and either backend: an answer of the history is current, and a reader   *)
(* beside the handlers breaks none of the promises they keep alone.        *)
(***************************************************************************)
EXTENDS PredictionHistory, FeedbackProofs

-----------------------------------------------------------------------------
(* What the reader relies on between its steps. *)

Reading == {"feedback", "refresh", "display", "row"}
ReaderSteps == {"idle", "list", "store", "merge", "answered"} \cup Reading
Rows == [decision : Decisions \cup {None}, closed : BOOLEAN,
         verdict : {"conforme", "defective", None}]

ReaderState ==
  [step : ReaderSteps, records : [Predictions -> PredictionRecord \cup {None}],
   holders : [Predictions -> SUBSET (Threads \cup {"store"})],
   todo : SUBSET Predictions, keys : SUBSET Predictions, current : Predictions \cup {None},
   feedback : FeedbackRecord \cup {None}, rows : [Predictions -> Rows],
   known : SUBSET Predictions, judged : SUBSET Predictions]

(* The prediction at hand and those still to be read have a record. *)
ReaderTypes ==
  /\ reader \in ReaderState
  /\ reader.current # None <=> reader.step \in {"refresh", "display", "row"}
  /\ reader.current # None => reader.records[reader.current] # None
  /\ reader.step \in {"store"} \cup Reading => reader.todo \subseteq Known(reader.records)

(* Without tables the reader brings nothing that the dictionaries do not hold. *)
ReadsMemory ==
  ~Postgres =>
    /\ reader.step \in {"store", "merge"} => Known(reader.records) = {}
    /\ reader.step = "refresh" => reader.feedback = None
    /\ \A p \in Predictions : FEEDBACK_STORE[p] # None =>
         PREDICTION_STORE[p] # None /\ Closed(PREDICTION_STORE[p])

(* What the reader brings to the dictionaries is in the tables. *)
ReadsTables ==
  Postgres =>
    /\ \A p \in Predictions : reader.records[p] # None =>
         /\ SameDecision(reader.records[p], p)
         /\ Closed(reader.records[p]) => Closed(predictions[p])
    /\ reader.current # None /\ reader.feedback # None => feedback_events[reader.current] # None

(* What was stored and closed when the request arrived still is. *)
StillStored ==
  /\ \A p \in reader.known : IF Postgres THEN predictions[p] # None ELSE PREDICTION_STORE[p] # None
  /\ \A p \in reader.judged : IF Postgres THEN feedback_events[p] # None ELSE FEEDBACK_STORE[p] # None

Gathered == Reading \cup IF Postgres THEN {"store", "merge"} ELSE {}

(* The reader has it, from its list or from the dictionary on. *)
RecordsCurrent ==
  reader.step \in Gathered =>
    /\ reader.known \subseteq Known(reader.records)
    /\ \A p \in reader.judged : reader.records[p] # None /\ Closed(reader.records[p])

FeedbackCurrent ==
  reader.current \in reader.judged
    /\ (reader.step \in {"display", "row"} \/ (Postgres /\ reader.step = "refresh"))
  => reader.feedback # None

(* What is not to be read any more has its row. *)
RowsCurrent ==
  reader.step \in {"answered"} \cup Reading =>
    /\ reader.step = "answered" => reader.todo = {}
    /\ \A p \in reader.known \ (reader.todo \cup {reader.current}) : reader.rows[p] # NoRow
    /\ \A p \in reader.judged \ (reader.todo \cup {reader.current}) :
         reader.rows[p].closed /\ reader.rows[p].verdict # None

ReaderInv ==
  /\ ReaderTypes /\ ReadsMemory /\ ReadsTables /\ StillStored
  /\ RecordsCurrent /\ FeedbackCurrent /\ RowsCurrent

HandlersInv == DurableInv /\ AnswersInv

-----------------------------------------------------------------------------
(* The steps of the handlers *)

(* An object that the reader holds stays, and is closed at most by the handler that closes. *)
LEMMA RecordsOnlyClose ==
  ASSUME TypeInv, ReaderTypes, NEW p \in Predictions
  PROVE  /\ RecordAfter(p) \in PredictionRecord \cup {None}
         /\ RecordAfter(p) # None <=> reader.records[p] # None
         /\ reader.records[p] # None =>
              /\ RecordAfter(p).decision = reader.records[p].decision
              /\ Closed(reader.records[p]) => Closed(RecordAfter(p))
              /\ Closed(RecordAfter(p)) =>
                   \/ Closed(reader.records[p])
                   \/ \E t \in Threads : At(t, "store_feedback") /\ req[t].prediction_id = p
<1> DEFINE closers == {t \in Threads : Moves(t) /\ At(t, "store_feedback") /\ Holds(t, p)}
           closer == CHOOSE t \in Threads : Moves(t) /\ At(t, "store_feedback") /\ Holds(t, p)
           record == reader.records[p]
           closed == [record EXCEPT !.feedback_closed_at = closer]
<1>0. reader \in ReaderState /\ record \in PredictionRecord \cup {None}
  BY DEF ReaderTypes, ReaderState
<1>1. RecordAfter(p) = IF record # None /\ closers # {} THEN closed ELSE record
  <2>1. closers # {} <=> \E t \in Threads : Moves(t) /\ At(t, "store_feedback") /\ Holds(t, p)
    OBVIOUS
  <2> HIDE DEF closers
  <2>2. QED
    BY <2>1, Zenon DEF RecordAfter
<1>2. closers # {} => closer \in Threads /\ At(closer, "store_feedback") /\ Holds(closer, p)
  OBVIOUS
<1> HIDE DEF closer
<1>3. CASE record # None /\ closers # {}
  <2>1. record \in PredictionRecord /\ closer \in Threads
    BY <1>0, <1>2, <1>3
  <2>2. /\ closed \in PredictionRecord /\ closed.decision = record.decision
        /\ closed.feedback_closed_at = closer
    BY <2>1 DEF PredictionRecord, Stamp
  <2>3. closed # None /\ Closed(closed)
    BY <2>1, <2>2, RecordsAssumption, ThreadsAssumption DEF Closed
  <2> HIDE DEF closed, closers
  <2>4. QED
    BY <1>1, <1>2, <1>3, <2>1, <2>2, <2>3 DEF Holds
<1>4. CASE ~(record # None /\ closers # {})
  BY <1>0, <1>1, <1>4
<1>5. QED
  BY <1>3, <1>4

(* What a step of a handler leaves of the reader. *)
LEMMA HandledReader ==
  ASSUME TypeInv, ReaderTypes,
         reader' = [reader EXCEPT !.records = [p \in Predictions |-> RecordAfter(p)],
                                  !.holders = [p \in Predictions |-> HoldersAfter(p)]]
  PROVE  /\ ReaderTypes'
         /\ reader'.step = reader.step /\ reader'.todo = reader.todo
         /\ reader'.current = reader.current /\ reader'.feedback = reader.feedback
         /\ reader'.rows = reader.rows /\ reader'.known = reader.known
         /\ reader'.judged = reader.judged
         /\ \A p \in Predictions : reader'.records[p] = RecordAfter(p)
         /\ Known(reader'.records) = Known(reader.records)
<1> DEFINE records == [p \in Predictions |-> RecordAfter(p)]
           holders == [p \in Predictions |-> HoldersAfter(p)]
<1>1. records \in [Predictions -> PredictionRecord \cup {None}]
  BY RecordsOnlyClose
<1>2. holders \in [Predictions -> SUBSET (Threads \cup {"store"})]
  <2>1. ASSUME NEW p \in Predictions PROVE HoldersAfter(p) \subseteq Threads \cup {"store"}
    <3>1. reader.holders[p] \subseteq Threads \cup {"store"}
      BY DEF ReaderTypes, ReaderState
    <3>2. QED
      BY <3>1 DEF HoldersAfter
  <2>2. QED
    BY <2>1
<1>3. \A p \in Predictions : records[p] = RecordAfter(p)
  OBVIOUS
<1>4. reader' = [reader EXCEPT !.records = records, !.holders = holders]
  OBVIOUS
<1> HIDE DEF records, holders
<1>5. /\ reader' \in ReaderState /\ reader'.records = records
      /\ reader'.step = reader.step /\ reader'.todo = reader.todo
      /\ reader'.current = reader.current /\ reader'.feedback = reader.feedback
      /\ reader'.rows = reader.rows /\ reader'.known = reader.known
      /\ reader'.judged = reader.judged
  BY <1>1, <1>2, <1>4 DEF ReaderTypes, ReaderState
<1>6. Known(reader'.records) = Known(reader.records)
  BY <1>3, <1>5, RecordsOnlyClose DEF Known
<1>7. reader'.current # None => reader'.records[reader'.current] # None
  <2>1. reader.current \in Predictions \cup {None}
    BY DEF ReaderTypes, ReaderState
  <2>2. QED
    BY <1>3, <1>5, <2>1, RecordsOnlyClose DEF ReaderTypes
<1>8. ReaderTypes'
  BY <1>5, <1>6, <1>7 DEF ReaderTypes
<1>9. QED
  BY <1>3, <1>5, <1>6, <1>8

(* One step writes FEEDBACK_STORE, the last of a closing. *)
LEMMA FeedbackSteps ==
  ASSUME NEW t \in Threads, Handle(t)
  PROVE  UNCHANGED FEEDBACK_STORE \/ StoreFeedback(t)
<1>1. CASE Predict(t) \/ SubmitOracle(t) \/ SubmitHuman(t)
  BY <1>1, Zenon DEF Predict, SubmitOracle, SubmitHuman, Submit, stores
<1>2. CASE RefuseMismatch(t) \/ RefuseClosed(t) \/ Admit(t) \/ StorePrediction(t)
  BY <1>2 DEF RefuseMismatch, RefuseClosed, Admit, StorePrediction
<1>3. QED
  BY <1>1, <1>2
  DEF Handle, SavePrediction, Lookup, RefuseUnknown, SaveDisplay, StoreDisplay, ReadDisplay,
      RefreshDisplay, Close, CallFails, ReplyLost, stores

(* Without tables, what the dictionaries hold stays, and what is judged is closed. *)
LEMMA MemoryGrows ==
  ASSUME HandlersInv, HandlersInv', ~Postgres, ReadsMemory, NEW t \in Threads, Handle(t),
         backend' = backend, NEW p \in Predictions
  PROVE  /\ PREDICTION_STORE[p] # None => PREDICTION_STORE'[p] # None
         /\ FEEDBACK_STORE[p] # None => FEEDBACK_STORE'[p] # None
         /\ FEEDBACK_STORE'[p] # None => PREDICTION_STORE'[p] # None /\ Closed(PREDICTION_STORE'[p])
<1>0. /\ TypeInv /\ HandlersShare /\ InsertsAreNew /\ AnswersAreStored'
      /\ req[t] \in Request /\ FEEDBACK_STORE \in [Predictions -> FeedbackRecord \cup {None}]
      /\ req[t].step \in AdmittedSteps => PREDICTION_STORE[req[t].prediction_id] # None
  BY DEF HandlersInv, DurableInv, ClosureInv, TypeInv, TypeOK, LocalsOK, LocalOK, AnswersInv,
         MemoryInv, HandlersShare, Postgres
<1>1. MemoryStep(t, p)
  BY <1>0, MemorySteps
<1>2. /\ PREDICTION_STORE[p] # None => PREDICTION_STORE'[p] # None
      /\ PREDICTION_STORE[p] # None /\ Closed(PREDICTION_STORE[p]) => Closed(PREDICTION_STORE'[p])
  BY <1>0, <1>1 DEF MemoryStep, InsertsAreNew, Inserting, At, Closed
<1>3. FEEDBACK_STORE[p] # None => PREDICTION_STORE[p] # None /\ Closed(PREDICTION_STORE[p])
  BY DEF ReadsMemory
<1>4. CASE UNCHANGED FEEDBACK_STORE
  BY <1>2, <1>3, <1>4
<1>5. CASE StoreFeedback(t)
  <2>1. /\ FEEDBACK_STORE' = [FEEDBACK_STORE EXCEPT ![req[t].prediction_id] = Feedback(t)]
        /\ <<"closed", req[t].prediction_id>> \in answered' /\ At(t, "store_feedback")
    BY <1>5 DEF StoreFeedback, Answer
  <2>2. Feedback(t) # None
    BY <1>0, FeedbackIsRecord, RecordsAssumption
  <2>3. FEEDBACK_STORE[p] # None => FEEDBACK_STORE'[p] # None
    BY <1>0, <2>1, <2>2
  <2>4. CASE p = req[t].prediction_id
    <3>1. PREDICTION_STORE'[p] # None
      BY <1>0, <1>2, <2>1, <2>4 DEF At, AdmittedSteps
    <3>2. Closed(PREDICTION_STORE'[p])
      BY <1>0, <2>1, <2>4, <3>1 DEF AnswersAreStored, Closed
    <3>3. QED
      BY <1>2, <2>3, <3>1, <3>2
  <2>5. CASE p # req[t].prediction_id
    BY <1>0, <1>2, <1>3, <2>1, <2>5
  <2>6. QED
    BY <2>4, <2>5
<1>6. QED
  BY <1>4, <1>5, FeedbackSteps

LEMMA HandlerKeepsReader ==
  ASSUME HandlersInv, HandlersInv', ReaderInv, HandlerStep
  PROVE  ReaderInv'
<1>1. PICK t \in Threads : Handle(t)
  BY DEF HandlerStep
<1>2. /\ TypeInv /\ ClosureInv /\ ClosureAgreement /\ TablesGrow /\ [Next]_vars
      /\ backend' = backend /\ (Postgres' <=> Postgres)
      /\ reader \in ReaderState
      /\ Postgres => \A u \in Threads : Durable(req[u])
  BY <1>1, TablesOnlyGrow, BackendKept
  DEF HandlersInv, DurableInv, ClosureInv, Next, ReaderInv, ReaderTypes, Postgres
<1>3. /\ ReaderTypes'
      /\ reader'.step = reader.step /\ reader'.todo = reader.todo
      /\ reader'.current = reader.current /\ reader'.feedback = reader.feedback
      /\ reader'.rows = reader.rows /\ reader'.known = reader.known
      /\ reader'.judged = reader.judged
      /\ \A p \in Predictions : reader'.records[p] = RecordAfter(p)
      /\ Known(reader'.records) = Known(reader.records)
  BY <1>2, HandledReader DEF HandlerStep, ReaderInv
<1>4. ASSUME ~Postgres, NEW p \in Predictions
      PROVE  /\ PREDICTION_STORE[p] # None => PREDICTION_STORE'[p] # None
             /\ FEEDBACK_STORE[p] # None => FEEDBACK_STORE'[p] # None
             /\ FEEDBACK_STORE'[p] # None =>
                  PREDICTION_STORE'[p] # None /\ Closed(PREDICTION_STORE'[p])
  BY <1>1, <1>2, <1>4, MemoryGrows DEF ReaderInv
<1>5. ReadsMemory'
  BY <1>2, <1>3, <1>4 DEF ReadsMemory, ReaderInv, Closed
<1>6. ReadsTables'
  <2>1. ASSUME Postgres, NEW p \in Predictions, reader'.records[p] # None
        PROVE  /\ predictions'[p] # None /\ reader'.records[p].decision = predictions'[p].decision
               /\ Closed(reader'.records[p]) => Closed(predictions'[p])
    <3>1. /\ reader.records[p] # None
          /\ reader'.records[p].decision = reader.records[p].decision
          /\ Closed(reader'.records[p]) =>
               \/ Closed(reader.records[p])
               \/ \E u \in Threads : At(u, "store_feedback") /\ req[u].prediction_id = p
      BY <1>2, <1>3, <2>1, RecordsOnlyClose DEF ReaderInv
    <3>2. /\ predictions[p] # None /\ reader.records[p].decision = predictions[p].decision
          /\ Closed(reader.records[p]) => Closed(predictions[p])
      BY <2>1, <3>1 DEF ReaderInv, ReadsTables, SameDecision
    <3>3. RowKept(p)
      BY <1>2, <3>2, RowsKept
    <3>4. ASSUME NEW u \in Threads, At(u, "store_feedback"), req[u].prediction_id = p
          PROVE  Closed(predictions[p])
      BY <1>2, <2>1, <3>4 DEF Durable, RequestDurable, At, ClosureAgreement
    <3>5. QED
      BY <3>1, <3>2, <3>3, <3>4 DEF RowKept
  <2>2. ASSUME Postgres, reader'.current # None, reader'.feedback # None
        PROVE  feedback_events'[reader'.current] # None
    <3>1. reader.current \in Predictions /\ feedback_events[reader.current] # None
      BY <1>2, <1>3, <2>2 DEF ReaderInv, ReadsTables, ReaderState
    <3>2. QED
      BY <1>2, <1>3, <3>1 DEF TablesGrow
  <2>3. QED
    BY <1>2, <2>1, <2>2 DEF ReadsTables, SameDecision, Closed
<1>7. StillStored'
  <2>1. reader.known \subseteq Predictions /\ reader.judged \subseteq Predictions
    BY <1>2 DEF ReaderState
  <2>2. QED
    BY <1>2, <1>3, <1>4, <2>1 DEF StillStored, ReaderInv, TablesGrow
<1>8. RecordsCurrent'
  <2>1. reader.judged \subseteq Predictions
    BY <1>2 DEF ReaderState
  <2>2. (reader.step \in Gathered)' <=> reader.step \in Gathered
    BY <1>2, <1>3 DEF Gathered
  <2>3. ASSUME reader.step \in Gathered, NEW p \in reader.judged
        PROVE  reader'.records[p] # None /\ Closed(reader'.records[p])
    <3>1. reader.records[p] # None /\ Closed(reader.records[p]) /\ p \in Predictions
      BY <2>1, <2>3 DEF ReaderInv, RecordsCurrent
    <3>2. QED
      BY <1>2, <1>3, <3>1, RecordsOnlyClose DEF ReaderInv
  <2>4. reader.step \in Gathered => reader'.known \subseteq Known(reader'.records)
    BY <1>3 DEF ReaderInv, RecordsCurrent
  <2>5. QED
    BY <1>3, <2>2, <2>3, <2>4 DEF RecordsCurrent, Closed, Known
<1>9. FeedbackCurrent' /\ RowsCurrent'
  BY <1>2, <1>3 DEF FeedbackCurrent, RowsCurrent, ReaderInv
<1>10. QED
  BY <1>3, <1>5, <1>6, <1>7, <1>8, <1>9 DEF ReaderInv

-----------------------------------------------------------------------------
(* The steps of the reader *)

(* All that a reader writes are the dictionaries, and with tables only. *)
ReaderWrites ==
  /\ UNCHANGED <<backend, tables, INCIDENT_STORE, history>>
  /\ ~Postgres => UNCHANGED vars
  /\ \/ UNCHANGED <<PREDICTION_STORE, req>>
     \/ \E p \in Predictions :
          /\ Postgres /\ reader.records[p] # None
          /\ PREDICTION_STORE' = [PREDICTION_STORE EXCEPT ![p] = reader.records[p]]
          /\ req' = Unshared(None, p)
  /\ \/ UNCHANGED FEEDBACK_STORE
     \/ /\ Postgres /\ reader.current \in Predictions /\ reader.feedback # None
        /\ FEEDBACK_STORE' = [FEEDBACK_STORE EXCEPT ![reader.current] = reader.feedback]
  /\ \/ UNCHANGED DISPLAY_FEEDBACK_STORE
     \/ \E p \in Predictions :
          /\ Postgres /\ p \in display_feedback_events
          /\ DISPLAY_FEEDBACK_STORE' = DISPLAY_FEEDBACK_STORE \cup {p}

LEMMA ReadsWrite == ASSUME ReaderInv, Read PROVE ReaderWrites
<1>0. /\ reader \in ReaderState
      /\ reader.step \in {"refresh", "display"} => reader.current \in Predictions
      /\ reader.step = "store" => reader.todo \subseteq Known(reader.records)
  BY DEF ReaderInv, ReaderTypes, ReaderState
<1>1. CASE UNCHANGED vars
  BY <1>1, Zenon DEF ReaderWrites, vars, stores
<1>2. CASE StoreListed
  <2>1. CASE reader.todo = {}
    BY <1>1, <1>2, <2>1 DEF StoreListed, vars, stores
  <2>2. CASE reader.todo # {}
    <3>1. PICK p \in reader.todo :
            /\ PREDICTION_STORE' = [PREDICTION_STORE EXCEPT ![p] = reader.records[p]]
            /\ req' = Unshared(None, p)
      BY <1>2, <2>2 DEF StoreListed
    <3>2. p \in Predictions /\ reader.records[p] # None
      BY <1>0, <1>2 DEF StoreListed, ReaderAt, Known
    <3>3. Postgres
      BY <1>2, <3>1, <3>2 DEF ReaderInv, ReadsMemory, StoreListed, ReaderAt, Known
    <3>4. /\ UNCHANGED <<backend, tables, INCIDENT_STORE, history>>
          /\ UNCHANGED <<FEEDBACK_STORE, DISPLAY_FEEDBACK_STORE>>
      BY <1>2 DEF StoreListed
    <3>5. QED
      BY <3>1, <3>2, <3>3, <3>4 DEF ReaderWrites
  <2>3. QED
    BY <2>1, <2>2
<1>3. CASE RefreshFeedback
  <2>1. CASE reader.feedback = None
    BY <1>1, <1>3, <2>1 DEF RefreshFeedback, vars, stores
  <2>2. CASE reader.feedback # None
    <3>1. reader.current \in Predictions /\ Postgres
      BY <1>0, <1>3, <2>2 DEF RefreshFeedback, ReaderAt, ReaderInv, ReadsMemory
    <3>2. /\ UNCHANGED <<backend, tables, INCIDENT_STORE, history>>
          /\ UNCHANGED <<PREDICTION_STORE, req, DISPLAY_FEEDBACK_STORE>>
          /\ FEEDBACK_STORE' = [FEEDBACK_STORE EXCEPT ![reader.current] = reader.feedback]
      BY <1>3, <2>2 DEF RefreshFeedback
    <3>3. QED
      BY <2>2, <3>1, <3>2 DEF ReaderWrites
  <2>3. QED
    BY <2>1, <2>2
<1>4. CASE ReadDisplayFeedback
  <2>1. CASE ~ReadDisplayRow(reader.current)
    BY <1>1, <1>4, <2>1 DEF ReadDisplayFeedback, vars, stores
  <2>2. CASE ReadDisplayRow(reader.current)
    <3>1. /\ reader.current \in Predictions /\ Postgres
          /\ reader.current \in display_feedback_events
      BY <1>0, <1>4, <2>2 DEF ReadDisplayFeedback, ReaderAt, ReadDisplayRow
    <3>2. /\ UNCHANGED <<backend, tables, INCIDENT_STORE, history>>
          /\ UNCHANGED <<PREDICTION_STORE, req, FEEDBACK_STORE>>
          /\ DISPLAY_FEEDBACK_STORE' = DISPLAY_FEEDBACK_STORE \cup {reader.current}
      BY <1>4, <2>2 DEF ReadDisplayFeedback
    <3>3. QED
      BY <3>1, <3>2 DEF ReaderWrites
  <2>3. QED
    BY <2>1, <2>2
<1>5. QED
  BY <1>1, <1>2, <1>3, <1>4
  DEF Read, AskHistory, ListPredictions, MergeStore, ReadFeedback, AppendRow, AnswerHistory,
      ReadFails

(* A reader may take an object out of the dictionary that a handler holds, no more. *)
LEMMA ReadersUnshare ==
  ASSUME TypeInv, ReaderWrites, NEW t \in Threads
  PROVE  /\ req'[t] \in Request
         /\ Onward(req[t], req'[t]) /\ req'[t].step = req[t].step
         /\ req'[t].prediction = req[t].prediction /\ req'[t].display = req[t].display
         /\ req'[t].shared => req[t].shared
         /\ req'[t].identity = req[t].identity
         /\ req' \in [Threads -> Request]
<1>0. req \in [Threads -> Request] /\ req[t] \in Request /\ None \notin Threads
  BY ThreadsAssumption DEF TypeInv, TypeOK
<1>1. ASSUME NEW p \in Predictions, req' = Unshared(None, p)
      PROVE  req' \in [Threads -> Request]
  <2>1. ASSUME NEW u \in Threads PROVE [req[u] EXCEPT !.shared = FALSE] \in Request
    BY <1>0, SharedUpdate
  <2>2. QED
    BY <1>0, <1>1, <2>1 DEF Unshared
<1>2. req'[t] = req[t] \/ req'[t] = [req[t] EXCEPT !.shared = FALSE]
  BY <1>0 DEF ReaderWrites, Unshared
<1>3. req' \in [Threads -> Request]
  BY <1>0, <1>1 DEF ReaderWrites
<1>4. QED
  BY <1>0, <1>2, <1>3 DEF Onward, Request

LEMMA ReadsKeepTypes ==
  ASSUME TypeInv, ReaderInv, ReaderWrites
  PROVE  TypeInv'
<1>0. /\ TypeOK /\ reader \in ReaderState
      /\ PREDICTION_STORE \in [Predictions -> PredictionRecord \cup {None}]
      /\ FEEDBACK_STORE \in [Predictions -> FeedbackRecord \cup {None}]
  BY DEF TypeInv, TypeOK, ReaderInv, ReaderTypes
<1>1. /\ PREDICTION_STORE' \in [Predictions -> PredictionRecord \cup {None}]
      /\ \A p \in Predictions : PREDICTION_STORE[p] # None => PREDICTION_STORE'[p] # None
  <2>1. CASE UNCHANGED PREDICTION_STORE
    BY <1>0, <2>1
  <2>2. ASSUME NEW p \in Predictions, reader.records[p] # None,
               PREDICTION_STORE' = [PREDICTION_STORE EXCEPT ![p] = reader.records[p]]
        PROVE  /\ PREDICTION_STORE' \in [Predictions -> PredictionRecord \cup {None}]
               /\ \A q \in Predictions : PREDICTION_STORE[q] # None => PREDICTION_STORE'[q] # None
    <3>1. reader.records[p] \in PredictionRecord \cup {None}
      BY <1>0 DEF ReaderState
    <3>2. QED
      BY <1>0, <2>2, <3>1
  <2>3. QED
    BY <2>1, <2>2 DEF ReaderWrites
<1>2. FEEDBACK_STORE' \in [Predictions -> FeedbackRecord \cup {None}]
  <2>1. reader.feedback \in FeedbackRecord \cup {None}
    BY <1>0 DEF ReaderState
  <2>2. QED
    BY <1>0, <2>1 DEF ReaderWrites
<1>3. DISPLAY_FEEDBACK_STORE' \subseteq Predictions
  BY <1>0 DEF TypeOK, ReaderWrites
<1>4. ASSUME NEW t \in Threads PROVE req'[t] \in Request /\ LocalOK(req'[t], PREDICTION_STORE')
  <2>1. /\ req'[t] \in Request
        /\ req'[t].step = req[t].step /\ req'[t].prediction_id = req[t].prediction_id
        /\ req'[t].prediction = req[t].prediction /\ (req'[t].shared => req[t].shared)
    BY ReadersUnshare DEF Onward
  <2>2. LocalOK(req[t], PREDICTION_STORE)
    BY DEF TypeInv, LocalsOK
  <2>3. req[t].shared => req[t].prediction_id \in Predictions
    BY <2>2 DEF LocalOK, AdmittedSteps
  <2>4. QED
    BY <1>1, <2>1, <2>2, <2>3 DEF LocalOK
<1>5. req' \in [Threads -> Request]
  <2>1. CASE Threads = {}
    BY <1>0, <2>1 DEF ReaderWrites, Unshared, TypeOK
  <2>2. CASE Threads # {}
    BY <2>2, ReadersUnshare
  <2>3. QED
    BY <2>1, <2>2
<1>6. TypeOK'
  BY <1>0, <1>1, <1>2, <1>3, <1>5 DEF ReaderWrites, TypeOK, tables, history
<1>7. QED
  BY <1>4, <1>6 DEF TypeInv, LocalsOK

(* With a reader beside them the handlers keep what they rely on. *)
LEMMA ReadsKeepHandlers ==
  ASSUME HandlersInv, EscapeInv, EscapesAreRaised, ReaderInv, ReaderWrites
  PROVE  HandlersInv' /\ EscapeInv' /\ EscapesAreRaised'
<1>0. /\ TypeInv /\ TypeInv' /\ FreshIds /\ ClosureAgreement /\ StoresBehindTables
      /\ AnswersAreDurable /\ MemoryInv
      /\ Postgres => \A t \in Threads : Durable(req[t])
      /\ (Postgres' <=> Postgres)
      /\ UNCHANGED <<backend, predictions, feedback_events, display_feedback_events,
                     INCIDENT_STORE, issued, answered, closings, interrupted>>
  BY ReadsKeepTypes
  DEF HandlersInv, DurableInv, ClosureInv, AnswersInv, ReaderWrites, tables, history, Postgres
<1>1. ASSUME NEW t \in Threads
      PROVE  /\ req'[t].step = req[t].step /\ req'[t].prediction_id = req[t].prediction_id
             /\ req'[t].prediction = req[t].prediction /\ req'[t].display = req[t].display
             /\ req'[t].after_close = req[t].after_close
             /\ req'[t].after_human = req[t].after_human
             /\ req'[t].gt_mask_has_defect = req[t].gt_mask_has_defect
  BY <1>0, ReadersUnshare DEF Onward
<1>2. ClosureInv'
  <2>1. FreshIds'
    BY <1>0, <1>1 DEF FreshIds, Saving, At, Closed
  <2>2. ClosureAgreement'
    BY <1>0 DEF ClosureAgreement, Closed
  <2>3. QED
    BY <1>0, <2>1, <2>2 DEF ClosureInv
<1>3. ASSUME Postgres, NEW p \in Predictions
      PROVE  /\ PREDICTION_STORE'[p] # None =>
                  /\ predictions[p] # None
                  /\ PREDICTION_STORE'[p].decision = predictions[p].decision
                  /\ Closed(PREDICTION_STORE'[p]) => Closed(predictions[p])
             /\ FEEDBACK_STORE'[p] # None => feedback_events[p] # None
             /\ p \in DISPLAY_FEEDBACK_STORE' => p \in display_feedback_events
  <2>1. /\ PREDICTION_STORE \in [Predictions -> PredictionRecord \cup {None}]
        /\ FEEDBACK_STORE \in [Predictions -> FeedbackRecord \cup {None}]
    BY <1>0 DEF TypeInv, TypeOK
  <2>2. PREDICTION_STORE'[p] \in {PREDICTION_STORE[p], reader.records[p]}
    BY <2>1 DEF ReaderWrites
  <2>3. /\ PREDICTION_STORE[p] # None =>
             /\ predictions[p] # None
             /\ PREDICTION_STORE[p].decision = predictions[p].decision
             /\ Closed(PREDICTION_STORE[p]) => Closed(predictions[p])
        /\ reader.records[p] # None =>
             /\ predictions[p] # None
             /\ reader.records[p].decision = predictions[p].decision
             /\ Closed(reader.records[p]) => Closed(predictions[p])
    BY <1>0, <1>3 DEF StoresBehindTables, EscapeInv, SameDecision, ReaderInv, ReadsTables
  <2>4. FEEDBACK_STORE'[p] # None => feedback_events[p] # None
    <3>1. reader.current \in Predictions /\ reader.feedback # None =>
            feedback_events[reader.current] # None
      BY <1>3, PredictionsAssumption DEF ReaderInv, ReadsTables
    <3>2. QED
      BY <1>0, <1>3, <2>1, <3>1 DEF StoresBehindTables, ReaderWrites
  <2>5. p \in DISPLAY_FEEDBACK_STORE' => p \in display_feedback_events
    BY <1>0, <1>3 DEF StoresBehindTables, ReaderWrites
  <2>6. QED
    BY <2>2, <2>3, <2>4, <2>5
<1>4. DurableInv'
  <2>1. StoresBehindTables'
    BY <1>0, <1>3 DEF StoresBehindTables, Closed
  <2>2. AnswersAreDurable'
    BY <1>0 DEF AnswersAreDurable
  <2>3. ASSUME Postgres, NEW t \in Threads PROVE Durable(req[t])'
    BY <1>0, <1>1, <2>3 DEF Durable, RequestDurable, Closed
  <2>4. QED
    BY <1>0, <1>2, <2>1, <2>2, <2>3 DEF DurableInv
<1>5. AnswersInv'
  <2>1. MemoryInv'
    <3>1. CASE Postgres
      BY <1>0, <3>1 DEF MemoryInv
    <3>2. CASE ~Postgres
      <4>1. UNCHANGED vars
        BY <3>2 DEF ReaderWrites
      <4>2. QED
        BY <1>0, <4>1
        DEF vars, stores, history, MemoryInv, IdsIssued, InsertsAreNew, HandlersShare,
            AnswersAreStored, Inserting, Closed
    <3>3. QED
      BY <3>1, <3>2
  <2>2. ASSUME NEW t \in Threads PROVE AfterOK(req[t])'
    BY <1>0, <1>1 DEF HandlersInv, AnswersInv, AfterOK, Closed
  <2>3. QED
    BY <2>1, <2>2 DEF AnswersInv
<1>6. EscapeInv' /\ EscapesAreRaised'
  <2>1. ASSUME Postgres, NEW t \in Threads PROVE JudgesTheRow(t)'
    <3>1. JudgesTheRow(t) /\ OracleVerdict(req'[t]) = OracleVerdict(req[t])
      BY <1>1, <2>1 DEF EscapeInv, OracleVerdict
    <3>2. QED
      BY <1>0, <1>1, <3>1 DEF JudgesTheRow, SameDecision
  <2>2. EscapeInv'
    BY <1>0, <1>3, <2>1 DEF EscapeInv, SameDecision
  <2>3. EscapesAreRaised'
    <3>1. ASSUME Postgres, NEW p \in Predictions, feedback_events[p] # None
          PROVE  feedback_events[p].closed_at \in Threads
      BY <1>0, <3>1 DEF TypeInv, TypeOK, FeedbackRecord
    <3>2. QED
      BY <1>0, <1>1, <3>1 DEF EscapesAreRaised, FalseNegative
  <2>4. QED
    BY <2>2, <2>3
<1>7. QED
  BY <1>4, <1>5, <1>6 DEF HandlersInv

LEMMA NoReaderIs ==
  /\ NoReader \in ReaderState /\ NoReader.step = "idle"
  /\ NoReader.records = [p \in Predictions |-> None] /\ NoReader.rows = [p \in Predictions |-> NoRow]
  /\ NoReader.todo = {} /\ NoReader.current = None /\ NoReader.feedback = None
  /\ NoReader.known = {} /\ NoReader.judged = {}
BY DEF NoReader, NoRow, ReaderState, ReaderSteps, Rows

LEMMA NoReaderInv ==
  ASSUME reader' = NoReader,
         ~Postgres' => \A p \in Predictions : FEEDBACK_STORE'[p] # None =>
                         PREDICTION_STORE'[p] # None /\ Closed(PREDICTION_STORE'[p])
  PROVE  ReaderInv'
<1>1. /\ reader' \in ReaderState /\ reader'.step = "idle" /\ reader'.current = None
      /\ reader'.known = {} /\ reader'.judged = {}
      /\ \A p \in Predictions : reader'.records[p] = None
  BY NoReaderIs
<1>2. ReaderTypes'
  BY <1>1 DEF ReaderTypes, Reading
<1>3. ReadsMemory' /\ ReadsTables' /\ StillStored'
  BY <1>1 DEF ReadsMemory, ReadsTables, StillStored, Closed
<1>4. RecordsCurrent' /\ FeedbackCurrent' /\ RowsCurrent'
  BY <1>1 DEF RecordsCurrent, FeedbackCurrent, RowsCurrent, Reading, Gathered
<1>5. QED
  BY <1>2, <1>3, <1>4 DEF ReaderInv

(* What the conditions on the stores need of a step of the reader. *)
LEMMA StoredFor ==
  ASSUME HandlersInv, ReaderInv, ReaderWrites, reader' \in ReaderState,
         \/ reader'.known = reader.known /\ reader'.judged = reader.judged
         \/ /\ reader'.known = Known(IF Postgres THEN predictions ELSE PREDICTION_STORE)
            /\ reader'.judged = Known(IF Postgres THEN feedback_events ELSE FEEDBACK_STORE)
  PROVE  /\ StillStored'
         /\ UNCHANGED <<backend, predictions, feedback_events>> /\ (Postgres' <=> Postgres)
         /\ ~Postgres => UNCHANGED <<PREDICTION_STORE, FEEDBACK_STORE>>
         /\ ~Postgres => \A p \in Predictions : FEEDBACK_STORE'[p] # None =>
                           PREDICTION_STORE'[p] # None /\ Closed(PREDICTION_STORE'[p])
         /\ \A p \in reader'.known : IF Postgres THEN predictions[p] # None
                                     ELSE PREDICTION_STORE[p] # None
         /\ \A p \in reader'.judged :
              IF Postgres THEN /\ feedback_events[p] # None
                               /\ predictions[p] # None /\ Closed(predictions[p])
              ELSE /\ FEEDBACK_STORE[p] # None
                   /\ PREDICTION_STORE[p] # None /\ Closed(PREDICTION_STORE[p])
<1>1. /\ UNCHANGED <<backend, predictions, feedback_events>> /\ (Postgres' <=> Postgres)
      /\ ~Postgres => UNCHANGED <<PREDICTION_STORE, FEEDBACK_STORE>>
  BY DEF ReaderWrites, tables, vars, stores, Postgres
<1>2. ~Postgres => \A p \in Predictions : FEEDBACK_STORE[p] # None =>
                     PREDICTION_STORE[p] # None /\ Closed(PREDICTION_STORE[p])
  BY DEF ReaderInv, ReadsMemory
<1>3. /\ \A p \in reader'.known : IF Postgres THEN predictions[p] # None
                                  ELSE PREDICTION_STORE[p] # None
      /\ \A p \in reader'.judged : IF Postgres THEN feedback_events[p] # None
                                   ELSE FEEDBACK_STORE[p] # None
  BY DEF ReaderInv, StillStored, Known
<1>4. reader'.judged \subseteq Predictions
  BY DEF ReaderState
<1>5. \A p \in reader'.judged :
        /\ Postgres => predictions[p] # None /\ Closed(predictions[p])
        /\ ~Postgres => PREDICTION_STORE[p] # None /\ Closed(PREDICTION_STORE[p])
  BY <1>2, <1>3, <1>4 DEF HandlersInv, DurableInv, ClosureInv, ClosureAgreement
<1>6. StillStored'
  BY <1>1, <1>3 DEF StillStored
<1>7. QED
  BY <1>1, <1>2, <1>3, <1>5, <1>6 DEF Closed

LEMMA ReadsKeepReader ==
  ASSUME HandlersInv, EscapeInv, ReaderInv, Read
  PROVE  ReaderInv'
<1> USE DEF ReaderAt
<1>0. /\ ReaderWrites /\ reader \in ReaderState /\ TypeInv /\ ClosureAgreement
      /\ predictions \in [Predictions -> PredictionRecord \cup {None}]
      /\ feedback_events \in [Predictions -> FeedbackRecord \cup {None}]
      /\ PREDICTION_STORE \in [Predictions -> PredictionRecord \cup {None}]
      /\ FEEDBACK_STORE \in [Predictions -> FeedbackRecord \cup {None}]
      /\ Postgres => StoresBehindTables
  BY ReadsWrite
  DEF ReaderInv, ReaderTypes, HandlersInv, DurableInv, ClosureInv, TypeInv, TypeOK
<1>1. /\ reader.current # None <=> reader.step \in {"refresh", "display", "row"}
      /\ reader.current # None =>
           reader.current \in Predictions /\ reader.records[reader.current] # None
      /\ reader.step \in {"store"} \cup Reading => reader.todo \subseteq Known(reader.records)
      /\ reader.todo \subseteq Predictions
      /\ reader.known \subseteq Predictions /\ reader.judged \subseteq Predictions
  BY <1>0 DEF ReaderInv, ReaderTypes, ReaderState
<1>2. ASSUME reader' = NoReader PROVE ReaderInv'
  <2>1. ~Postgres' => UNCHANGED vars
    BY <1>0 DEF ReaderWrites, Postgres
  <2>2. ~Postgres' => \A p \in Predictions : FEEDBACK_STORE'[p] # None =>
                        PREDICTION_STORE'[p] # None /\ Closed(PREDICTION_STORE'[p])
    BY <1>0, <2>1 DEF ReaderInv, ReadsMemory, ReaderWrites, vars, stores, Postgres, Closed
  <2>3. QED
    BY <1>2, <2>2, NoReaderInv
<1>3. CASE AskHistory
  <2> DEFINE known == Known(IF Postgres THEN predictions ELSE PREDICTION_STORE)
             judged == Known(IF Postgres THEN feedback_events ELSE FEEDBACK_STORE)
  <2>1. known \in SUBSET Predictions /\ judged \in SUBSET Predictions
    BY DEF Known
  <2>2. reader' = [NoReader EXCEPT !.step = "list", !.known = known, !.judged = judged]
    BY <1>3 DEF AskHistory
  <2>3. reader'.known = known /\ reader'.judged = judged
    BY <2>2 DEF NoReader
  <2> HIDE DEF known, judged
  <2>4. /\ reader' \in ReaderState /\ reader'.step = "list" /\ reader'.current = None
        /\ \A p \in Predictions : reader'.records[p] = None
    BY <2>1, <2>2, NoReaderIs DEF ReaderState, ReaderSteps
  <2>5. StillStored' /\ (~Postgres' => \A p \in Predictions : FEEDBACK_STORE'[p] # None =>
                           PREDICTION_STORE'[p] # None /\ Closed(PREDICTION_STORE'[p]))
    BY <1>0, <2>3, <2>4, StoredFor DEF known, judged
  <2>6. ReaderTypes' /\ ReadsMemory' /\ ReadsTables'
    BY <2>4, <2>5 DEF ReaderTypes, Reading, ReadsMemory, ReadsTables, Closed
  <2>7. RecordsCurrent' /\ FeedbackCurrent' /\ RowsCurrent'
    BY <2>4 DEF RecordsCurrent, FeedbackCurrent, RowsCurrent, Reading, Gathered
  <2>8. QED
    BY <2>5, <2>6, <2>7 DEF ReaderInv
<1>4. CASE ListPredictions
  <2>1. /\ ListedRecords \in [Predictions -> PredictionRecord \cup {None}]
        /\ \A p \in Predictions : ListedRecords[p] = IF Postgres THEN predictions[p] ELSE None
        /\ Known(ListedRecords) \in SUBSET Predictions
    BY <1>0, NoReaderIs DEF ListedRecords, Known
  <2>2. /\ reader' \in ReaderState /\ reader'.step = "store" /\ reader'.records = ListedRecords
        /\ reader'.todo = Known(ListedRecords) /\ reader'.current = reader.current
        /\ reader'.known = reader.known /\ reader'.judged = reader.judged
        /\ reader.step = "list"
    <3> HIDE DEF ListedRecords
    <3>1. QED
      BY <1>0, <1>4, <2>1 DEF ListPredictions, ReaderState, ReaderSteps
  <2>3. /\ StillStored' /\ UNCHANGED <<predictions, feedback_events>> /\ (Postgres' <=> Postgres)
        /\ ~Postgres' => \A p \in Predictions : FEEDBACK_STORE'[p] # None =>
                           PREDICTION_STORE'[p] # None /\ Closed(PREDICTION_STORE'[p])
        /\ \A p \in reader'.known : Postgres => predictions[p] # None
        /\ \A p \in reader'.judged : Postgres => predictions[p] # None /\ Closed(predictions[p])
    BY <1>0, <2>2, StoredFor
  <2>4. reader'.current = None
    BY <1>1, <2>2
  <2>5. ReaderTypes' /\ ReadsMemory'
    BY <2>1, <2>2, <2>3, <2>4 DEF ReaderTypes, ReadsMemory, Reading, Known, Closed
  <2>6. ReadsTables'
    BY <2>1, <2>2, <2>3, <2>4 DEF ReadsTables, SameDecision, Closed
  <2>7. RecordsCurrent'
    <3>1. Postgres => /\ \A p \in reader'.known : reader'.records[p] # None /\ p \in Predictions
                      /\ \A p \in reader'.judged :
                           reader'.records[p] # None /\ Closed(reader'.records[p])
      BY <1>1, <2>1, <2>2, <2>3
    <3>2. (reader.step \in Gathered)' => Postgres
      BY <2>2, <2>3 DEF Gathered, Reading
    <3>3. QED
      BY <3>1, <3>2 DEF RecordsCurrent, Known, Closed
  <2>8. FeedbackCurrent' /\ RowsCurrent'
    BY <2>2 DEF FeedbackCurrent, RowsCurrent, Reading
  <2>9. QED
    BY <2>3, <2>5, <2>6, <2>7, <2>8 DEF ReaderInv
<1>5. CASE StoreListed
  <2>1. /\ reader' \in ReaderState /\ reader'.records = reader.records
        /\ reader'.step \in {"store", "merge"} /\ reader'.current = reader.current
        /\ reader'.todo \subseteq reader.todo
        /\ reader'.known = reader.known /\ reader'.judged = reader.judged
        /\ reader.step = "store"
    <3>1. CASE reader.todo = {}
      <4>1. Known(PREDICTION_STORE) \in SUBSET Predictions
        BY DEF Known
      <4>2. reader' = [reader EXCEPT !.step = "merge", !.keys = Known(PREDICTION_STORE)]
        BY <1>5, <3>1 DEF StoreListed
      <4>3. QED
        BY <1>0, <1>5, <4>1, <4>2 DEF StoreListed, ReaderState, ReaderSteps
    <3>2. CASE reader.todo # {}
      <4>1. PICK p \in reader.todo :
              reader' = [reader EXCEPT !.todo = @ \ {p}, !.holders[p] = {"store"}]
        BY <1>5, <3>2 DEF StoreListed
      <4> DEFINE holders == [reader.holders EXCEPT ![p] = {"store"}]
      <4>2. holders \in [Predictions -> SUBSET (Threads \cup {"store"})]
        BY <1>0 DEF ReaderState
      <4>3. reader' = [reader EXCEPT !.todo = reader.todo \ {p}, !.holders = holders]
        BY <4>1
      <4> HIDE DEF holders
      <4>4. QED
        BY <1>0, <1>5, <4>2, <4>3 DEF StoreListed, ReaderState
    <3>3. QED
      BY <3>1, <3>2
  <2>2. /\ StillStored' /\ UNCHANGED <<predictions, feedback_events>> /\ (Postgres' <=> Postgres)
        /\ ~Postgres' => \A p \in Predictions : FEEDBACK_STORE'[p] # None =>
                           PREDICTION_STORE'[p] # None /\ Closed(PREDICTION_STORE'[p])
    BY <1>0, <2>1, StoredFor
  <2>3. reader'.current = None /\ reader'.todo \subseteq Known(reader'.records)
    BY <1>1, <2>1
  <2>4. ReaderTypes' /\ ReadsMemory' /\ ReadsTables'
    BY <2>1, <2>2, <2>3
    DEF ReaderTypes, ReadsMemory, ReadsTables, ReaderInv, Reading, Known, SameDecision, Closed
  <2>5. RecordsCurrent'
    BY <2>1, <2>2 DEF RecordsCurrent, ReaderInv, Gathered, Reading, Known, Closed
  <2>6. FeedbackCurrent' /\ RowsCurrent'
    BY <2>1 DEF FeedbackCurrent, RowsCurrent, Reading
  <2>7. QED
    BY <2>2, <2>4, <2>5, <2>6 DEF ReaderInv
<1>6. CASE MergeStore
  <2>1. CASE Known(PREDICTION_STORE) # reader.keys
    BY <1>2, <1>6, <2>1 DEF MergeStore
  <2>2. CASE Known(PREDICTION_STORE) = reader.keys
    <3> DEFINE records == [p \in Predictions |-> Merged(p)]
               holders == [p \in Predictions |->
                             IF reader.records[p] = None /\ records[p] # None THEN {"store"}
                             ELSE reader.holders[p]]
    <3>1. records \in [Predictions -> PredictionRecord \cup {None}]
      BY <1>0 DEF Merged, ReaderState
    <3>2. holders \in [Predictions -> SUBSET (Threads \cup {"store"})]
      <4> HIDE DEF records
      <4>1. QED
        BY <1>0 DEF ReaderState
    <3>3. \A p \in Predictions :
            records[p] = IF reader.records[p] # None THEN reader.records[p] ELSE PREDICTION_STORE[p]
      BY DEF Merged
    <3>4. reader' = [reader EXCEPT !.step = "feedback", !.records = records,
                       !.todo = Known(records), !.keys = {}, !.holders = holders]
      BY <1>6, <2>2 DEF MergeStore
    <3> HIDE DEF records, holders
    <3>5. Known(records) \in SUBSET Predictions
      BY DEF Known
    <3>6. /\ reader' \in ReaderState /\ reader'.step = "feedback" /\ reader'.records = records
          /\ reader'.todo = Known(records) /\ reader'.current = reader.current
          /\ reader'.known = reader.known /\ reader'.judged = reader.judged
          /\ reader.step = "merge"
      <4>1. reader.step = "merge"
        BY <1>6 DEF MergeStore
      <4>2. QED
        BY <1>0, <3>1, <3>2, <3>4, <3>5, <4>1 DEF ReaderState, ReaderSteps, Reading
    <3>7. /\ StillStored' /\ UNCHANGED <<predictions, feedback_events>> /\ (Postgres' <=> Postgres)
          /\ ~Postgres' => \A p \in Predictions : FEEDBACK_STORE'[p] # None =>
                             PREDICTION_STORE'[p] # None /\ Closed(PREDICTION_STORE'[p])
          /\ ~Postgres => \A p \in reader.known : PREDICTION_STORE[p] # None
          /\ ~Postgres => \A p \in reader.judged :
                            PREDICTION_STORE[p] # None /\ Closed(PREDICTION_STORE[p])
      BY <1>0, <3>6, StoredFor
    <3>8. reader'.current = None /\ None \notin Predictions
      BY <1>1, <3>6, PredictionsAssumption
    <3>9. ReaderTypes' /\ ReadsMemory'
      BY <3>6, <3>7, <3>8 DEF ReaderTypes, ReadsMemory, Reading, Closed
    <3>10. ReadsTables'
      <4>1. ASSUME Postgres, NEW p \in Predictions, records[p] # None
            PROVE  /\ SameDecision(records[p], p)
                   /\ Closed(records[p]) => Closed(predictions[p])
        <5>1. PREDICTION_STORE[p] # None =>
                /\ SameDecision(PREDICTION_STORE[p], p)
                /\ Closed(PREDICTION_STORE[p]) => Closed(predictions[p])
          BY <1>0, <4>1 DEF EscapeInv, StoresBehindTables
        <5>2. reader.records[p] # None =>
                /\ SameDecision(reader.records[p], p)
                /\ Closed(reader.records[p]) => Closed(predictions[p])
          BY <4>1 DEF ReaderInv, ReadsTables
        <5>3. QED
          BY <3>3, <4>1, <5>1, <5>2
      <4>2. QED
        BY <3>6, <3>7, <3>8, <4>1 DEF ReadsTables, SameDecision, Closed
    <3>11. /\ reader.known \subseteq Known(records)
           /\ \A p \in reader.judged : records[p] # None /\ Closed(records[p]) /\ p \in Known(records)
      <4>1. CASE Postgres
        <5>1. /\ reader.known \subseteq Known(reader.records)
              /\ \A p \in reader.judged : reader.records[p] # None /\ Closed(reader.records[p])
          BY <3>6, <4>1 DEF ReaderInv, RecordsCurrent, Gathered
        <5>2. QED
          BY <1>1, <3>3, <5>1 DEF Known
      <4>2. CASE ~Postgres
        <5>1. \A p \in Predictions : reader.records[p] = None
          BY <3>6, <4>2 DEF ReaderInv, ReadsMemory, Known
        <5>2. QED
          BY <1>1, <3>3, <3>7, <4>2, <5>1 DEF Known
      <4>3. QED
        BY <4>1, <4>2
    <3>12. RecordsCurrent' /\ FeedbackCurrent' /\ RowsCurrent'
      <4>1. RecordsCurrent'
        BY <3>6, <3>11 DEF RecordsCurrent, Known, Closed
      <4>2. FeedbackCurrent'
        BY <3>6 DEF FeedbackCurrent
      <4>3. RowsCurrent'
        BY <3>6, <3>11 DEF RowsCurrent
      <4>4. QED
        BY <4>1, <4>2, <4>3
    <3>13. QED
      BY <3>7, <3>9, <3>10, <3>12 DEF ReaderInv
  <2>3. QED
    BY <2>1, <2>2
<1>7. CASE ReadFeedback
  <2>1. PICK p \in reader.todo :
          reader' = [reader EXCEPT !.step = "refresh", !.todo = @ \ {p}, !.current = p,
                       !.feedback = IF Postgres THEN feedback_events[p] ELSE None]
    BY <1>7 DEF ReadFeedback
  <2>2. p \in Predictions /\ reader.records[p] # None /\ reader.current = None /\ p # None
    BY <1>1, <1>7, PredictionsAssumption DEF ReadFeedback, Reading, Known
  <2> DEFINE feedback == IF Postgres THEN feedback_events[p] ELSE None
  <2>3. feedback \in FeedbackRecord \cup {None}
    BY <1>0, <2>2
  <2>4. /\ reader' \in ReaderState /\ reader'.step = "refresh" /\ reader'.records = reader.records
        /\ reader'.todo = reader.todo \ {p} /\ reader'.current = p /\ reader'.feedback = feedback
        /\ reader'.rows = reader.rows
        /\ reader'.known = reader.known /\ reader'.judged = reader.judged
        /\ reader.step = "feedback"
    <3>1. reader' = [reader EXCEPT !.step = "refresh", !.todo = reader.todo \ {p}, !.current = p,
                       !.feedback = feedback]
      BY <2>1
    <3> HIDE DEF feedback
    <3>2. QED
      BY <1>0, <1>7, <2>2, <2>3, <3>1 DEF ReadFeedback, ReaderState, ReaderSteps, Reading
  <2>5. /\ StillStored' /\ UNCHANGED <<predictions, feedback_events>> /\ (Postgres' <=> Postgres)
        /\ ~Postgres' => \A q \in Predictions : FEEDBACK_STORE'[q] # None =>
                           PREDICTION_STORE'[q] # None /\ Closed(PREDICTION_STORE'[q])
        /\ Postgres => \A q \in reader.judged : feedback_events[q] # None
    BY <1>0, <2>4, StoredFor
  <2>6. ReaderTypes'
    BY <1>1, <2>2, <2>4 DEF ReaderTypes, Reading, Known
  <2>7. ReadsMemory'
    BY <2>4, <2>5 DEF ReadsMemory, Closed
  <2>8. ReadsTables'
    BY <2>4, <2>5 DEF ReadsTables, ReaderInv, SameDecision, Closed
  <2>9. RecordsCurrent'
    BY <2>4 DEF RecordsCurrent, ReaderInv, Gathered, Reading, Known, Closed
  <2>10. FeedbackCurrent'
    BY <2>4, <2>5 DEF FeedbackCurrent
  <2>11. RowsCurrent'
    <3>1. /\ \A q \in reader.known \ (reader.todo \cup {None}) : reader.rows[q] # NoRow
          /\ \A q \in reader.judged \ (reader.todo \cup {None}) :
               reader.rows[q].closed /\ reader.rows[q].verdict # None
      BY <2>2, <2>4 DEF ReaderInv, RowsCurrent, Reading
    <3>2. /\ \A q \in reader.known \ (reader'.todo \cup {p}) : reader.rows[q] # NoRow
          /\ \A q \in reader.judged \ (reader'.todo \cup {p}) :
               reader.rows[q].closed /\ reader.rows[q].verdict # None
      BY <1>1, <2>4, <3>1, PredictionsAssumption
    <3>3. QED
      BY <2>4, <3>2 DEF RowsCurrent
  <2>12. QED
    BY <2>5, <2>6, <2>7, <2>8, <2>9, <2>10, <2>11 DEF ReaderInv
<1>8. CASE RefreshFeedback
  <2> DEFINE p == reader.current
             feedback == IF reader.feedback # None THEN reader.feedback ELSE FEEDBACK_STORE[p]
  <2>1. p \in Predictions /\ reader.step = "refresh"
    BY <1>1, <1>8 DEF RefreshFeedback
  <2>2. feedback \in FeedbackRecord \cup {None}
    BY <1>0, <2>1 DEF ReaderState
  <2>3. /\ reader' \in ReaderState /\ reader'.step = "display" /\ reader'.records = reader.records
        /\ reader'.todo = reader.todo /\ reader'.current = p /\ reader'.feedback = feedback
        /\ reader'.rows = reader.rows
        /\ reader'.known = reader.known /\ reader'.judged = reader.judged
    <3>1. reader' = [reader EXCEPT !.step = "display", !.feedback = feedback]
      BY <1>0, <1>8 DEF RefreshFeedback, ReaderState
    <3> HIDE DEF feedback
    <3>2. QED
      BY <1>0, <2>1, <2>2, <3>1 DEF ReaderState, ReaderSteps, Reading
  <2>4. /\ StillStored' /\ UNCHANGED <<predictions, feedback_events>> /\ (Postgres' <=> Postgres)
        /\ ~Postgres' => \A q \in Predictions : FEEDBACK_STORE'[q] # None =>
                           PREDICTION_STORE'[q] # None /\ Closed(PREDICTION_STORE'[q])
        /\ ~Postgres => \A q \in reader.judged : FEEDBACK_STORE[q] # None
    BY <1>0, <2>3, StoredFor
  <2>5. ReaderTypes'
    BY <1>1, <2>1, <2>3 DEF ReaderTypes, Reading, Known
  <2>6. ReadsMemory'
    BY <2>3, <2>4 DEF ReadsMemory, Closed
  <2>7. Postgres /\ feedback # None => feedback_events[p] # None
    BY <1>0, <2>1, PredictionsAssumption DEF ReaderInv, ReadsTables, StoresBehindTables
  <2>8. p \in reader.judged => feedback # None
    BY <2>1, <2>4 DEF ReaderInv, FeedbackCurrent
  <2> HIDE DEF feedback
  <2>9. ReadsTables'
    BY <2>3, <2>4, <2>7 DEF ReadsTables, ReaderInv, SameDecision, Closed
  <2>10. RecordsCurrent'
    BY <2>1, <2>3 DEF RecordsCurrent, ReaderInv, Gathered, Reading, Known, Closed
  <2>11. FeedbackCurrent' /\ RowsCurrent'
    BY <2>1, <2>3, <2>8 DEF FeedbackCurrent, RowsCurrent, ReaderInv, Reading
  <2>12. QED
    BY <2>4, <2>5, <2>6, <2>9, <2>10, <2>11 DEF ReaderInv
<1>9. CASE ReadDisplayFeedback
  <2>1. reader.step = "display" /\ reader' = [reader EXCEPT !.step = "row"]
    BY <1>9 DEF ReadDisplayFeedback
  <2>2. /\ reader' \in ReaderState /\ reader'.step = "row" /\ reader'.records = reader.records
        /\ reader'.todo = reader.todo /\ reader'.current = reader.current
        /\ reader'.feedback = reader.feedback /\ reader'.rows = reader.rows
        /\ reader'.known = reader.known /\ reader'.judged = reader.judged
    BY <1>0, <2>1 DEF ReaderState, ReaderSteps, Reading
  <2>3. /\ StillStored' /\ UNCHANGED <<predictions, feedback_events>> /\ (Postgres' <=> Postgres)
        /\ ~Postgres' => \A q \in Predictions : FEEDBACK_STORE'[q] # None =>
                           PREDICTION_STORE'[q] # None /\ Closed(PREDICTION_STORE'[q])
    BY <1>0, <2>2, StoredFor
  <2>4. ReaderTypes'
    BY <1>1, <2>1, <2>2 DEF ReaderTypes, Reading, Known
  <2>5. ReadsMemory' /\ ReadsTables'
    BY <2>2, <2>3 DEF ReadsMemory, ReadsTables, ReaderInv, SameDecision, Closed
  <2>6. RecordsCurrent'
    BY <2>1, <2>2 DEF RecordsCurrent, ReaderInv, Gathered, Reading, Known, Closed
  <2>7. FeedbackCurrent' /\ RowsCurrent'
    BY <2>1, <2>2 DEF FeedbackCurrent, RowsCurrent, ReaderInv, Reading
  <2>8. QED
    BY <2>3, <2>4, <2>5, <2>6, <2>7 DEF ReaderInv
<1>10. CASE AppendRow
  <2> DEFINE p == reader.current
             record == reader.records[p]
             row == Row(record, reader.feedback)
             rows == [reader.rows EXCEPT ![p] = row]
  <2>1. /\ reader.step = "row" /\ p \in Predictions /\ record \in PredictionRecord
        /\ reader.feedback \in FeedbackRecord \cup {None}
        /\ reader.rows \in [Predictions -> Rows]
    BY <1>0, <1>1, <1>10 DEF AppendRow, ReaderState
  <2>2. /\ row \in Rows /\ row # NoRow
        /\ row.closed = Closed(record)
        /\ reader.feedback # None => row.verdict # None
    BY <2>1, HistoryAssumption DEF Row, Rows, NoRow, Closed, PredictionRecord, FeedbackRecord
  <2>3. p \in reader.judged => row.closed /\ row.verdict # None
    BY <2>1, <2>2 DEF ReaderInv, RecordsCurrent, FeedbackCurrent, Gathered, Reading
  <2>4. reader' = [reader EXCEPT !.step = "feedback", !.current = None, !.feedback = None,
                     !.rows = rows]
    BY <1>10 DEF AppendRow
  <2> HIDE DEF row
  <2>5. /\ rows \in [Predictions -> Rows] /\ rows[p] = row
        /\ \A q \in Predictions : q # p => rows[q] = reader.rows[q]
    BY <2>1, <2>2
  <2> HIDE DEF rows
  <2>6. /\ reader' \in ReaderState /\ reader'.step = "feedback" /\ reader'.records = reader.records
        /\ reader'.todo = reader.todo /\ reader'.current = None /\ reader'.feedback = None
        /\ reader'.rows = rows
        /\ reader'.known = reader.known /\ reader'.judged = reader.judged
    BY <1>0, <2>4, <2>5 DEF ReaderState, ReaderSteps, Reading
  <2>7. /\ StillStored' /\ UNCHANGED <<predictions, feedback_events>> /\ (Postgres' <=> Postgres)
        /\ ~Postgres' => \A q \in Predictions : FEEDBACK_STORE'[q] # None =>
                           PREDICTION_STORE'[q] # None /\ Closed(PREDICTION_STORE'[q])
    BY <1>0, <2>6, StoredFor
  <2>8. ReaderTypes'
    BY <1>1, <2>1, <2>6 DEF ReaderTypes, Reading, Known
  <2>9. ReadsMemory' /\ ReadsTables'
    BY <2>6, <2>7 DEF ReadsMemory, ReadsTables, ReaderInv, SameDecision, Closed
  <2>10. RecordsCurrent'
    BY <2>1, <2>6 DEF RecordsCurrent, ReaderInv, Gathered, Reading, Known, Closed
  <2>11. FeedbackCurrent'
    BY <2>6 DEF FeedbackCurrent
  <2>12. RowsCurrent'
    <3>1. /\ \A q \in reader.known \ (reader.todo \cup {p}) : reader.rows[q] # NoRow
          /\ \A q \in reader.judged \ (reader.todo \cup {p}) :
               reader.rows[q].closed /\ reader.rows[q].verdict # None
      BY <2>1 DEF ReaderInv, RowsCurrent, Reading
    <3>2. /\ \A q \in reader.known \ reader.todo : rows[q] # NoRow
          /\ \A q \in reader.judged \ reader.todo : rows[q].closed /\ rows[q].verdict # None
      <4> HIDE DEF p
      <4>1. QED
        BY <1>1, <2>2, <2>3, <2>5, <3>1
    <3>3. QED
      BY <2>6, <3>2 DEF RowsCurrent
  <2>13. QED
    BY <2>7, <2>8, <2>9, <2>10, <2>11, <2>12 DEF ReaderInv
<1>11. CASE AnswerHistory
  <2>1. /\ NoReader.records \in [Predictions -> PredictionRecord \cup {None}]
        /\ NoReader.holders \in [Predictions -> SUBSET (Threads \cup {"store"})]
        /\ \A p \in Predictions : NoReader.records[p] = None
    BY NoReaderIs DEF ReaderState
  <2>2. /\ reader' \in ReaderState /\ reader'.step = "answered"
        /\ reader'.records = NoReader.records /\ reader'.todo = reader.todo
        /\ reader'.current = reader.current
        /\ reader'.rows = reader.rows
        /\ reader'.known = reader.known /\ reader'.judged = reader.judged
        /\ reader.step = "feedback" /\ reader.todo = {}
    <3>1. reader' = [reader EXCEPT !.step = "answered", !.records = NoReader.records,
                                   !.holders = NoReader.holders]
      BY <1>11 DEF AnswerHistory
    <3> HIDE DEF NoReader
    <3>2. QED
      BY <1>0, <1>11, <2>1, <3>1 DEF AnswerHistory, ReaderState, ReaderSteps
  <2>3. /\ StillStored' /\ UNCHANGED <<predictions, feedback_events>> /\ (Postgres' <=> Postgres)
        /\ ~Postgres' => \A q \in Predictions : FEEDBACK_STORE'[q] # None =>
                           PREDICTION_STORE'[q] # None /\ Closed(PREDICTION_STORE'[q])
    BY <1>0, <2>2, StoredFor
  <2>4. reader'.current = None
    BY <1>1, <2>2
  <2>5. ReaderTypes' /\ ReadsMemory' /\ ReadsTables'
    BY <2>1, <2>2, <2>3, <2>4 DEF ReaderTypes, ReadsMemory, ReadsTables, Reading, Closed
  <2>6. RecordsCurrent' /\ FeedbackCurrent'
    BY <2>2 DEF RecordsCurrent, FeedbackCurrent, Gathered, Reading
  <2>7. RowsCurrent'
    BY <2>2 DEF RowsCurrent, ReaderInv, Reading
  <2>8. QED
    BY <2>3, <2>5, <2>6, <2>7 DEF ReaderInv
<1>12. CASE ReadFails
  BY <1>2, <1>12 DEF ReadFails
<1>13. QED
  BY <1>3, <1>4, <1>5, <1>6, <1>7, <1>8, <1>9, <1>10, <1>11, <1>12 DEF Read

-----------------------------------------------------------------------------
(* The handlers and the reader together *)

HistoryInv == HandlersInv /\ EscapeInv /\ EscapesAreRaised /\ ReaderInv

LEMMA HistoryBegins == HInit => HistoryInv
<1> SUFFICES ASSUME HInit PROVE HistoryInv
  OBVIOUS
<1>0. Init /\ reader = NoReader
  BY DEF HInit
<1>1. TypeInv
  BY <1>0, IdleIsRequest, IdleIsOK DEF Init, TypeInv, TypeOK, LocalsOK
<1>2. FreshIds /\ ClosureAgreement
  BY <1>0 DEF Init, FreshIds, ClosureAgreement, Saving, At, Idle
<1>3. DurableInv
  BY <1>0, <1>1, <1>2
  DEF Init, ClosureInv, DurableInv, StoresBehindTables, AnswersAreDurable, Durable, RequestDurable,
      Idle
<1>4. AnswersInv
  BY <1>0 DEF Init, AnswersInv, MemoryInv, IdsIssued, InsertsAreNew, HandlersShare,
              AnswersAreStored, AfterOK, Inserting, AdmittedSteps, Idle
<1>5. EscapeInv /\ EscapesAreRaised
  BY <1>0 DEF Init, EscapeInv, EscapesAreRaised, JudgesTheRow, AdmittedSteps, Idle
<1>6. ReaderInv
  <2>1. /\ reader \in ReaderState /\ reader.step = "idle" /\ reader.current = None
        /\ reader.known = {} /\ reader.judged = {}
        /\ \A p \in Predictions : reader.records[p] = None /\ FEEDBACK_STORE[p] = None
    BY <1>0, NoReaderIs DEF Init
  <2>2. ReaderTypes /\ ReadsMemory /\ ReadsTables /\ StillStored
    BY <2>1 DEF ReaderTypes, Reading, ReadsMemory, ReadsTables, StillStored
  <2>3. RecordsCurrent /\ FeedbackCurrent /\ RowsCurrent
    BY <2>1 DEF RecordsCurrent, FeedbackCurrent, RowsCurrent, Reading, Gathered
  <2>4. QED
    BY <2>2, <2>3 DEF ReaderInv
<1>7. QED
  BY <1>3, <1>4, <1>5, <1>6 DEF HandlersInv, HistoryInv

(* Every step is one of the handlers or writes no more than a reader may. *)
LEMMA HistorySteps ==
  ASSUME HistoryInv, [HNext]_hvars
  PROVE  HistoryInv' /\ ([Next]_vars \/ ReaderWrites)
<1>0. /\ HandlersInv /\ DurableInv /\ AnswersInv /\ ClosureInv
      /\ EscapeInv /\ EscapesAreRaised /\ ReaderInv
  BY DEF HistoryInv, HandlersInv, DurableInv
<1>1. ASSUME [Next]_vars PROVE HandlersInv' /\ EscapeInv' /\ EscapesAreRaised'
  BY <1>0, <1>1, ClosureInvKept, DurableInvKept, AnswersInvKept, EscapeInvKept DEF HandlersInv
<1>2. CASE HandlerStep
  <2>1. [Next]_vars
    BY <1>2 DEF HandlerStep, Next
  <2>2. QED
    BY <1>0, <1>1, <1>2, <2>1, HandlerKeepsReader DEF HistoryInv
<1>3. CASE ProcessRestart
  <2>1. [Next]_vars
    BY <1>3 DEF ProcessRestart, Next
  <2>2. ReaderInv'
    <3>1. reader' = NoReader /\ \A p \in Predictions : FEEDBACK_STORE'[p] = None
      BY <1>3 DEF ProcessRestart, Restart
    <3>2. QED
      BY <3>1, NoReaderInv
  <2>3. QED
    BY <1>1, <2>1, <2>2 DEF HistoryInv
<1>4. CASE Read
  <2>1. ReaderWrites
    BY <1>0, <1>4, ReadsWrite
  <2>2. QED
    BY <1>0, <1>4, <2>1, ReadsKeepHandlers, ReadsKeepReader DEF HistoryInv
<1>5. CASE UNCHANGED hvars
  <2>1. UNCHANGED vars /\ reader' = reader /\ [Next]_vars
    BY <1>5 DEF hvars
  <2>2. UNCHANGED <<backend, predictions, feedback_events, PREDICTION_STORE, FEEDBACK_STORE>>
    BY <2>1 DEF vars, tables, stores
  <2>3. ReaderTypes' /\ ReadsMemory' /\ ReadsTables' /\ StillStored'
    BY <1>0, <2>1, <2>2
    DEF ReaderInv, ReaderTypes, ReadsMemory, ReadsTables, StillStored, SameDecision, Postgres, Closed
  <2>4. RecordsCurrent' /\ FeedbackCurrent' /\ RowsCurrent'
    BY <1>0, <2>1, <2>2
    DEF ReaderInv, RecordsCurrent, FeedbackCurrent, RowsCurrent, Gathered, Postgres, Closed
  <2>5. QED
    BY <1>1, <2>1, <2>3, <2>4 DEF HistoryInv, ReaderInv
<1>6. QED
  BY <1>2, <1>3, <1>4, <1>5 DEF HNext

THEOREM HistoryInvariant == HSpec => []HistoryInv
<1>1. HistoryInv /\ [HNext]_hvars => HistoryInv'
  BY HistorySteps
<1>2. QED
  BY <1>1, HistoryBegins, PTL DEF HSpec

(* An answer of GET /predictions is not older than its request, for any      *)
(* threads and faults: what _prediction_rows listed or found stays, and what *)
(* was closed when the request came is shown closed and judged.              *)
THEOREM HistoryStaysCurrent == HSpec => []HistoryIsCurrent
<1>1. HistoryInv => HistoryIsCurrent
  <2> SUFFICES ASSUME HistoryInv, reader.step = "answered"
      PROVE  /\ reader.known \subseteq Listed(reader.rows)
             /\ \A p \in reader.judged : reader.rows[p].closed /\ reader.rows[p].verdict # None
    BY DEF HistoryIsCurrent, ReaderAt
  <2>1. /\ ReaderTypes /\ RowsCurrent /\ reader.current = None /\ reader.todo = {}
        /\ reader.known \subseteq Predictions /\ reader.judged \subseteq Predictions
    BY DEF HistoryInv, ReaderInv, ReaderTypes, ReaderState, RowsCurrent
  <2>2. QED
    BY <2>1, PredictionsAssumption DEF RowsCurrent, Listed
<1>2. QED
  BY <1>1, HistoryInvariant, PTL

(* A reader writes to the dictionaries the handlers use and breaks none of   *)
(* their promises: what _prediction_rows puts there is behind the tables.    *)
THEOREM ReadersBreakNothing ==
  HSpec => [](/\ TypeOK /\ ClosureAgreement /\ StoresBehindTables /\ AnswersAreDurable
              /\ LateFeedbackRejected /\ EarlierHumanIsLogged /\ EscapesAreRaised)
<1>1. HistoryInv => /\ TypeOK /\ ClosureAgreement /\ StoresBehindTables /\ AnswersAreDurable
                    /\ LateFeedbackRejected /\ EarlierHumanIsLogged /\ EscapesAreRaised
  BY DEF HistoryInv, HandlersInv, DurableInv, ClosureInv, TypeInv, AnswersInv, AfterOK,
         LateFeedbackRejected, EarlierHumanIsLogged
<1>2. QED
  BY <1>1, HistoryInvariant, PTL

(* Nor does it reopen a prediction or change what it is about. *)
THEOREM ReadersReopenNothing == HSpec => RowsOnlyClose
<1>1. HistoryInv /\ [HNext]_hvars =>
        \A p \in Predictions : predictions[p] # None => RowKept(p)
  <2> SUFFICES ASSUME HistoryInv, [HNext]_hvars, NEW p \in Predictions, predictions[p] # None
      PROVE  RowKept(p)
    OBVIOUS
  <2>1. CASE [Next]_vars
    BY <2>1, RowsKept DEF HistoryInv, HandlersInv, DurableInv
  <2>2. CASE ReaderWrites
    BY <2>2 DEF ReaderWrites, tables, RowKept, Closed
  <2>3. QED
    BY <2>1, <2>2, HistorySteps
<1>2. QED
  BY <1>1, HistoryInvariant, PTL DEF HSpec, RowsOnlyClose, RowKept

-----------------------------------------------------------------------------
(* One handler at a time beside the reader *)

LEMMA SerialHistory ==
  ASSUME OneThread, HistoryInv, SerialInv, [HNext]_hvars
  PROVE  SerialInv'
<1>0. /\ HistoryInv' /\ ([Next]_vars \/ ReaderWrites)
      /\ DurableInv /\ AnswersInv /\ AnswersInv' /\ TypeInv
  BY HistorySteps DEF HistoryInv, HandlersInv, DurableInv, ClosureInv
<1>1. CASE [Next]_vars
  BY <1>0, <1>1, SerialInvKept
<1>2. CASE ReaderWrites
  <2>1. /\ UNCHANGED <<backend, predictions, feedback_events, display_feedback_events, closings>>
        /\ (Postgres' <=> Postgres)
    BY <1>2 DEF ReaderWrites, tables, history, Postgres
  <2>2. CASE Postgres
    <3>1. ASSUME NEW t \in Threads PROVE LooksAtTheRow(req[t])'
      <4>1. /\ req'[t].step = req[t].step /\ req'[t].prediction_id = req[t].prediction_id
            /\ req'[t].prediction = req[t].prediction /\ req'[t].display = req[t].display
        BY <1>0, <1>2, ReadersUnshare DEF Onward
      <4>2. LooksAtTheRow(req[t])
        BY <2>2 DEF SerialInv
      <4>3. QED
        BY <2>1, <4>1, <4>2 DEF LooksAtTheRow, Closed
    <3>2. CountsTheRow'
      BY <2>1, <2>2 DEF SerialInv, CountsTheRow
    <3>3. QED
      BY <2>1, <2>2, <3>1, <3>2 DEF SerialInv
  <2>3. CASE ~Postgres
    <3>1. UNCHANGED vars
      BY <1>2, <2>3 DEF ReaderWrites
    <3>2. QED
      BY <2>1, <2>3, <3>1
      DEF vars, tables, stores, history, SerialInv, CountsTheObject, Inserting, Closed
  <2>4. QED
    BY <2>2, <2>3
<1>3. QED
  BY <1>0, <1>1, <1>2

THEOREM SerialHistoryInvariant == ASSUME OneThread PROVE HSpec => []SerialInv
<1>1. HInit => SerialInv
  BY DEF HInit, Init, SerialInv, CountsTheRow, CountsTheObject, LooksAtTheRow, AdmittedSteps,
         Inserting, Idle
<1>2. HistoryInv /\ SerialInv /\ [HNext]_hvars => SerialInv'
  BY SerialHistory
<1>3. QED
  BY <1>1, <1>2, HistoryInvariant, PTL DEF HSpec

(* docs/feedback_rules.md: a prediction is closed at most once by oracle     *)
(* feedback, also while the history is read.                                 *)
THEOREM SerialHistoryClosesOnce == ASSUME OneThread PROVE HSpec => []ClosedOnlyOnce
<1>1. SerialInv => ClosedOnlyOnce
  BY DEF SerialInv, CountsTheRow, CountsTheObject, ClosedOnlyOnce
<1>2. QED
  BY <1>1, SerialHistoryInvariant, PTL

(* The tables implement the ledger with a reader beside the handler: the     *)
(* handlers' transactions are its steps, and a reader takes none.            *)
THEOREM SerialHistoryRefinesLedger == ASSUME OneThread PROVE HSpec => RefinesLedger
<1>1. HInit => Ledger!Init
  BY DEF HInit, Init, Ledger!Init, OpenedOf, JudgementOf
<1>2. HistoryInv /\ SerialInv /\ [HNext]_hvars => [Ledger!Next]_(Ledger!vars)
  <2> SUFFICES ASSUME HistoryInv, SerialInv, [HNext]_hvars PROVE [Ledger!Next]_(Ledger!vars)
    OBVIOUS
  <2>1. CASE [Next]_vars
    BY <2>1, LedgerSteps DEF HistoryInv, HandlersInv
  <2>2. CASE ReaderWrites
    BY <2>2 DEF ReaderWrites, tables, Ledger!vars
  <2>3. QED
    BY <2>1, <2>2, HistorySteps
<1>3. QED
  BY <1>1, <1>2, HistoryInvariant, SerialHistoryInvariant, PTL
  DEF HSpec, RefinesLedger, Ledger!Spec
=============================================================================

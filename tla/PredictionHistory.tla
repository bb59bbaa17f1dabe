-------------------------- MODULE PredictionHistory --------------------------
(***************************************************************************)
(* The readers of the IQA API (iqa/api/main.py) beside the handlers of     *)
(* Feedback: GET /predictions, GET /lots/summary and the filtered lines of *)
(* GET /metrics all start with _prediction_rows, which lists the table,    *)
(* puts what it read in PREDICTION_STORE, adds what only that dictionary   *)
(* has, and then reads the feedbacks of each prediction, every read in a   *)
(* transaction of its own.  The handlers go on in between, and a reader    *)
(* writes the dictionaries they use.                                       *)
(*                                                                         *)
(* One reader runs at a time.  A record it lists or finds in the           *)
(* dictionary is an object that others may hold and close: holders names   *)
(* them, "store" for PREDICTION_STORE.                                     *)
(***************************************************************************)
EXTENDS Feedback

ASSUME HistoryAssumption == None \notin Decisions \cup {"conforme", "defective"}

VARIABLE reader  \* the request of the reader

hvars == <<vars, reader>>

NoRow == [decision |-> None, closed |-> FALSE, verdict |-> None]

NoReader ==
  [step |-> "idle", records |-> [p \in Predictions |-> None],
   holders |-> [p \in Predictions |-> {}], todo |-> {}, keys |-> {},
   current |-> None, feedback |-> None, rows |-> [p \in Predictions |-> NoRow],
   known |-> {}, judged |-> {}]

ReaderAt(step) == reader.step = step

Known(record) == {p \in Predictions : record[p] # None}

HInit == Init /\ reader = NoReader

-----------------------------------------------------------------------------
(* _prediction_rows. *)

(* known and judged: what is stored when the request arrives, and is closed by then. *)
AskHistory ==
  /\ reader.step \in {"idle", "answered"}
  /\ reader' = [NoReader EXCEPT
       !.step = "list",
       !.known = Known(IF Postgres THEN predictions ELSE PREDICTION_STORE),
       !.judged = Known(IF Postgres THEN feedback_events ELSE FEEDBACK_STORE)]
  /\ UNCHANGED vars

(* Bug: the table is read only while the dictionary is empty. *)
BugListedRecords ==
  IF Postgres /\ Known(PREDICTION_STORE) = {} THEN predictions ELSE NoReader.records

(* Without a repository the default, no record. *)
ListedRecords == IF Postgres THEN predictions ELSE NoReader.records

(* repository.list_predictions *)
ListPredictions ==
  /\ ReaderAt("list")
  /\ reader' = [reader EXCEPT !.step = "store", !.records = ListedRecords,
                              !.todo = Known(ListedRecords)]
  /\ UNCHANGED vars

(* The loop over the records that were listed: each becomes the object of PREDICTION_STORE. *)
StoreListed ==
  /\ ReaderAt("store")
  /\ IF reader.todo = {}
     THEN /\ reader' = [reader EXCEPT !.step = "merge", !.keys = Known(PREDICTION_STORE)]
          /\ UNCHANGED <<PREDICTION_STORE, req>>
     ELSE \E p \in reader.todo :
            /\ PREDICTION_STORE' = [PREDICTION_STORE EXCEPT ![p] = reader.records[p]]
            /\ req' = Unshared(None, p)
            /\ reader' = [reader EXCEPT !.todo = @ \ {p}, !.holders[p] = {"store"}]
  /\ UNCHANGED <<backend, tables, FEEDBACK_STORE, DISPLAY_FEEDBACK_STORE, INCIDENT_STORE,
                 history>>

(* records.setdefault *)
Merged(p) == IF reader.records[p] # None THEN reader.records[p] ELSE PREDICTION_STORE[p]

(* The loop over PREDICTION_STORE raises when a handler inserted a key meanwhile. *)
MergeStore ==
  /\ ReaderAt("merge")
  /\ LET records == [p \in Predictions |-> Merged(p)]
     IN reader' =
          IF Known(PREDICTION_STORE) # reader.keys THEN NoReader
          ELSE [reader EXCEPT !.step = "feedback", !.records = records, !.todo = Known(records), !.keys = {},
                  !.holders = [p \in Predictions |->
                                 IF reader.records[p] = None /\ records[p] # None THEN {"store"}
                                 ELSE @[p]]]
  /\ UNCHANGED vars

(* repository.get_feedback of one prediction. *)
ReadFeedback ==
  /\ ReaderAt("feedback") /\ reader.todo # {}
  /\ \E p \in reader.todo :
       reader' = [reader EXCEPT !.step = "refresh", !.todo = @ \ {p}, !.current = p,
                    !.feedback = IF Postgres THEN feedback_events[p] ELSE None]
  /\ UNCHANGED vars

(* What was read goes to FEEDBACK_STORE; nothing read is looked for there. *)
RefreshFeedback ==
  LET p == reader.current IN
  /\ ReaderAt("refresh")
  /\ IF reader.feedback # None
     THEN /\ FEEDBACK_STORE' = [FEEDBACK_STORE EXCEPT ![p] = reader.feedback]
          /\ reader' = [reader EXCEPT !.step = "display"]
     ELSE /\ reader' = [reader EXCEPT !.step = "display", !.feedback = FEEDBACK_STORE[p]]
          /\ UNCHANGED FEEDBACK_STORE
  /\ UNCHANGED <<backend, tables, PREDICTION_STORE, DISPLAY_FEEDBACK_STORE, INCIDENT_STORE,
                 req, history>>

(* repository.get_display_feedback, and the dictionary it refreshes. *)
ReadDisplayFeedback ==
  LET p == reader.current IN
  /\ ReaderAt("display")
  /\ DISPLAY_FEEDBACK_STORE' = IF ReadDisplayRow(p) THEN DISPLAY_FEEDBACK_STORE \cup {p}
                               ELSE DISPLAY_FEEDBACK_STORE
  /\ reader' = [reader EXCEPT !.step = "row"]
  /\ UNCHANGED <<backend, tables, PREDICTION_STORE, FEEDBACK_STORE, INCIDENT_STORE, req, history>>

(* A row says closed by the record and judged by the feedback. *)
Row(record, feedback) ==
  [decision |-> record.decision, closed |-> Closed(record),
   verdict |-> IF feedback = None THEN None ELSE feedback.verdict]

AppendRow ==
  /\ ReaderAt("row")
  /\ reader' = [reader EXCEPT !.step = "feedback", !.current = None, !.feedback = None,
                  !.rows[reader.current] = Row(reader.records[reader.current], reader.feedback)]
  /\ UNCHANGED vars

Listed(rows) == {p \in Predictions : rows[p] # NoRow}

AnswerHistory ==
  /\ ReaderAt("feedback") /\ reader.todo = {}
  /\ reader' = [reader EXCEPT !.step = "answered", !.records = NoReader.records,
                              !.holders = NoReader.holders]
  /\ UNCHANGED vars

(* _read_metadata: HTTPException(503) when a call fails. *)
ReadFails ==
  /\ Postgres /\ "unreachable" \in Faults
  /\ reader.step \in {"list", "feedback", "display"}
  /\ reader' = NoReader
  /\ UNCHANGED vars

-----------------------------------------------------------------------------
(* What the objects the reader holds see of a step of the handlers. *)

Moves(t) == req'[t] # req[t]

Holds(t, p) ==
  /\ req[t].prediction_id = p
  /\ t \in reader.holders[p] \/ ("store" \in reader.holders[p] /\ req[t].shared)

(* The step puts another object in PREDICTION_STORE. *)
Replaces(t, p) ==
  /\ Moves(t) /\ req[t].prediction_id = p
  /\ At(t, "store_prediction") \/ (At(t, "check_open") /\ req[t].prediction # None)

(* prediction.update(...) of a handler that holds the object. *)
RecordAfter(p) ==
  IF reader.records[p] # None /\ \E t \in Threads : Moves(t) /\ At(t, "store_feedback") /\ Holds(t, p)
  THEN [reader.records[p] EXCEPT
          !.feedback_closed_at = CHOOSE t \in Threads : Moves(t) /\ At(t, "store_feedback") /\ Holds(t, p)]
  ELSE reader.records[p]

HoldersAfter(p) ==
  LET replaced == \E t \in Threads : Replaces(t, p)
      held == {t \in Threads : Holds(t, p)}
  IN {h \in IF replaced THEN (reader.holders[p] \cup held) \ {"store"} ELSE reader.holders[p] :
        h = "store" \/ req'[h].step # "idle"}

HandlerStep ==
  /\ \E t \in Threads : Handle(t)
  /\ reader' = [reader EXCEPT !.records = [p \in Predictions |-> RecordAfter(p)],
                              !.holders = [p \in Predictions |-> HoldersAfter(p)]]

ProcessRestart == Restart /\ reader' = NoReader

Read ==
  \/ AskHistory \/ ListPredictions \/ StoreListed \/ MergeStore \/ ReadFeedback
  \/ RefreshFeedback \/ ReadDisplayFeedback \/ AppendRow \/ AnswerHistory \/ ReadFails

HNext == HandlerStep \/ ProcessRestart \/ Read

HSpec == HInit /\ [][HNext]_hvars

-----------------------------------------------------------------------------
(* Properties. *)

(* An answer is not older than its request: every prediction that was stored when it was  *)
(* asked for has a row, and every one that was closed by then is shown closed and judged, *)
(* whatever the dictionaries hold after overlapping writes, restarts and other readers.   *)
HistoryIsCurrent ==
  ReaderAt("answered") =>
    /\ reader.known \subseteq Listed(reader.rows)
    /\ \A p \in reader.judged : reader.rows[p].closed /\ reader.rows[p].verdict # None
=============================================================================

----------------------- MODULE LifecycleSignalProofs -----------------------
(***************************************************************************)
(* Theorems about LifecycleSignal, for any number of predictions, drift    *)
(* observations and failed polls, any threshold and any window.            *)
(***************************************************************************)
EXTENDS LifecycleSignal, FiniteSetTheorems, SequenceTheorems, TLAPS

USE DEF At

-----------------------------------------------------------------------------
(* Types. *)

LEMMA IdleIsPoll == Idle \in Poll
BY BoundsAssumption DEF Idle, Poll, Steps

LEMMA CandidatesAreCounted ==
  ASSUME poll \in Poll
  PROVE  Cardinality(poll.candidates) \in Nat
<1>1. poll.candidates \in SUBSET (1 .. MaxPredictions)
  BY DEF Poll, Predictions
<1>2. IsFiniteSet(1 .. MaxPredictions)
  BY BoundsAssumption, FS_Interval
<1>3. IsFiniteSet(poll.candidates)
  BY <1>1, <1>2, FS_Subset
<1> QED
  BY <1>3, FS_CardinalityType

(* The rule answers yes or no. *)
LEMMA TheRuleDecides ==
  ASSUME poll \in Poll
  PROVE  TriggerLifecycle \in BOOLEAN
<1>1. EnoughNatural(Cardinality(poll.candidates)) \in BOOLEAN
  BY CandidatesAreCounted, MinNaturalAssumption DEF EnoughNatural
<1>2. DriftConfirmed \in BOOLEAN
  BY DEF DriftConfirmed, DriftWasConsumed
<1> QED
  BY <1>1, <1>2 DEF TriggerLifecycle

LEMMA EventIdIsTyped ==
  ASSUME poll \in Poll
  PROVE  EventId \in Fingerprint
<1>1. Window \in SUBSET Predictions
  <2>1. poll.predictions \in 0 .. MaxPredictions
    BY DEF Poll
  <2> QED
    BY <2>1, BoundsAssumption DEF Window, Predictions
<1>2. TriggerLifecycle \in BOOLEAN /\ DriftWasConsumed \in BOOLEAN
  BY TheRuleDecides DEF DriftWasConsumed
<1>3. poll.candidates \in SUBSET Predictions /\ poll.drift \in Drifts \cup {None}
  BY DEF Poll
<1> HIDE DEF Window, TriggerLifecycle, DriftWasConsumed, Predictions, Drifts
<1> QED
  BY <1>1, <1>2, <1>3 DEF EventId, Fingerprint

LEMMA DecisionIsTyped ==
  ASSUME poll \in Poll
  PROVE  Decision \in TriggerEvent
<1>1. EventId \in Fingerprint /\ TriggerLifecycle \in BOOLEAN
  BY EventIdIsTyped, TheRuleDecides
<1>2. poll.candidates \in SUBSET Predictions /\ poll.drift \in Drifts \cup {None}
  BY DEF Poll
<1>3. ConsumedDrifts \in SUBSET Drifts
  BY <1>2, Zenon DEF ConsumedDrifts
<1>4. (IF TriggerLifecycle THEN poll.candidates ELSE {}) \in SUBSET Predictions
  BY <1>2
<1> HIDE DEF EventId, Fingerprint, TriggerLifecycle, ConsumedDrifts, Predictions, Drifts
<1> QED
  BY <1>1, <1>3, <1>4 DEF Decision, TriggerEvent

(* A decision at the gate is a decision. *)
TypeInv ==
  /\ TypeOK
  /\ poll.step = "gate" => poll.decision \in TriggerEvent

LEMMA InitTyped == Init => TypeInv
<1> SUFFICES ASSUME Init PROVE TypeInv
  OBVIOUS
<1>1. poll \in Poll /\ poll.step = "idle"
  BY IdleIsPoll DEF Init, Idle
<1>2. /\ kind \in Kinds /\ predictions \in 0 .. MaxPredictions
      /\ feedback_events \in [Predictions -> Verdicts]
      /\ journal \subseteq TriggerEvent
      /\ launches \in [Predictions -> Nat] /\ drift_launches \in [Drifts -> Nat]
      /\ was_eligible \subseteq Predictions
      /\ failures \in 0 .. MaxFailures /\ overwrites \in 0 .. MaxOverwrites
  BY BoundsAssumption DEF Init, Verdicts
<1>3. drift_events \in Seq(Observations) /\ Len(drift_events) <= MaxDrifts
  BY BoundsAssumption DEF Init
<1> QED
  BY <1>1, <1>2, <1>3 DEF TypeInv, TypeOK

LEMMA WritesKeepTypes == TypeInv /\ Write => TypeInv'
<1> SUFFICES ASSUME TypeInv, Write PROVE TypeInv'
  OBVIOUS
<1> USE DEF TypeInv
<1>1. CASE SavePrediction
  BY <1>1, BoundsAssumption DEF SavePrediction, TypeOK, history, bounds
<1>2. CASE SaveFeedback
  <2>1. PICK p \in 1 .. predictions, v \in Verdicts \ {"none"} :
          /\ overwrites + Rewrites(p) <= MaxOverwrites
          /\ overwrites' = overwrites + Rewrites(p)
          /\ feedback_events' = [feedback_events EXCEPT ![p] = v]
          /\ was_eligible' = IF v = "eligible" THEN was_eligible \cup {p} ELSE was_eligible
          /\ UNCHANGED <<kind, predictions, drift_events, journal, poll, history, failures>>
    BY <1>2 DEF SaveFeedback
  <2>2. overwrites' \in 0 .. MaxOverwrites
    BY <2>1, BoundsAssumption DEF TypeOK, Rewrites
  <2>3. p \in Predictions
    BY BoundsAssumption DEF TypeOK, Predictions
  <2>4. was_eligible' \subseteq Predictions
    BY <2>1, <2>3 DEF TypeOK
  <2> QED
    BY <2>1, <2>2, <2>4 DEF TypeOK, history
<1>3. CASE SaveDrift
  <2>1. PICK o \in Observations :
          /\ \/ /\ Len(drift_events) < MaxDrifts
                /\ drift_events' = Append(drift_events, o)
             \/ \E d \in DOMAIN drift_events : drift_events' = [drift_events EXCEPT ![d] = o]
          /\ UNCHANGED <<kind, predictions, feedback_events, journal, poll, history,
                        was_eligible, bounds>>
    BY <1>3 DEF SaveDrift
  <2>2. drift_events' \in Seq(Observations) /\ Len(drift_events') <= MaxDrifts
    <3>1. drift_events \in Seq(Observations) /\ Len(drift_events) <= MaxDrifts
      BY DEF TypeOK
    <3>2. CASE Len(drift_events) < MaxDrifts /\ drift_events' = Append(drift_events, o)
      BY <3>1, <3>2, BoundsAssumption, AppendProperties
    <3>3. CASE \E d \in DOMAIN drift_events : drift_events' = [drift_events EXCEPT ![d] = o]
      BY <3>1, <3>3, ExceptSeq
    <3> QED
      BY <2>1, <3>2, <3>3
  <2> QED
    BY <2>1, <2>2 DEF TypeOK, history, bounds
<1> QED
  BY <1>1, <1>2, <1>3 DEF Write

LEMMA PollsKeepTypes == TypeInv /\ Collect => TypeInv'
<1> SUFFICES ASSUME TypeInv, Collect PROVE TypeInv'
  OBVIOUS
<1>0. poll \in Poll /\ poll.step \in Steps
  BY DEF TypeInv, TypeOK, Poll
(* Only the poll changes: it is enough that it stays a poll, and has not reached the gate. *)
<1>a. ASSUME poll' \in Poll, poll'.step # "gate", was_eligible' \subseteq Predictions,
             UNCHANGED <<kind, tables, journal, history, bounds>>
      PROVE  TypeInv'
  BY <1>a DEF TypeInv, TypeOK, tables, history, bounds
<1>b. was_eligible \subseteq Predictions
  BY DEF TypeInv, TypeOK
<1>1. CASE ListPredictions
  <2>1. poll' \in Poll
    BY <1>1, IdleIsPoll DEF ListPredictions, TypeInv, TypeOK, Poll, Steps
  <2>2. poll'.step # "gate"
    BY <1>1 DEF ListPredictions, Idle
  <2>3. was_eligible' \subseteq Predictions
    BY <1>1 DEF ListPredictions
  <2> QED
    BY <1>1, <2>1, <2>2, <2>3, <1>a DEF ListPredictions
<1>2. CASE ReadJournal
  <2> DEFINE T == {p \in 1 .. poll.predictions :
                     IsNew(p, UNION {e.consumed_predictions : e \in Triggered})}
             C == UNION {e.consumed_drifts : e \in Triggered}
  <2>1. T \in SUBSET Predictions
    BY <1>0, BoundsAssumption DEF Poll, Predictions
  <2>2. C \in SUBSET Drifts
    <3>1. \A e \in journal : e.consumed_drifts \in SUBSET Drifts
      BY DEF TypeInv, TypeOK, TriggerEvent
    <3> QED
      BY <3>1, Zenon DEF Triggered
  <2>3. poll' = [poll EXCEPT !.step = "read_feedback", !.todo = T, !.consumed_drifts = C]
    BY <1>2, Zenon DEF ReadJournal
  <2>4. UNCHANGED <<kind, tables, journal, history, was_eligible, bounds>>
    BY <1>2 DEF ReadJournal
  <2> HIDE DEF T, C
  <2>5. poll' \in Poll /\ poll'.step # "gate"
    BY <1>0, <2>1, <2>2, <2>3 DEF Poll, Steps
  <2> QED
    BY <2>4, <2>5, <1>a, <1>b
<1>3. CASE ReadFeedback
  <2>1. PICK p \in poll.todo :
          poll' = [poll EXCEPT !.todo = @ \ {p},
                     !.candidates = IF IsConforming(p) THEN @ \cup {p} ELSE @]
    BY <1>3 DEF ReadFeedback
  <2> DEFINE T == poll.todo \ {p}
             C == IF IsConforming(p) THEN poll.candidates \cup {p} ELSE poll.candidates
  <2>2. T \in SUBSET Predictions /\ C \in SUBSET Predictions
    BY <1>0 DEF Poll
  <2>3. poll' = [poll EXCEPT !.todo = T, !.candidates = C]
    BY <2>1
  <2>4. UNCHANGED <<kind, tables, journal, history, was_eligible, bounds>> /\ poll.step = "read_feedback"
    BY <1>3 DEF ReadFeedback
  <2> HIDE DEF T, C
  <2>5. poll' \in Poll /\ poll'.step # "gate"
    BY <1>0, <2>2, <2>3, <2>4 DEF Poll
  <2> QED
    BY <2>4, <2>5, <1>a, <1>b
<1>4. CASE ReadDrift
  <2>1. drift_events \in Seq(Observations) /\ Len(drift_events) \in 0 .. MaxDrifts
    BY BoundsAssumption DEF TypeInv, TypeOK
  <2>2. LatestDrift \in Drifts \cup {None}
    BY <2>1 DEF LatestDrift, Drifts
  <2>3. (IF LatestDrift = None THEN None ELSE drift_events[LatestDrift])
           \in Observations \cup {None}
    BY <2>1, NoneAssumption DEF LatestDrift
  <2> HIDE DEF LatestDrift
  <2>4. poll' \in Poll /\ poll'.step # "gate"
    BY <1>0, <1>4, <2>2, <2>3 DEF ReadDrift, Poll, Steps
  <2> QED
    BY <1>4, <2>4, <1>a, <1>b DEF ReadDrift
<1>5. CASE RecordDecision
  <2>1. Decision \in TriggerEvent
    BY <1>0, DecisionIsTyped
  <2> HIDE DEF Decision, TriggerEvent
  <2>2. journal' \subseteq TriggerEvent
    BY <1>5, <2>1 DEF RecordDecision, TypeInv, TypeOK
  <2>3. poll' \in Poll /\ poll'.decision \in TriggerEvent
    BY <1>5, <2>1, IdleIsPoll DEF RecordDecision, Poll, Steps
  <2> QED
    BY <1>5, <2>2, <2>3 DEF RecordDecision, TypeInv, TypeOK, tables, history, bounds
<1>6. CASE Skip
  <2>1. poll' \in Poll /\ poll'.step # "gate"
    BY <1>6, IdleIsPoll DEF Skip, Idle
  <2> QED
    BY <1>6, <2>1, <1>a, <1>b DEF Skip
<1>7. CASE Launch
  <2>1. poll' \in Poll /\ poll'.step # "gate"
    BY <1>7, IdleIsPoll DEF Launch, Idle
  <2>2. launches' \in [Predictions -> Nat] /\ drift_launches' \in [Drifts -> Nat]
    BY <1>7 DEF Launch, TypeInv, TypeOK
  <2> QED
    BY <1>7, <2>1, <2>2 DEF Launch, TypeInv, TypeOK, tables, bounds
<1> QED
  BY <1>1, <1>2, <1>3, <1>4, <1>5, <1>6, <1>7 DEF Collect

LEMMA FailuresKeepTypes == TypeInv /\ Fail => TypeInv'
BY IdleIsPoll, BoundsAssumption DEF TypeInv, TypeOK, Fail, Idle, tables, history, bounds

(* The types of the tables, the journal and the poll are inductive. *)
THEOREM SignalTypeInvariant == Spec => []TypeInv
<1>1. TypeInv /\ [Next]_vars => TypeInv'
  <2>1. TypeInv /\ UNCHANGED vars => TypeInv'
    BY DEF TypeInv, TypeOK, vars, tables, history, bounds
  <2> QED
    BY <2>1, WritesKeepTypes, PollsKeepTypes, FailuresKeepTypes DEF Next
<1> QED
  BY <1>1, InitTyped, PTL DEF Spec

(* Every variable has the shape the code gives it. *)
THEOREM SignalTypeCorrect == Spec => []TypeOK
<1>1. TypeInv => TypeOK
  BY DEF TypeInv
<1> QED
  BY <1>1, SignalTypeInvariant, PTL

-----------------------------------------------------------------------------
(* The journal. *)

(* What an event says follows from its id. *)
Determined ==
  \A e \in journal :
    /\ e.trigger_lifecycle = e.id.trigger_lifecycle
    /\ e.consumed_predictions = IF e.trigger_lifecycle THEN e.id.candidates ELSE {}
    /\ e.consumed_drifts = IF e.trigger_lifecycle THEN {e.id.drift} \ {None} ELSE {}

LEMMA DecisionIsDetermined ==
  /\ Decision.id = EventId
  /\ Decision.trigger_lifecycle = TriggerLifecycle
  /\ EventId.trigger_lifecycle = TriggerLifecycle
  /\ EventId.candidates = poll.candidates
  /\ EventId.drift = poll.drift
  /\ Decision.consumed_predictions = IF TriggerLifecycle THEN poll.candidates ELSE {}
  /\ Decision.consumed_drifts = IF TriggerLifecycle THEN {poll.drift} \ {None} ELSE {}
BY Zenon DEF Decision, EventId, ConsumedDrifts

(* One id, one decision. *)
LEMMA SameIdSameDecision ==
  ASSUME TypeInv, Determined, NEW e \in journal, e.id = EventId
  PROVE  e = Decision
<1>1. e \in TriggerEvent /\ poll \in Poll
  BY DEF TypeInv, TypeOK
<1>2. Decision \in TriggerEvent
  BY <1>1, DecisionIsTyped
<1>3. /\ Decision.id = EventId
      /\ Decision.trigger_lifecycle = EventId.trigger_lifecycle
      /\ Decision.consumed_predictions =
           IF Decision.trigger_lifecycle THEN EventId.candidates ELSE {}
      /\ Decision.consumed_drifts =
           IF Decision.trigger_lifecycle THEN {EventId.drift} \ {None} ELSE {}
  BY DecisionIsDetermined
<1>4. /\ e.trigger_lifecycle = e.id.trigger_lifecycle
      /\ e.consumed_predictions = IF e.trigger_lifecycle THEN e.id.candidates ELSE {}
      /\ e.consumed_drifts = IF e.trigger_lifecycle THEN {e.id.drift} \ {None} ELSE {}
  BY DEF Determined
<1> HIDE DEF Decision, EventId
<1>5. /\ e.id = Decision.id
      /\ e.trigger_lifecycle = Decision.trigger_lifecycle
  BY <1>3, <1>4
<1>6. /\ e.consumed_predictions = Decision.consumed_predictions
      /\ e.consumed_drifts = Decision.consumed_drifts
  BY <1>3, <1>4, <1>5
<1> QED
  BY <1>1, <1>2, <1>5, <1>6 DEF TriggerEvent

LEMMA JournalGrows ==
  ASSUME TypeInv, Determined, RecordDecision
  PROVE  journal' = journal \cup {Decision}
<1>1. journal' = {e \in journal : e.id # EventId} \cup {Decision}
  BY DEF RecordDecision
<1>2. \A e \in journal : e.id = EventId => e = Decision
  BY SameIdSameDecision
<1> HIDE DEF Decision, EventId
<1> QED
  BY <1>1, <1>2

LEMMA OnlyRecordWrites ==
  ASSUME [Next]_vars
  PROVE  RecordDecision \/ journal' = journal
BY DEF Next, Write, SavePrediction, SaveFeedback, SaveDrift, Collect, ListPredictions,
       ReadJournal, ReadFeedback, ReadDrift, Skip, Launch, Fail, vars

(* Every journaled event says what its id, the hash of what was seen, implies. *)
THEOREM JournalIsDetermined == Spec => []Determined
<1>1. Init => Determined
  BY DEF Init, Determined
<1>2. TypeInv /\ Determined /\ [Next]_vars => Determined'
  <2> SUFFICES ASSUME TypeInv, Determined, [Next]_vars PROVE Determined'
    OBVIOUS
  <2>1. CASE RecordDecision
    <3>1. journal' = journal \cup {Decision}
      BY <2>1, JournalGrows
    <3> HIDE DEF Decision
    <3> QED
      BY <3>1, DecisionIsDetermined DEF Determined
  <2>2. CASE journal' = journal
    BY <2>2 DEF Determined
  <2> QED
    BY <2>1, <2>2, OnlyRecordWrites
<1> QED
  BY <1>1, <1>2, SignalTypeInvariant, PTL DEF Spec

(* The upsert of save_lifecycle_trigger_event never rewrites a decision. *)
THEOREM DecisionsStay == Spec => DecisionsAreFinal
<1>1. TypeInv /\ Determined /\ [Next]_vars => [journal \subseteq journal']_vars
  BY JournalGrows, OnlyRecordWrites
<1> QED
  BY <1>1, SignalTypeInvariant, JournalIsDetermined, PTL DEF Spec, DecisionsAreFinal

-----------------------------------------------------------------------------
(* What a poll knows of the journal stays true until it decides. *)

PieceConsumed(p) == \E e \in Triggered : p \in e.consumed_predictions
DriftConsumed(d) == \E e \in Triggered : d \in e.consumed_drifts

PollInv ==
  /\ poll.step = "read_journal" => poll.candidates = {}
  /\ poll.step \in {"read_feedback", "record"} =>
       /\ \A p \in poll.todo \cup poll.candidates : ~PieceConsumed(p)
       /\ \A d \in Drifts : DriftConsumed(d) => d \in poll.consumed_drifts
  /\ poll.step = "gate" => poll.decision \in journal
  /\ poll.candidates \subseteq was_eligible
  /\ \A p \in Predictions : feedback_events[p] = "eligible" /\ poll.step # "idle"
       => p \in was_eligible
  /\ ConsumedWereEligible

LEMMA InitPoll == Init => PollInv
BY DEF Init, PollInv, Idle, ConsumedWereEligible

LEMMA WritesKeepPoll ==
  ASSUME TypeInv, PollInv, Write
  PROVE  PollInv'
<1>1. UNCHANGED <<journal, poll>> /\ was_eligible \subseteq was_eligible'
  BY DEF Write, SavePrediction, SaveFeedback, SaveDrift
<1>2. \A p \in Predictions :
        feedback_events'[p] = "eligible" => feedback_events[p] = "eligible" \/ p \in was_eligible'
  BY DEF Write, SavePrediction, SaveFeedback, SaveDrift, TypeInv, TypeOK
<1> QED
  BY <1>1, <1>2 DEF PollInv, PieceConsumed, DriftConsumed, Triggered, ConsumedWereEligible

LEMMA PollsKeepPoll ==
  ASSUME TypeInv, Determined, PollInv, Collect \/ Fail
  PROVE  PollInv'
<1>0. poll \in Poll /\ journal \subseteq TriggerEvent
  BY DEF TypeInv, TypeOK
<1>1. CASE ListPredictions
  BY <1>1 DEF ListPredictions, PollInv, Idle, tables, ConsumedWereEligible
<1>2. CASE ReadJournal
  <2>1. /\ poll.step = "read_journal" /\ poll'.step = "read_feedback"
        /\ poll'.candidates = {}
        /\ UNCHANGED <<journal, feedback_events, was_eligible>>
        /\ poll'.todo = {p \in 1 .. poll.predictions :
                           IsNew(p, UNION {e.consumed_predictions : e \in Triggered})}
        /\ poll'.consumed_drifts = UNION {e.consumed_drifts : e \in Triggered}
    BY <1>0, <1>2 DEF ReadJournal, PollInv, Poll, tables
  <2>2. \A p \in poll'.todo : ~PieceConsumed(p)
    BY <2>1, Zenon DEF IsNew, PieceConsumed
  <2>3. \A d \in Drifts : DriftConsumed(d) => d \in poll'.consumed_drifts
    BY <2>1, Zenon DEF DriftConsumed
  <2> QED
    BY <2>1, <2>2, <2>3
    DEF PollInv, PieceConsumed, DriftConsumed, Triggered, ConsumedWereEligible
<1>3. CASE ReadFeedback
  <2>1. PICK p \in poll.todo :
          poll' = [poll EXCEPT !.todo = @ \ {p},
                     !.candidates = IF IsConforming(p) THEN @ \cup {p} ELSE @]
    BY <1>3 DEF ReadFeedback
  <2>2. /\ poll.step = "read_feedback" /\ poll'.step = "read_feedback"
        /\ poll'.todo \cup poll'.candidates \subseteq poll.todo \cup poll.candidates
        /\ poll'.consumed_drifts = poll.consumed_drifts
        /\ UNCHANGED <<journal, feedback_events, was_eligible>>
        /\ \A q \in poll'.candidates : q \in poll.candidates \/ (q = p /\ IsConforming(p))
    BY <1>0, <1>3, <2>1 DEF ReadFeedback, Poll, tables
  <2>3. p \in Predictions
    BY <1>0 DEF Poll
  <2>4. poll'.candidates \subseteq was_eligible
    BY <2>2, <2>3 DEF PollInv, IsConforming
  <2> QED
    BY <2>2, <2>4 DEF PollInv, PieceConsumed, DriftConsumed, Triggered, ConsumedWereEligible
<1>4. CASE ReadDrift
  <2>1. /\ poll.step = "read_feedback" /\ poll'.step = "record"
        /\ poll'.todo = poll.todo /\ poll'.candidates = poll.candidates
        /\ poll'.consumed_drifts = poll.consumed_drifts
        /\ UNCHANGED <<journal, feedback_events, was_eligible>>
    BY <1>0, <1>4 DEF ReadDrift, Poll, tables
  <2> QED
    BY <2>1 DEF PollInv, PieceConsumed, DriftConsumed, Triggered, ConsumedWereEligible
<1>5. CASE RecordDecision
  <2>1. Decision \in journal'
    BY <1>5, Zenon DEF RecordDecision
  <2>2. Decision.consumed_predictions \subseteq was_eligible
    BY DecisionIsDetermined DEF PollInv
  <2>3. /\ poll.step = "record" /\ poll' = [Idle EXCEPT !.step = "gate", !.decision = Decision]
        /\ UNCHANGED <<feedback_events, was_eligible>>
    BY <1>5 DEF RecordDecision, tables
  <2> HIDE DEF Decision
  <2> QED
    BY <2>1, <2>2, <2>3 DEF PollInv, Idle, ConsumedWereEligible
<1>6. CASE Skip \/ Launch \/ Fail
  BY <1>6 DEF Skip, Launch, Fail, PollInv, Idle, ConsumedWereEligible
<1> QED
  BY <1>1, <1>2, <1>3, <1>4, <1>5, <1>6 DEF Collect

(* What the running poll read of the tables and of the journal still holds. *)
THEOREM PollInvariant == Spec => []PollInv
<1>1. TypeInv /\ Determined /\ PollInv /\ [Next]_vars => PollInv'
  <2>1. PollInv /\ UNCHANGED vars => PollInv'
    BY DEF PollInv, PieceConsumed, DriftConsumed, Triggered, ConsumedWereEligible, vars, tables
  <2> QED
    BY <2>1, WritesKeepPoll, PollsKeepPoll DEF Next
<1> QED
  BY <1>1, InitPoll, SignalTypeInvariant, JournalIsDetermined, PTL DEF Spec

(* Two positive decisions share no validated piece. *)
THEOREM PiecesAreConsumedAtMostOnce == Spec => []PiecesAreConsumedOnce
<1>1. Init => PiecesAreConsumedOnce
  BY DEF Init, PiecesAreConsumedOnce, Triggered
<1>2. TypeInv /\ Determined /\ PollInv /\ PiecesAreConsumedOnce /\ [Next]_vars
        => PiecesAreConsumedOnce'
  <2> SUFFICES ASSUME TypeInv, Determined, PollInv, PiecesAreConsumedOnce, [Next]_vars
               PROVE  PiecesAreConsumedOnce'
    OBVIOUS
  <2>1. CASE RecordDecision
    <3>1. journal' = journal \cup {Decision}
      BY <2>1, JournalGrows
    <3>2. \A p \in Decision.consumed_predictions : ~PieceConsumed(p)
      BY <2>1, DecisionIsDetermined DEF RecordDecision, PollInv
    <3> HIDE DEF Decision
    <3> QED
      BY <3>1, <3>2 DEF PiecesAreConsumedOnce, PieceConsumed, Triggered
  <2>2. CASE journal' = journal
    BY <2>2 DEF PiecesAreConsumedOnce, Triggered
  <2> QED
    BY <2>1, <2>2, OnlyRecordWrites
<1> QED
  BY <1>1, <1>2, SignalTypeInvariant, JournalIsDetermined, PollInvariant, PTL DEF Spec

(* A decision at the gate rests on pieces that were conforming and eligible while its *)
(* poll ran, whatever overlapping handlers wrote over their verdicts meanwhile.        *)
THEOREM CountedPiecesWereEligible == Spec => []ConsumedWereEligible
<1>1. PollInv => ConsumedWereEligible
  BY DEF PollInv
<1> QED
  BY <1>1, PollInvariant, PTL

-----------------------------------------------------------------------------
(* A launch uses evidence that no launch has used: what was used is in the   *)
(* journal, and what the poll at the gate decided on was not there before.   *)

LaunchInv ==
  /\ \A p \in Predictions : launches[p] <= 1 /\ (launches[p] > 0 => PieceConsumed(p))
  /\ poll.step = "gate" => \A p \in poll.decision.consumed_predictions : launches[p] = 0

DriftLaunchInv ==
  kind = "drift_correction" =>
    /\ \A d \in Drifts :
         drift_launches[d] <= 1 /\ (drift_launches[d] > 0 => DriftConsumed(d))
    /\ poll.step = "gate" => \A d \in poll.decision.consumed_drifts : drift_launches[d] = 0

(* Steps other than RecordDecision and Launch. *)
LEMMA OtherSteps ==
  ASSUME TypeInv, [Next]_vars, ~RecordDecision, ~Launch
  PROVE  /\ UNCHANGED <<kind, journal, launches, drift_launches>>
         /\ poll' = poll \/ poll'.step # "gate"
<1>0. poll \in Poll
  BY DEF TypeInv, TypeOK
<1>1. CASE ListPredictions
  <2>1. poll' = [Idle EXCEPT !.step = "read_journal", !.predictions = predictions]
    BY <1>1 DEF ListPredictions
  <2>2. poll'.step = "read_journal"
    BY <2>1, IdleIsPoll DEF Poll
  <2> QED
    BY <1>1, <2>2 DEF ListPredictions, history
<1>6. CASE Skip
  BY <1>6 DEF Skip, Idle, history
<1>3. CASE ReadJournal
  <2>1. UNCHANGED <<kind, journal, launches, drift_launches>>
    BY <1>3 DEF ReadJournal, history
  <2>2. PICK T, C : poll' = [poll EXCEPT !.step = "read_feedback", !.todo = T,
                                         !.consumed_drifts = C]
    BY <1>3, Zenon DEF ReadJournal
  <2>3. poll'.step = "read_feedback"
    BY <1>0, <2>2 DEF Poll
  <2> QED
    BY <2>1, <2>3
<1>4. CASE ReadFeedback
  BY <1>0, <1>4 DEF ReadFeedback, At, Poll, history
<1>5. CASE ReadDrift
  BY <1>0, <1>5 DEF ReadDrift, Poll, history
<1>2. CASE Write \/ Fail \/ UNCHANGED vars
  BY <1>2 DEF Write, SavePrediction, SaveFeedback, SaveDrift, Fail, Idle, vars, history
<1> QED
  BY <1>1, <1>2, <1>3, <1>4, <1>5, <1>6 DEF Next, Collect

LEMMA LaunchesKept ==
  ASSUME TypeInv, Determined, PollInv, LaunchInv, [Next]_vars
  PROVE  LaunchInv'
<1>0. launches \in [Predictions -> Nat]
  BY DEF TypeInv, TypeOK
<1>1. CASE RecordDecision
  <2>1. journal' = journal \cup {Decision} /\ launches' = launches /\ poll'.decision = Decision
    BY <1>1, JournalGrows, IdleIsPoll DEF RecordDecision, history, Poll
  <2>2. \A p \in Decision.consumed_predictions : p \in Predictions /\ ~PieceConsumed(p)
    <3>1. poll.candidates \in SUBSET Predictions
      BY DEF TypeInv, TypeOK, Poll
    <3> QED
      BY <1>1, <3>1, DecisionIsDetermined DEF RecordDecision, PollInv
  <2> HIDE DEF Decision
  <2>3. \A p \in Decision.consumed_predictions : launches[p] = 0
    BY <1>0, <2>2 DEF LaunchInv
  <2> QED
    BY <2>1, <2>3 DEF LaunchInv, PieceConsumed, Triggered
<1>2. CASE Launch
  <2>1. /\ poll.step = "gate" /\ poll.decision.trigger_lifecycle /\ journal' = journal
        /\ poll'.step # "gate"
        /\ launches' = [p \in Predictions |->
             IF p \in poll.decision.consumed_predictions THEN launches[p] + 1 ELSE launches[p]]
    BY <1>2 DEF Launch, Idle
  <2>2. poll.decision \in Triggered
    BY <2>1 DEF PollInv, Triggered
  <2>3. ASSUME NEW p \in Predictions
        PROVE  launches'[p] <= 1 /\ (launches'[p] > 0 => PieceConsumed(p))
    BY <1>0, <2>1, <2>2, <2>3 DEF LaunchInv, PieceConsumed
  <2> QED
    BY <2>1, <2>3 DEF LaunchInv, PieceConsumed, Triggered
<1>3. CASE ~RecordDecision /\ ~Launch
  BY <1>3, OtherSteps DEF LaunchInv, PieceConsumed, Triggered
<1> QED
  BY <1>1, <1>2, <1>3

LEMMA DriftLaunchesKept ==
  ASSUME TypeInv, Determined, PollInv, DriftLaunchInv, [Next]_vars
  PROVE  DriftLaunchInv'
<1>k. kind' = kind
  BY DEF Next, Write, SavePrediction, SaveFeedback, SaveDrift, Collect, ListPredictions,
         ReadJournal, ReadFeedback, ReadDrift, RecordDecision, Skip, Launch, Fail, vars
<1> SUFFICES ASSUME kind = "drift_correction" PROVE DriftLaunchInv'
  BY <1>k DEF DriftLaunchInv
<1>0. drift_launches \in [Drifts -> Nat]
  BY DEF TypeInv, TypeOK
<1>1. CASE RecordDecision
  <2>1. /\ journal' = journal \cup {Decision} /\ drift_launches' = drift_launches
        /\ poll'.decision = Decision
    BY <1>1, JournalGrows, IdleIsPoll DEF RecordDecision, history, Poll
  <2>2. \A d \in Decision.consumed_drifts : d \in Drifts /\ ~DriftConsumed(d)
    <3>1. TriggerLifecycle => poll.drift \notin poll.consumed_drifts
      BY DEF TriggerLifecycle, DriftConfirmed, DriftWasConsumed
    <3>2. poll.drift \in Drifts \cup {None}
      BY DEF TypeInv, TypeOK, Poll
    <3>3. \A d \in Drifts : DriftConsumed(d) => d \in poll.consumed_drifts
      BY <1>1 DEF RecordDecision, PollInv
    <3> HIDE DEF Drifts, DriftConsumed, TriggerLifecycle
    <3> QED
      BY <3>1, <3>2, <3>3, DecisionIsDetermined
  <2> HIDE DEF Decision
  <2>3. \A d \in Decision.consumed_drifts : drift_launches[d] = 0
    BY <1>0, <2>2 DEF DriftLaunchInv
  <2> QED
    BY <2>1, <2>3 DEF DriftLaunchInv, DriftConsumed, Triggered
<1>2. CASE Launch
  <2>1. /\ poll.step = "gate" /\ poll.decision.trigger_lifecycle /\ journal' = journal
        /\ poll'.step # "gate"
        /\ drift_launches' = [d \in Drifts |->
             IF d \in poll.decision.consumed_drifts THEN drift_launches[d] + 1
             ELSE drift_launches[d]]
    BY <1>2 DEF Launch, Idle
  <2>2. poll.decision \in Triggered
    BY <2>1 DEF PollInv, Triggered
  <2>3. ASSUME NEW d \in Drifts
        PROVE  drift_launches'[d] <= 1 /\ (drift_launches'[d] > 0 => DriftConsumed(d))
    BY <1>0, <2>1, <2>2, <2>3 DEF DriftLaunchInv, DriftConsumed
  <2> QED
    BY <2>1, <2>3 DEF DriftLaunchInv, DriftConsumed, Triggered
<1>3. CASE ~RecordDecision /\ ~Launch
  BY <1>3, OtherSteps DEF DriftLaunchInv, DriftConsumed, Triggered
<1> QED
  BY <1>1, <1>2, <1>3

(* One signal does not launch the lifecycle twice. *)
THEOREM EvidenceLaunchesAtMostOnce == Spec => []EvidenceLaunchesOnce
<1>1. Init => LaunchInv /\ DriftLaunchInv
  BY DEF Init, LaunchInv, DriftLaunchInv, Idle
<1>2. TypeInv /\ Determined /\ PollInv /\ LaunchInv /\ DriftLaunchInv /\ [Next]_vars
        => LaunchInv' /\ DriftLaunchInv'
  BY LaunchesKept, DriftLaunchesKept
<1>3. LaunchInv /\ DriftLaunchInv => EvidenceLaunchesOnce
  BY DEF LaunchInv, DriftLaunchInv, EvidenceLaunchesOnce
<1> QED
  BY <1>1, <1>2, <1>3, SignalTypeInvariant, JournalIsDetermined, PollInvariant, PTL DEF Spec
=============================================================================

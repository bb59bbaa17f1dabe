------------------------ MODULE DriftCorrectionProofs ------------------------
(***************************************************************************)
(* Proofs about DriftCorrection, for any command line of the observation,  *)
(* any size of its windows and of its rows, any number of cycles and       *)
(* epochs, and any number of lost or slow events, restarts and failures:   *)
(*                                                                         *)
(*   DriftTypeCorrect          the variables keep their types              *)
(*   DriftNeedsEvidence        drift is confirmed only on evidence         *)
(*   PromotionsCountOnce       a promotion is counted once                 *)
(*   UndisturbedRunsAreShown   /metrics shows a run that nobody disturbs   *)
(*                                                                         *)
(* First what an event does to the state of the API, field by field; then  *)
(* the types; then one inductive invariant for each of the three others.   *)
(***************************************************************************)
EXTENDS DriftCorrection, FiniteSetTheorems, SequenceTheorems, TLAPS

-----------------------------------------------------------------------------
(* Types *)

Versions == [Roles -> Cycles \cup {None}]

Verdicts == [Roles -> Statuses \cup {None}]

Phases == {"training", "evaluation_gate", "promotion"}

Marks == [run : Senders, cycle : Cycles, phase : Phases]

Decisions == [run : Senders, cycle : Cycles, role : Roles, status : Statuses]

Labels == [run : Senders, role : Roles, status : Statuses]

Counters == UNION {[labels -> Nat] : labels \in SUBSET Labels}

States ==
  [run : Senders \cup {None}, cycle : Cycles, epoch : 0 .. Epochs, active : Versions,
   final : Versions, seen : SUBSET Decisions, counters : Counters, phases : SUBSET Marks]

Events ==
  [type : Pushing \cup {"run_failed"}, run : Senders, cycle : Cycles, epoch : 0 .. Epochs,
   candidate : Cycles \cup {None}, initial : Cycles \cup {None}, active : Versions,
   status : Verdicts]

Judgements == [cycle : Cycles, role : Roles, status : Statuses]

Runners ==
  [step : Holding \cup Over \cup {"new", "refused", "raising"}, cycle : Cycles,
   epoch : 0 .. Epochs, runtime : [Roles -> Cycles], status : Verdicts,
   decisions : SUBSET Judgements]

Observing ==
  [step : {"idle", "observing", "summarised", "done", "failed"},
   rows : [stable : Int, total : Int], windows : Seq(Window), count : Nat, confirmed : BOOLEAN]

(* None is no value of another kind, and 0 and the cycles of a run are cycles. *)
LEMMA CyclesAreNumbers ==
  /\ Cycles \subseteq Nat /\ 0 \in Cycles /\ None \notin Cycles
  /\ \A r \in Runs : 0 .. MaxCycles[r] \subseteq Cycles
  /\ None \notin Runs /\ None \notin Statuses /\ Runs \subseteq Senders
BY CorrectionAssumption, NoneAssumption DEF Cycles, Senders

-----------------------------------------------------------------------------
(* What an event does to the state of the API *)

(* The empty state is a state. *)
LEMMA EmptyIsState == EmptyState \in States /\ EmptyBag = CountersOf({})
<1>1. EmptyBag = [k \in {} |-> 1] /\ EmptyBag \in Counters
  BY DEF EmptyBag, SetToBag, Counters
<1>2. CountersOf({}) = [k \in {} |-> 1]
  BY DEF CountersOf
<1>3. NoVersions \in Versions
  BY DEF NoVersions, Versions
<1>4. 0 \in Cycles /\ 0 \in 0 .. Epochs
  BY CyclesAreNumbers, CorrectionAssumption
<1> QED
  BY <1>1, <1>2, <1>3, <1>4 DEF EmptyState, States

(* Its run, cycle and epoch. *)
LEMMA LabelsStep ==
  ASSUME NEW s \in States, NEW e \in Events
  PROVE  LET t == WithLabels(s, e)
         IN /\ t \in States
            /\ t.run = e.run /\ t.cycle = IF e.cycle = 0 THEN s.cycle ELSE e.cycle
            /\ t.epoch = IF e.type = "phase_evaluation_gate" THEN 0
                         ELSE IF e.epoch = 0 THEN s.epoch ELSE e.epoch
            /\ t.active = s.active /\ t.final = s.final /\ t.seen = s.seen
            /\ t.counters = s.counters /\ t.phases = s.phases
<1>1. /\ e.run \in Senders /\ e.cycle \in Cycles /\ e.epoch \in 0 .. Epochs
      /\ s.cycle \in Cycles /\ s.epoch \in 0 .. Epochs /\ 0 \in 0 .. Epochs
  BY CorrectionAssumption DEF States, Events
<1> QED
  BY <1>1 DEF WithLabels, States

(* Its phases. *)
LEMMA PhaseStep ==
  ASSUME NEW s \in States, NEW e \in Events, s.run \in Senders
  PROVE  LET t == WithPhase(s, e)
         IN /\ t \in States
            /\ t.run = s.run /\ t.cycle = s.cycle /\ t.epoch = s.epoch
            /\ t.active = s.active /\ t.final = s.final /\ t.seen = s.seen
            /\ t.counters = s.counters
            /\ e.type \notin DOMAIN PhaseOf => t.phases = s.phases
            /\ e.type \in DOMAIN PhaseOf =>
                 t.phases = {p \in s.phases : <<p.run, p.cycle>> # <<s.run, s.cycle>>}
                              \cup {[run |-> s.run, cycle |-> s.cycle, phase |-> PhaseOf[e.type]]}
<1>1. CASE e.type \notin DOMAIN PhaseOf
  BY <1>1 DEF WithPhase
<1>2. CASE e.type \in DOMAIN PhaseOf
  <2>1. PhaseOf[e.type] \in Phases
    BY <1>2 DEF PhaseOf, Phases
  <2> DEFINE others == {p \in s.phases : <<p.run, p.cycle>> # <<s.run, s.cycle>>}
             mark == [run |-> s.run, cycle |-> s.cycle, phase |-> PhaseOf[e.type]]
             phases == others \cup {mark}
  <2>2. mark \in Marks
    BY <2>1 DEF States, Marks
  <2>3. phases \in SUBSET Marks
    BY <2>2 DEF States
  <2>4. WithPhase(s, e) = [s EXCEPT !.phases = phases]
    BY <1>2 DEF WithPhase
  <2> HIDE DEF phases
  <2>5. WithPhase(s, e) \in States /\ WithPhase(s, e).phases = phases
    BY <2>3, <2>4 DEF States
  <2>6. LET t == WithPhase(s, e)
        IN /\ t.run = s.run /\ t.cycle = s.cycle /\ t.epoch = s.epoch
           /\ t.active = s.active /\ t.final = s.final /\ t.seen = s.seen
           /\ t.counters = s.counters
    BY <2>4 DEF States
  <2> QED
    BY <1>2, <2>5, <2>6 DEF phases
<1> QED
  BY <1>1, <1>2

(* The counters of a set of decisions are counters. *)
LEMMA CountersTyped ==
  ASSUME NEW seen \in SUBSET Decisions, IsFiniteSet(seen)
  PROVE  CountersOf(seen) \in Counters
<1> DEFINE labels == {Label(d) : d \in seen}
<1>1. labels \in SUBSET Labels
  BY DEF Decisions, Labels, Label
<1>2. \A k \in labels : Cardinality({d \in seen : Label(d) = k}) \in Nat
  <2> TAKE k \in labels
  <2>1. {d \in seen : Label(d) = k} \in SUBSET seen
    OBVIOUS
  <2> QED
    BY <2>1, FS_Subset, FS_CardinalityType
<1>3. CountersOf(seen) \in [labels -> Nat]
  BY <1>2 DEF CountersOf
<1> QED
  BY <1>1, <1>3 DEF Counters

(* Adding one to the counter of each new decision counts them all. *)
LEMMA CountersGrow ==
  ASSUME NEW seen, IsFiniteSet(seen), NEW new, IsFiniteSet(new), new \cap seen = {},
         \A a, b \in new : Label(a) = Label(b) => a = b
  PROVE  CountersOf(seen) (+) SetToBag({Label(d) : d \in new}) = CountersOf(seen \cup new)
<1> DEFINE old == {Label(d) : d \in seen}
           more == {Label(d) : d \in new}
           all == {Label(d) : d \in seen \cup new}
           Of(S, k) == {d \in S : Label(d) = k}
           sum == [k \in old \cup more |->
                     (IF k \in old THEN CountersOf(seen)[k] ELSE 0)
                       + (IF k \in more THEN SetToBag(more)[k] ELSE 0)]
<1>1. DOMAIN CountersOf(seen) = old /\ DOMAIN SetToBag(more) = more
  BY DEF CountersOf, SetToBag
<1>2. CountersOf(seen) (+) SetToBag(more) = sum
  BY <1>1, Zenon DEF (+)
<1>3. old \cup more = all
  OBVIOUS
<1>4. ASSUME NEW k \in all
      PROVE  sum[k] = Cardinality(Of(seen \cup new, k))
  <2>1. IsFiniteSet(Of(seen, k)) /\ Cardinality(Of(seen, k)) \in Nat
    BY FS_Subset, FS_CardinalityType
  <2>2. (IF k \in old THEN CountersOf(seen)[k] ELSE 0) = Cardinality(Of(seen, k))
    <3>1. CASE k \in old
      BY <3>1 DEF CountersOf
    <3>2. CASE k \notin old
      <4>1. Of(seen, k) = {}
        BY <3>2
      <4> QED
        BY <3>2, <4>1, FS_EmptySet
    <3> QED
      BY <3>1, <3>2
  <2>3. CASE k \in more
    <3>1. PICK d \in new : Label(d) = k
      BY <2>3
    <3>2. Of(seen \cup new, k) = Of(seen, k) \cup {d} /\ d \notin Of(seen, k)
      BY <3>1
    <3>3. Cardinality(Of(seen \cup new, k)) = Cardinality(Of(seen, k)) + 1
      BY <2>1, <3>2, FS_AddElement
    <3>4. SetToBag(more)[k] = 1
      BY <2>3 DEF SetToBag
    <3>5. sum[k] = Cardinality(Of(seen, k)) + 1
      BY <1>3, <2>2, <2>3, <3>4, Zenon
    <3> QED
      BY <3>3, <3>5
  <2>4. CASE k \notin more
    <3>1. Of(seen \cup new, k) = Of(seen, k)
      BY <2>4
    <3>2. sum[k] = Cardinality(Of(seen, k)) + 0
      BY <1>3, <2>2, <2>4, Zenon
    <3>3. \A n \in Nat : n + 0 = n
      OBVIOUS
    <3> QED
      BY <2>1, <3>1, <3>2, <3>3, Zenon
  <2> QED
    BY <2>3, <2>4
<1>5. CountersOf(seen \cup new) = [k \in all |-> Cardinality(Of(seen \cup new, k))]
  BY DEF CountersOf
<1>6. sum = [k \in all |-> Cardinality(Of(seen \cup new, k))]
  BY <1>3, <1>4, Zenon
<1> QED
  BY <1>2, <1>5, <1>6

(* A decision event decides at most one status for each role. *)
LEMMA DecidedIs ==
  ASSUME NEW e \in Events
  PROVE  /\ Decided(e) \in SUBSET Decisions /\ IsFiniteSet(Decided(e))
         /\ \A a, b \in Decided(e) : Label(a) = Label(b) => a = b
<1> DEFINE of(role) == [run |-> e.run, cycle |-> e.cycle, role |-> role, status |-> e.status[role]]
<1>1. Decided(e) \in SUBSET Decisions
  BY DEF Decided, Decisions, Events, Verdicts
<1>2. Decided(e) \in SUBSET {of("classification"), of("localization")}
  BY DEF Decided, Roles
<1>3. IsFiniteSet({of("classification"), of("localization")})
  <2>1. IsFiniteSet({of("classification")})
    BY FS_Singleton
  <2>2. IsFiniteSet({of("classification")} \cup {of("localization")})
    BY <2>1, FS_AddElement
  <2>3. {of("classification")} \cup {of("localization")}
          = {of("classification"), of("localization")}
    OBVIOUS
  <2> QED
    BY <2>2, <2>3
<1>4. IsFiniteSet(Decided(e))
  BY <1>2, <1>3, FS_Subset
<1>5. \A a, b \in Decided(e) : Label(a) = Label(b) => a = b
  BY DEF Decided, Label
<1> QED
  BY <1>1, <1>4, <1>5

(* A state whose counters count promotion_seen. *)
Counting(s) == IsFiniteSet(s.seen) /\ s.counters = CountersOf(s.seen)

DecidedBy(e) == IF e.type \in DecisionEvents THEN Decided(e) ELSE {}

(* What is added to counters are counters. *)
LEMMA CountersAdd ==
  ASSUME NEW c \in Counters, NEW more \in SUBSET Labels
  PROVE  c (+) SetToBag(more) \in Counters
<1>1. PICK old \in SUBSET Labels : c \in [old -> Nat]
  BY DEF Counters
<1> DEFINE sum == [k \in old \cup more |->
                     (IF k \in old THEN c[k] ELSE 0)
                       + (IF k \in more THEN SetToBag(more)[k] ELSE 0)]
<1>2. DOMAIN c = old /\ SetToBag(more) = [k \in more |-> 1] /\ DOMAIN SetToBag(more) = more
  BY <1>1 DEF SetToBag
<1>3. c (+) SetToBag(more) = sum
  BY <1>2, Zenon DEF (+)
<1>4. \A k \in old \cup more : (IF k \in old THEN c[k] ELSE 0)
                                  + (IF k \in more THEN SetToBag(more)[k] ELSE 0) \in Nat
  BY <1>1, <1>2
<1>5. sum \in [old \cup more -> Nat]
  BY <1>4
<1> QED
  BY <1>3, <1>5 DEF Counters

(* The decisions an event marks. *)
LEMMA MarkedIs ==
  ASSUME NEW s \in States, NEW e \in Events
  PROVE  LET t == Marked(s, e)
         IN /\ t \in States /\ t.seen = s.seen \cup Decided(e)
            /\ t.run = s.run /\ t.cycle = s.cycle /\ t.epoch = s.epoch
            /\ t.active = s.active /\ t.final = s.final /\ t.phases = s.phases
            /\ t.counters = s.counters
<1> DEFINE seen == s.seen \cup Decided(e)
<1>1. seen \in SUBSET Decisions
  BY DecidedIs DEF States
<1>2. Marked(s, e) = [s EXCEPT !.seen = seen]
  BY DEF Marked
<1> HIDE DEF seen
<1>3. LET t == Marked(s, e)
      IN /\ t \in States /\ t.seen = seen
         /\ t.run = s.run /\ t.cycle = s.cycle /\ t.epoch = s.epoch
         /\ t.active = s.active /\ t.final = s.final /\ t.phases = s.phases
         /\ t.counters = s.counters
  BY <1>1, <1>2 DEF States
<1> QED
  BY <1>3 DEF seen

(* The decisions an event counts: each one adds to those that were counted. *)
LEMMA CountedIs ==
  ASSUME NEW s \in States, NEW e \in Events, NEW uncounted \in SUBSET Decided(e)
  PROVE  LET t == Counted(s, e, uncounted)
         IN /\ t \in States
            /\ t.run = s.run /\ t.cycle = s.cycle /\ t.epoch = s.epoch
            /\ t.final = s.final /\ t.phases = s.phases /\ t.seen = s.seen
            /\ \A role \in Roles :
                 t.active[role] = IF e.status[role] = "promoted" THEN e.candidate
                                  ELSE s.active[role]
            /\ \A old : IsFiniteSet(old) /\ s.counters = CountersOf(old) /\ uncounted \cap old = {}
                         => t.counters = CountersOf(old \cup uncounted)
<1> DEFINE new == {[run |-> d.run, role |-> d.role, status |-> d.status] : d \in uncounted}
           counters == s.counters (+) SetToBag(new)
           active == [role \in Roles |->
                        IF e.status[role] = "promoted" THEN e.candidate ELSE s.active[role]]
<1>1. Counted(s, e, uncounted) = [s EXCEPT !.counters = counters, !.active = active]
  BY DEF Counted
<1>2. counters \in Counters
  <2>1. \A d \in uncounted : d \in Decisions
    BY DecidedIs
  <2>2. new \in SUBSET Labels
    BY <2>1 DEF Decisions, Labels
  <2>3. s.counters \in Counters
    BY DEF States
  <2> QED
    BY <2>2, <2>3, CountersAdd
<1>3. active \in Versions
  BY DEF States, Events, Versions
<1>4. ASSUME NEW old, IsFiniteSet(old), s.counters = CountersOf(old), uncounted \cap old = {}
      PROVE  counters = CountersOf(old \cup uncounted)
  <2>1. IsFiniteSet(uncounted) /\ \A a, b \in uncounted : Label(a) = Label(b) => a = b
    BY DecidedIs, FS_Subset
  <2>2. new = {Label(d) : d \in uncounted}
    BY DEF Label
  <2>3. CountersOf(old) (+) SetToBag({Label(d) : d \in uncounted}) = CountersOf(old \cup uncounted)
    BY <1>4, <2>1, CountersGrow
  <2> QED
    BY <1>4, <2>2, <2>3, Zenon
<1> HIDE DEF counters, active
<1>5. LET t == Counted(s, e, uncounted)
      IN /\ t \in States
         /\ t.run = s.run /\ t.cycle = s.cycle /\ t.epoch = s.epoch
         /\ t.final = s.final /\ t.phases = s.phases /\ t.seen = s.seen
         /\ t.counters = counters /\ t.active = active
  BY <1>1, <1>2, <1>3 DEF States
<1>6. \A role \in Roles : active[role] = IF e.status[role] = "promoted" THEN e.candidate
                                         ELSE s.active[role]
  BY DEF active
<1> HIDE DEF new
<1> QED
  BY <1>4, <1>5, <1>6

(* Its promotions: each decision is counted when it is new. *)
LEMMA PromotionsStep ==
  ASSUME NEW s \in States, NEW e \in Events
  PROVE  LET t == WithPromotions(s, e)
         IN /\ t \in States /\ (Counting(s) => Counting(t))
            /\ t.run = s.run /\ t.cycle = s.cycle /\ t.epoch = s.epoch
            /\ t.final = s.final /\ t.phases = s.phases
            /\ t.seen = s.seen \cup DecidedBy(e)
            /\ e.type \notin DecisionEvents => t.active = s.active
            /\ e.type \in DecisionEvents =>
                 \A role \in Roles :
                   t.active[role] = IF e.status[role] = "promoted" THEN e.candidate
                                    ELSE s.active[role]
<1>1. CASE e.type \notin DecisionEvents
  BY <1>1 DEF WithPromotions, DecidedBy
<1>2. CASE e.type \in DecisionEvents
  <2> DEFINE uncounted == Uncounted(s, e)
             m == Marked(s, e)
             t == Counted(m, e, uncounted)
  <2>1. WithPromotions(s, e) = t
    BY <1>2 DEF WithPromotions
  <2>2. /\ uncounted \in SUBSET Decided(e) /\ uncounted \cap s.seen = {}
        /\ s.seen \cup uncounted = s.seen \cup Decided(e)
    BY DEF Uncounted
  <2> HIDE DEF uncounted
  <2>3. /\ m \in States /\ m.seen = s.seen \cup Decided(e)
        /\ m.run = s.run /\ m.cycle = s.cycle /\ m.epoch = s.epoch
        /\ m.active = s.active /\ m.final = s.final /\ m.phases = s.phases
        /\ m.counters = s.counters
    BY MarkedIs
  <2> HIDE DEF m
  <2>4. /\ t \in States
        /\ t.run = m.run /\ t.cycle = m.cycle /\ t.epoch = m.epoch
        /\ t.final = m.final /\ t.phases = m.phases /\ t.seen = m.seen
        /\ \A role \in Roles :
             t.active[role] = IF e.status[role] = "promoted" THEN e.candidate
                              ELSE m.active[role]
        /\ \A old : IsFiniteSet(old) /\ m.counters = CountersOf(old) /\ uncounted \cap old = {}
                     => t.counters = CountersOf(old \cup uncounted)
    BY <2>2, <2>3, CountedIs
  <2> HIDE DEF t
  <2>5. ASSUME Counting(s) PROVE Counting(t)
    <3>1. IsFiniteSet(s.seen) /\ s.counters = CountersOf(s.seen)
      BY <2>5 DEF Counting
    <3>2. t.counters = CountersOf(s.seen \cup uncounted)
      BY <2>2, <2>3, <2>4, <3>1
    <3>3. IsFiniteSet(s.seen \cup Decided(e))
      BY <3>1, DecidedIs, FS_Union
    <3> QED
      BY <2>2, <2>3, <2>4, <3>2, <3>3 DEF Counting
  <2> QED
    BY <1>2, <2>1, <2>3, <2>4, <2>5 DEF DecidedBy
<1> QED
  BY <1>1, <1>2

(* Its models. *)
LEMMA ModelsStep ==
  ASSUME NEW s \in States, NEW e \in Events
  PROVE  LET t == WithModels(s, e)
         IN /\ t \in States
            /\ t.run = s.run /\ t.cycle = s.cycle /\ t.epoch = s.epoch
            /\ t.seen = s.seen /\ t.counters = s.counters /\ t.phases = s.phases
            /\ t.final = Given(e.active, s.final)
            /\ Given(e.active, s.active) # NoVersions => t.active = Given(e.active, s.active)
<1> DEFINE given == Given(e.active, s.active)
           active == IF given = NoVersions /\ e.initial # None
                     THEN [role \in Roles |-> e.initial] ELSE given
           final == Given(e.active, s.final)
<1>1. WithModels(s, e) = [s EXCEPT !.active = active, !.final = final]
  BY DEF WithModels, States
<1>2. \A old \in Versions : Given(e.active, old) \in Versions
  BY DEF Given, Versions, Events
<1>3. given \in Versions /\ final \in Versions
  BY <1>2 DEF States
<1>4. active \in Versions
  <2>1. e.initial \in Cycles \cup {None}
    BY DEF Events
  <2> HIDE DEF given
  <2> QED
    BY <1>3, <2>1 DEF Versions
<1>5. given # NoVersions => active = given
  OBVIOUS
<1> HIDE DEF active, given, final
<1>6. WithModels(s, e) \in States
  BY <1>1, <1>3, <1>4 DEF States
<1>7. LET t == WithModels(s, e)
      IN /\ t.run = s.run /\ t.cycle = s.cycle /\ t.epoch = s.epoch
         /\ t.seen = s.seen /\ t.counters = s.counters /\ t.phases = s.phases
         /\ t.final = final /\ t.active = active
  BY <1>1 DEF States
<1> QED
  BY <1>5, <1>6, <1>7 DEF given, final

(* What resets the state resets it all. *)
LEMMA ResetIs ==
  ASSUME NEW s \in States
  PROVE  /\ Cleared(Emptied(s)) = EmptyState /\ Counting(EmptyState)
         /\ LET t == Emptied(s)
            IN t \in States /\ t.seen = {} /\ t.counters = s.counters
         /\ LET t == Cleared(s)
            IN t \in States /\ t.seen = s.seen /\ t.counters = EmptyBag
<1>1. EmptyState \in States /\ EmptyBag \in Counters
  BY EmptyIsState DEF EmptyState, States
<1>2. Emptied(s) \in States /\ Emptied(s).seen = {} /\ Emptied(s).counters = s.counters
  BY <1>1 DEF Emptied, EmptyState, States
<1>3. Cleared(s) \in States /\ Cleared(s).seen = s.seen /\ Cleared(s).counters = EmptyBag
  BY <1>1 DEF Cleared, States
<1>4. Cleared(Emptied(s)) = EmptyState
  <2> DEFINE E == EmptyState
  <2>1. Cleared(Emptied(s)) = [[E EXCEPT !.counters = s.counters, !.phases = s.phases]
                                  EXCEPT !.counters = EmptyBag, !.phases = {}]
    BY Zenon DEF Cleared, Emptied
  <2>2. E \in States /\ E.counters = EmptyBag /\ E.phases = {}
    BY <1>1 DEF EmptyState
  <2> HIDE DEF E
  <2>3. [[E EXCEPT !.counters = s.counters, !.phases = s.phases]
            EXCEPT !.counters = EmptyBag, !.phases = {}] = E
    BY <2>2 DEF States
  <2> QED
    BY <2>1, <2>3 DEF E
<1>5. Counting(EmptyState)
  BY EmptyIsState, FS_EmptySet DEF Counting, EmptyState
<1> QED
  BY <1>2, <1>3, <1>4, <1>5

(* Its end. *)
LEMMA EndedStep ==
  ASSUME NEW s \in States, NEW e \in Events
  PROVE  LET t == Ended(s, e)
         IN /\ t \in States /\ (Counting(s) => Counting(t))
            /\ e.type \notin {"run_completed", "run_failed"} => t = s
            /\ e.type = "run_failed" => t = EmptyState
            /\ e.type = "run_completed" =>
                 /\ t.run = s.run /\ t.cycle = s.cycle /\ t.final = s.final /\ t.seen = s.seen
                 /\ t.epoch = 0 /\ t.active = NoVersions /\ t.phases = {}
                 /\ t.counters = s.counters
<1>1. CASE e.type = "run_completed"
  <2>1. Ended(s, e) = [s EXCEPT !.epoch = 0, !.active = NoVersions, !.phases = {}]
    BY <1>1 DEF Ended, WithoutProgress
  <2>2. NoVersions \in Versions /\ 0 \in 0 .. Epochs
    BY CorrectionAssumption DEF NoVersions, Versions
  <2>3. Ended(s, e) \in States
    BY <2>1, <2>2 DEF States
  <2>4. LET t == Ended(s, e)
        IN /\ t.run = s.run /\ t.cycle = s.cycle /\ t.final = s.final /\ t.seen = s.seen
           /\ t.epoch = 0 /\ t.active = NoVersions /\ t.phases = {} /\ t.counters = s.counters
    BY <2>1 DEF States
  <2> QED
    BY <1>1, <2>3, <2>4 DEF Counting
<1>2. CASE e.type = "run_failed"
  <2>1. Ended(s, e) = EmptyState
    BY <1>2, ResetIs DEF Ended
  <2> QED
    BY <1>2, <2>1, ResetIs, EmptyIsState
<1>3. CASE e.type \notin {"run_completed", "run_failed"}
  BY <1>3 DEF Ended
<1> QED
  BY <1>1, <1>2, <1>3

(* What an event does to the state: the fields a property reads. *)
LEMMA RecordedIs ==
  ASSUME NEW s \in States, NEW e \in Events
  PROVE  LET t == Recorded(s, e)
             b == Started(s, e)
         IN /\ t \in States /\ (Counting(b) => Counting(t))
            /\ b \in States /\ b = IF e.type = "run_started" THEN EmptyState ELSE s
            /\ e.type = "run_failed" => t = EmptyState
            /\ e.type # "run_failed" =>
                 /\ t.run = e.run
                 /\ t.cycle = IF e.cycle = 0 THEN b.cycle ELSE e.cycle
                 /\ t.seen = b.seen \cup DecidedBy(e)
                 /\ t.final = Given(e.active, b.final)
            /\ e.type \notin {"run_completed", "run_failed"} =>
                 /\ t.epoch = IF e.type = "phase_evaluation_gate" THEN 0
                              ELSE IF e.epoch = 0 THEN b.epoch ELSE e.epoch
                 /\ e.type \notin DOMAIN PhaseOf => t.phases = b.phases
                 /\ e.type \in DOMAIN PhaseOf =>
                      t.phases = {p \in b.phases : <<p.run, p.cycle>> # <<t.run, t.cycle>>}
                                   \cup {[run |-> t.run, cycle |-> t.cycle,
                                          phase |-> PhaseOf[e.type]]}
                 /\ \A active \in Versions \ {NoVersions} :
                      /\ active = IF e.type \in DecisionEvents
                                  THEN [role \in Roles |-> IF e.status[role] = "promoted"
                                                           THEN e.candidate ELSE b.active[role]]
                                  ELSE Given(e.active, b.active)
                      /\ e.type \in DecisionEvents => e.active = NoVersions
                      => t.active = active
            /\ e.type = "run_completed" =>
                 t.epoch = 0 /\ t.active = NoVersions /\ t.phases = {}
<1> DEFINE b == Started(s, e)
           l == WithLabels(b, e)
           h == WithPhase(l, e)
           p == WithPromotions(h, e)
           m == WithModels(p, e)
           t == Ended(m, e)
<1>0. Recorded(s, e) = t
  BY DEF Recorded
<1>1. b \in States /\ b = IF e.type = "run_started" THEN EmptyState ELSE s
  BY ResetIs, EmptyIsState DEF Started
<1>2. e.run \in Senders
  BY DEF Events
<1> HIDE DEF b
<1>3. /\ l \in States
      /\ l.run = e.run /\ l.cycle = IF e.cycle = 0 THEN b.cycle ELSE e.cycle
      /\ l.epoch = IF e.type = "phase_evaluation_gate" THEN 0
                   ELSE IF e.epoch = 0 THEN b.epoch ELSE e.epoch
      /\ l.active = b.active /\ l.final = b.final /\ l.seen = b.seen
      /\ l.counters = b.counters /\ l.phases = b.phases
  BY <1>1, LabelsStep
<1> HIDE DEF l
<1>4. /\ h \in States
      /\ h.run = l.run /\ h.cycle = l.cycle /\ h.epoch = l.epoch
      /\ h.active = l.active /\ h.final = l.final /\ h.seen = l.seen
      /\ h.counters = l.counters
      /\ e.type \notin DOMAIN PhaseOf => h.phases = l.phases
      /\ e.type \in DOMAIN PhaseOf =>
           h.phases = {q \in l.phases : <<q.run, q.cycle>> # <<l.run, l.cycle>>}
                        \cup {[run |-> l.run, cycle |-> l.cycle, phase |-> PhaseOf[e.type]]}
  BY <1>2, <1>3, PhaseStep
<1> HIDE DEF h
<1>5. Counting(b) => Counting(h)
  BY <1>3, <1>4 DEF Counting
<1>6. /\ p \in States /\ (Counting(h) => Counting(p))
      /\ p.run = h.run /\ p.cycle = h.cycle /\ p.epoch = h.epoch
      /\ p.final = h.final /\ p.phases = h.phases
      /\ p.seen = h.seen \cup DecidedBy(e)
      /\ e.type \notin DecisionEvents => p.active = h.active
      /\ e.type \in DecisionEvents =>
           \A role \in Roles :
             p.active[role] = IF e.status[role] = "promoted" THEN e.candidate
                              ELSE h.active[role]
  BY <1>4, PromotionsStep
<1> HIDE DEF p
<1>7. /\ m \in States
      /\ m.run = p.run /\ m.cycle = p.cycle /\ m.epoch = p.epoch
      /\ m.seen = p.seen /\ m.counters = p.counters /\ m.phases = p.phases
      /\ m.final = Given(e.active, p.final)
      /\ Given(e.active, p.active) # NoVersions => m.active = Given(e.active, p.active)
  BY <1>6, ModelsStep
<1> HIDE DEF m
<1>8. /\ t \in States /\ (Counting(m) => Counting(t))
      /\ e.type \notin {"run_completed", "run_failed"} => t = m
      /\ e.type = "run_failed" => t = EmptyState
      /\ e.type = "run_completed" =>
           /\ t.run = m.run /\ t.cycle = m.cycle /\ t.final = m.final /\ t.seen = m.seen
           /\ t.epoch = 0 /\ t.active = NoVersions /\ t.phases = {}
  BY <1>7, EndedStep
<1> HIDE DEF t
<1>9. e.type # "run_failed" =>
        /\ t.run = e.run
        /\ t.cycle = IF e.cycle = 0 THEN b.cycle ELSE e.cycle
        /\ t.seen = b.seen \cup DecidedBy(e)
        /\ t.final = Given(e.active, b.final)
  BY <1>3, <1>4, <1>6, <1>7, <1>8
<1>10. e.type \notin {"run_completed", "run_failed"} =>
         /\ t.epoch = IF e.type = "phase_evaluation_gate" THEN 0
                      ELSE IF e.epoch = 0 THEN b.epoch ELSE e.epoch
         /\ e.type \notin DOMAIN PhaseOf => t.phases = b.phases
         /\ e.type \in DOMAIN PhaseOf =>
              t.phases = {q \in b.phases : <<q.run, q.cycle>> # <<t.run, t.cycle>>}
                           \cup {[run |-> t.run, cycle |-> t.cycle, phase |-> PhaseOf[e.type]]}
  BY <1>3, <1>4, <1>6, <1>7, <1>8
<1>11. ASSUME e.type \notin {"run_completed", "run_failed"},
              NEW active \in Versions \ {NoVersions},
              active = IF e.type \in DecisionEvents
                       THEN [role \in Roles |-> IF e.status[role] = "promoted"
                                                THEN e.candidate ELSE b.active[role]]
                       ELSE Given(e.active, b.active),
              e.type \in DecisionEvents => e.active = NoVersions
       PROVE  t.active = active
  <2>1. Given(e.active, p.active) = active
    <3>1. CASE e.type \in DecisionEvents
      <4>1. p.active \in Versions
        BY <1>6 DEF States
      <4>2. p.active = active
        BY <1>3, <1>4, <1>6, <1>11, <3>1, <4>1 DEF Versions
      <4>3. Given(NoVersions, p.active) = p.active
        BY <4>1 DEF Given, NoVersions, Versions
      <4> QED
        BY <1>11, <3>1, <4>2, <4>3
    <3>2. CASE e.type \notin DecisionEvents
      BY <1>3, <1>4, <1>6, <1>11, <3>2
    <3> QED
      BY <3>1, <3>2
  <2> QED
    BY <1>7, <1>8, <1>11, <2>1
<1>12. Counting(b) => Counting(t)
  BY <1>5, <1>6, <1>7, <1>8 DEF Counting
<1> QED
  BY <1>0, <1>1, <1>8, <1>9, <1>10, <1>11, <1>12 DEF b

-----------------------------------------------------------------------------
(* What a runner announces *)

(* Only runs announce anything but a failure. *)
Announcements == {e \in Events : e.type # "run_failed" => e.run \in Runs}

(* The event a runner pushes. *)
LEMMA EventOfIs ==
  ASSUME NEW r \in Runs, runner[r] \in Runners, runner[r].step \in Pushing
  PROVE  LET p == runner[r]
             e == EventOf(r)
         IN /\ e \in Announcements
            /\ e.type = p.step /\ e.run = r /\ e.cycle = p.cycle
            /\ e.epoch = IF p.step = "epoch_completed" THEN p.epoch ELSE 0
            /\ p.step \in DecisionEvents => e.status = p.status
            /\ e.active = IF p.step \in {"run_started", "cycle_started",
                                         "training_manifest_ready", "run_completed"}
                          THEN p.runtime ELSE NoVersions
            /\ p.step # "run_started" => e.candidate = p.cycle
<1> DEFINE p == runner[r]
           first == Event(p.step, r, p.cycle)
           cycle == [first EXCEPT !.candidate = p.cycle]
           initial == p.runtime["classification"]
<1>1. /\ p.cycle \in Cycles /\ p.epoch \in 0 .. Epochs /\ p.runtime \in Versions
      /\ p.status \in Verdicts /\ initial \in Cycles /\ r \in Senders /\ 0 \in 0 .. Epochs
      /\ NoVersions \in Versions /\ NoStatuses \in Verdicts
  BY CyclesAreNumbers, CorrectionAssumption
  DEF Runners, Versions, Verdicts, NoVersions, NoStatuses, Roles
<1>2. p.step # "run_failed" /\ p.step \in Pushing
  BY DEF Pushing
<1> HIDE DEF p, initial
<1> DEFINE Same(e) == /\ e.type = p.step /\ e.run = r /\ e.cycle = p.cycle
<1>3. /\ first \in Announcements /\ Same(first)
      /\ first.epoch = 0 /\ first.active = NoVersions /\ first.status = NoStatuses
  BY <1>1, <1>2 DEF Event, Announcements, Events
<1> HIDE DEF first
<1>4. /\ cycle \in Announcements /\ Same(cycle) /\ cycle.candidate = p.cycle
      /\ cycle.epoch = 0 /\ cycle.active = NoVersions /\ cycle.status = NoStatuses
  BY <1>1, <1>3 DEF Announcements, Events
<1> DEFINE e == EventOf(r)
<1> HIDE DEF cycle
<1>5. CASE p.step = "run_started"
  <2>1. e = [first EXCEPT !.initial = initial, !.active = p.runtime]
    BY <1>5 DEF EventOf, p, first, cycle, initial, DecisionEvents
  <2> HIDE DEF e
  <2>2. e \in Announcements /\ Same(e)
    BY <1>1, <1>3, <2>1 DEF Announcements, Events
  <2>3. e.epoch = 0 /\ e.active = p.runtime
    BY <1>3, <2>1 DEF Announcements, Events
  <2> QED
    BY <1>5, <2>2, <2>3 DEF e, p, DecisionEvents
<1>6. CASE p.step \in {"cycle_started", "training_manifest_ready"}
  <2>1. e = [cycle EXCEPT !.initial = initial, !.active = p.runtime]
    BY <1>6 DEF EventOf, p, first, cycle, initial, DecisionEvents
  <2> HIDE DEF e
  <2>2. e \in Announcements /\ Same(e)
    BY <1>1, <1>4, <2>1 DEF Announcements, Events
  <2>3. e.epoch = 0 /\ e.active = p.runtime /\ e.candidate = p.cycle
    BY <1>4, <2>1 DEF Announcements, Events
  <2> QED
    BY <1>6, <2>2, <2>3 DEF e, p, DecisionEvents
<1>7. CASE p.step = "epoch_completed"
  <2>1. e = [cycle EXCEPT !.initial = initial, !.epoch = p.epoch]
    BY <1>7 DEF EventOf, p, first, cycle, initial, DecisionEvents
  <2> HIDE DEF e
  <2>2. e \in Announcements /\ Same(e)
    BY <1>1, <1>4, <2>1 DEF Announcements, Events
  <2>3. e.epoch = p.epoch /\ e.active = NoVersions /\ e.candidate = p.cycle
    BY <1>4, <2>1 DEF Announcements, Events
  <2> QED
    BY <1>7, <2>2, <2>3 DEF e, p, DecisionEvents
<1>8. CASE p.step \in DecisionEvents
  <2>1. e = [cycle EXCEPT !.initial = initial, !.status = p.status]
    BY <1>8 DEF EventOf, p, first, cycle, initial, DecisionEvents
  <2> HIDE DEF e
  <2>2. e \in Announcements /\ Same(e)
    BY <1>1, <1>4, <2>1 DEF Announcements, Events
  <2>3. /\ e.epoch = 0 /\ e.active = NoVersions /\ e.candidate = p.cycle
        /\ e.status = p.status
    BY <1>4, <2>1 DEF Announcements, Events
  <2> QED
    BY <1>8, <2>2, <2>3 DEF e, p, DecisionEvents
<1>9. CASE p.step = "run_completed"
  <2>1. e = [cycle EXCEPT !.active = p.runtime, !.status = p.status]
    BY <1>9 DEF EventOf, p, first, cycle, initial, DecisionEvents
  <2> HIDE DEF e
  <2>2. e \in Announcements /\ Same(e)
    BY <1>1, <1>4, <2>1 DEF Announcements, Events
  <2>3. e.epoch = 0 /\ e.active = p.runtime /\ e.candidate = p.cycle
    BY <1>4, <2>1 DEF Announcements, Events
  <2> QED
    BY <1>9, <2>2, <2>3 DEF e, p, DecisionEvents
<1>10. CASE p.step \in {"phase_training", "phase_evaluation_gate", "phase_promotion"}
  <2>1. e = cycle
    BY <1>10 DEF EventOf, p, first, cycle, DecisionEvents
  <2> QED
    BY <1>4, <1>10, <2>1 DEF e, p, DecisionEvents
<1> QED
  BY <1>2, <1>5, <1>6, <1>7, <1>8, <1>9, <1>10 DEF Pushing, DecisionEvents

(* A failure is announced by a run or under another name. *)
LEMMA FailureIs ==
  ASSUME NEW sender \in Senders
  PROVE  LET e == Event("run_failed", sender, 0)
         IN e \in Announcements /\ e.type = "run_failed" /\ e.run = sender
<1>1. 0 \in Cycles /\ 0 \in 0 .. Epochs
  BY CyclesAreNumbers, CorrectionAssumption
<1>2. NoVersions \in Versions /\ NoStatuses \in Verdicts
  BY DEF NoVersions, NoStatuses, Versions, Verdicts
<1> QED
  BY <1>1, <1>2 DEF Event, Announcements, Events

-----------------------------------------------------------------------------
(* The threads of slow events *)

(* The steps at which a thread deals with decisions. *)
Deciding == {"testing", "marking", "counting"}

Handlers ==
  {h \in [event : Announcements, step : HandlerSteps, uncounted : SUBSET Decisions] :
     /\ h.uncounted \subseteq DecidedBy(h.event)
     /\ h.step \in Deciding => h.event.type \in DecisionEvents}

(* A slow event as it begins. *)
LEMMA BeginsIs ==
  ASSUME NEW e \in Announcements
  PROVE  LET h == [event |-> e, step |-> FirstStep(e), uncounted |-> {}]
         IN h \in Handlers /\ ~UnderWay(h) /\ h.event = e
                /\ h.step \notin {"clearing", "marking", "counting"}
BY DEF Handlers, FirstStep, UnderWay, HandlerSteps, Deciding

(* What a step does to the state of the API: the fields that are about decisions. *)
LEMMA StepIs ==
  ASSUME NEW s \in States, NEW h \in Handlers
  PROVE  LET e == h.event
             t == StepOf(s, e, h.step, h.uncounted)
         IN /\ t \in States
            /\ t.seen = CASE h.step = "emptying" -> {}
                          [] h.step = "marking"  -> s.seen \cup Decided(e)
                          [] OTHER               -> s.seen
            /\ h.step = "clearing" => t.counters = CountersOf({})
            /\ h.step \notin {"clearing", "counting"} => t.counters = s.counters
            /\ h.step = "counting" =>
                 \A old : IsFiniteSet(old) /\ s.counters = CountersOf(old) /\ h.uncounted \cap old = {}
                           => t.counters = CountersOf(old \cup h.uncounted)
<1> DEFINE e == h.event
           t == StepOf(s, e, h.step, h.uncounted)
<1>1. e \in Events /\ e.run \in Senders /\ h.step \in HandlerSteps
  BY DEF Handlers, Announcements, Events
<1>2. h.step \in Deciding => h.uncounted \in SUBSET Decided(e)
  BY DEF Handlers, DecidedBy
<1> HIDE DEF e
<1>3. CASE h.step = "emptying"
  <2>1. t = Emptied(s)
    BY <1>3 DEF StepOf
  <2> QED
    BY <1>3, <2>1, ResetIs DEF e
<1>4. CASE h.step = "clearing"
  <2>1. t = Cleared(s)
    BY <1>4 DEF StepOf
  <2> QED
    BY <1>4, <2>1, ResetIs, EmptyIsState DEF e
<1>5. CASE h.step = "labelling"
  <2> DEFINE l == WithLabels(s, e)
  <2>1. t = WithPhase(l, e)
    BY <1>5 DEF StepOf
  <2>2. l \in States /\ l.run = e.run /\ l.seen = s.seen /\ l.counters = s.counters
    BY <1>1, LabelsStep
  <2> HIDE DEF l
  <2>3. t \in States /\ t.seen = s.seen /\ t.counters = s.counters
    BY <1>1, <2>1, <2>2, PhaseStep
  <2> QED
    BY <1>5, <2>3 DEF e
<1>6. CASE h.step = "marking"
  <2>1. t = Marked(s, e)
    BY <1>6 DEF StepOf
  <2> QED
    BY <1>1, <1>6, <2>1, MarkedIs DEF e
<1>7. CASE h.step = "counting"
  <2>1. t = Counted(s, e, h.uncounted)
    BY <1>7 DEF StepOf
  <2>2. /\ t \in States /\ t.seen = s.seen
        /\ \A old : IsFiniteSet(old) /\ s.counters = CountersOf(old) /\ h.uncounted \cap old = {}
                     => t.counters = CountersOf(old \cup h.uncounted)
    BY <1>1, <1>2, <1>7, <2>1, CountedIs DEF Deciding
  <2> QED
    BY <1>7, <2>2 DEF e
<1>8. CASE h.step = "modelling"
  <2>1. t = WithModels(s, e)
    BY <1>8 DEF StepOf
  <2>2. t \in States /\ t.seen = s.seen /\ t.counters = s.counters
    BY <1>1, <2>1, ModelsStep
  <2> QED
    BY <1>8, <2>2 DEF e
<1>9. CASE h.step = "ending"
  <2>1. t = [s EXCEPT !.epoch = 0, !.active = NoVersions, !.phases = {}]
    BY <1>9 DEF StepOf, WithoutProgress
  <2>2. NoVersions \in Versions /\ 0 \in 0 .. Epochs
    BY CorrectionAssumption DEF NoVersions, Versions
  <2>3. t \in States /\ t.seen = s.seen /\ t.counters = s.counters
    BY <2>1, <2>2 DEF States
  <2> QED
    BY <1>9, <2>3 DEF e
<1>10. CASE h.step = "testing"
  <2>1. t = s
    BY <1>10 DEF StepOf
  <2> QED
    BY <1>10, <2>1 DEF e
<1> QED
  BY <1>1, <1>3, <1>4, <1>5, <1>6, <1>7, <1>8, <1>9, <1>10 DEF HandlerSteps

(* The next step of a handler. *)
After(h) == [h EXCEPT !.step = NextStep(h.event, h.step),
                      !.uncounted = IF h.step = "testing" THEN Uncounted(shown, h.event) ELSE @]

LEMMA AfterIs ==
  ASSUME NEW h \in Handlers
  PROVE  LET next == After(h)
         IN /\ next.step = "over" \/ next \in Handlers
            /\ next.event = h.event
            /\ next.uncounted = IF h.step = "testing" THEN Decided(h.event) \ shown.seen
                               ELSE h.uncounted
            /\ next.step = "clearing" <=> h.step = "emptying"
            /\ next.step = "marking" <=> h.step = "testing"
            /\ next.step = "counting" <=> h.step = "marking"
<1> DEFINE next == After(h)
           e == h.event
           step == NextStep(e, h.step)
           uncounted == IF h.step = "testing" THEN Decided(e) \ shown.seen ELSE h.uncounted
<1>1. /\ h \in [event : Announcements, step : HandlerSteps, uncounted : SUBSET Decisions]
      /\ h.uncounted \subseteq DecidedBy(e) /\ e \in Events
      /\ h.step \in Deciding => e.type \in DecisionEvents
  BY DEF Handlers, Announcements
<1>2. next = [h EXCEPT !.step = step, !.uncounted = uncounted]
  BY DEF After, Uncounted
<1>3. /\ step \in HandlerSteps \cup {"over"}
      /\ step \in Deciding => h.step \in Deciding \/ e.type \in DecisionEvents
      /\ step = "clearing" <=> h.step = "emptying"
      /\ step = "marking" <=> h.step = "testing"
      /\ step = "counting" <=> h.step = "marking"
  BY <1>1 DEF NextStep, HandlerSteps, Deciding
<1>4. uncounted \subseteq DecidedBy(e) /\ uncounted \in SUBSET Decisions
  BY <1>1, DecidedIs DEF DecidedBy, Deciding
<1> HIDE DEF next, step, uncounted
<1>5. next.step = step /\ next.uncounted = uncounted /\ next.event = e
  BY <1>1, <1>2
<1>6. step \in HandlerSteps =>
        next \in [event : Announcements, step : HandlerSteps, uncounted : SUBSET Decisions]
  BY <1>1, <1>2, <1>4
<1>7. step \in HandlerSteps => next \in Handlers
  BY <1>1, <1>3, <1>4, <1>5, <1>6 DEF Handlers
<1> QED
  BY <1>3, <1>5, <1>7 DEF next, uncounted

(* What happens to the API and to its threads when one takes a step. *)
LEMMA HandleLateIs ==
  ASSUME HandleLate
  PROVE  \E h \in late :
           /\ shown' = StepOf(shown, h.event, h.step, h.uncounted)
           /\ late' = (late \ {h}) \cup (IF After(h).step = "over" THEN {} ELSE {After(h)})
           /\ heard' = None
           /\ overlapped' = (overlapped \/ \E g \in late \ {h} : UnderWay(g))
           /\ UNCHANGED <<obs, dag, runner, gpu, driftVars, faults>>
BY DEF HandleLate, After

-----------------------------------------------------------------------------
(* The types *)

(* Steps of a runner that has compared the candidates of its cycle. *)
Judging == {"phase_promotion", "gate_decision", "activating", "promotion_decision"}

DriftEvents == [index : Nat, status : DriftStatuses, trigger : BOOLEAN]

ObservationInv ==
  /\ obs \in Observing /\ obs.count <= Len(obs.windows)
  /\ drift \in {None} \cup DriftEvents /\ lateDrift \subseteq DriftEvents

RunnersInv ==
  /\ runner \in [Runs -> Runners]
  /\ \A r \in Runs :
       /\ runner[r].cycle \in 0 .. MaxCycles[r]
       /\ runner[r].step \in Judging =>
            /\ runner[r].status \in [Roles -> Statuses]
            /\ DualPromotion[r] \/ runner[r].status = Simulated

ApiInv ==
  /\ shown \in States
  /\ late \subseteq Handlers
  /\ heard \in Runs \cup {None} /\ overlapped \in BOOLEAN
  /\ faults \in 0 .. MaxFaults

TasksInv ==
  /\ dag \in {"none", "queued", "running", "failing", "success", "failed"}
  /\ gpu \in Runs \cup {"demo", None}

TypeInv == ObservationInv /\ RunnersInv /\ ApiInv /\ TasksInv

(* A fault is counted within its bound. *)
LEMMA FaultCounted ==
  ASSUME faults \in 0 .. MaxFaults, Fault
  PROVE  faults' \in 0 .. MaxFaults
BY CorrectionAssumption DEF Fault

(* What a push leaves of the state of the API. *)
LEMMA PushTyped ==
  ASSUME ApiInv, NEW e \in Announcements, Push(e)
  PROVE  ApiInv'
<1>1. e \in Events
  BY DEF Announcements
<1>2. CASE Applied(e)
  <2>1. shown' \in States
    BY <1>1, <1>2, RecordedIs DEF Applied, ApiInv
  <2>2. heard' \in Runs \cup {None}
    BY <1>2 DEF Applied, HeardAfter, ApiInv, Announcements
  <2>3. overlapped' \in BOOLEAN
    BY <1>2 DEF Applied, ApiInv
  <2> QED
    BY <1>2, <2>1, <2>2, <2>3 DEF Applied, ApiInv
<1>3. CASE Lost(e)
  BY <1>3, FaultCounted DEF Lost, ApiInv
<1>4. CASE Slow(e)
  <2>1. late' \subseteq Handlers
    BY <1>4, BeginsIs DEF Slow, ApiInv
  <2> QED
    BY <1>4, <2>1, FaultCounted DEF Slow, ApiInv
<1> QED
  BY <1>2, <1>3, <1>4 DEF Push

(* The rows a command line selects are counted. *)
LEMMA RowsTyped ==
  ASSUME NEW a \in ObservationArgs
  PROVE  Replayed(a) \in [stable : Int, total : Int]
<1>1. \A i, j \in Int : Least(i, j) \in Int
  BY DEF Least
<1>2. a.stable_reference_events \in Int /\ a.windows \in Int /\ a.max_events \in Int
  BY CorrectionAssumption
<1>3. StableRows \in Int /\ P4Rows \in Int /\ WindowSize \in Int
  BY WindowsAssumption
<1>4. MixedP4 \in Int
  BY <1>3 DEF MixedP4
<1>5. WindowSize * (a.windows - 1) \in Int /\ a.windows * WindowSize \in Int
  BY <1>2, <1>3
<1> HIDE DEF Least, MixedP4
<1>6. Selected(a) \in [stable : Int, p4 : Int]
  <2> DEFINE reference == Least(a.stable_reference_events, StableRows)
             mixed == Least(WindowSize - MixedP4, StableRows - reference)
             rest == Least(WindowSize * (a.windows - 1), P4Rows - Least(MixedP4, P4Rows))
             few == Least(a.windows * WindowSize, P4Rows)
  <2>1. reference \in Int
    BY <1>1, <1>2, <1>3
  <2>2. mixed \in Int
    BY <1>1, <1>3, <1>4, <2>1
  <2>3. Least(MixedP4, P4Rows) \in Int
    BY <1>1, <1>3, <1>4
  <2>4. rest \in Int
    <3>1. P4Rows - Least(MixedP4, P4Rows) \in Int
      BY <1>3, <2>3
    <3> QED
      BY <1>1, <1>5, <3>1
  <2>5. few \in Int
    BY <1>1, <1>3, <1>5
  <2>6. Selected(a) =
          CASE a.stable_reference_events = 0 /\ a.windows = 0 -> [stable |-> StableRows, p4 |-> P4Rows]
            [] a.stable_reference_events # 0 /\ a.windows = 0 -> [stable |-> reference, p4 |-> P4Rows]
            [] a.windows >= 2 -> [stable |-> reference + mixed, p4 |-> Least(MixedP4, P4Rows) + rest]
            [] OTHER -> [stable |-> reference, p4 |-> few]
    BY DEF Selected
  <2> HIDE DEF reference, mixed, rest, few
  <2>7. reference + mixed \in Int /\ Least(MixedP4, P4Rows) + rest \in Int
    BY <2>1, <2>2, <2>3, <2>4
  <2> QED
    BY <1>3, <2>1, <2>5, <2>6, <2>7
<1> DEFINE both == Selected(a).stable + Selected(a).p4
           total == IF a.max_events = 0 THEN both ELSE Least(a.max_events, both)
<1>7. Selected(a).stable \in Int /\ both \in Int
  BY <1>6
<1>8. total \in Int
  BY <1>1, <1>2, <1>7
<1>9. Least(Selected(a).stable, total) \in Int
  BY <1>1, <1>7, <1>8
<1>10. Replayed(a) = [stable |-> Least(Selected(a).stable, total), total |-> total]
  BY DEF Replayed
<1> HIDE DEF total
<1> QED
  BY <1>8, <1>9, <1>10

(* A complete window has WindowSize events. *)
LEMMA WindowTyped ==
  ASSUME obs \in Observing, WindowIsComplete
  PROVE  P4Of(obs.rows, NextWindow) \in 0 .. WindowSize /\ NextWindow \in Nat
<1> DEFINE k == NextWindow
           total == obs.rows.total
           before == (k - 1) * WindowSize
           stable == obs.rows.stable - before
<1>1. k \in Nat /\ total \in Int /\ obs.rows.stable \in Int
  BY LenProperties DEF Observing, NextWindow
<1>2. WindowSize \in Nat
  BY WindowsAssumption
<1>3. k * WindowSize <= total
  BY DEF WindowIsComplete
<1> HIDE DEF k, total
<1>4. before \in Int /\ before + WindowSize = k * WindowSize /\ k * WindowSize \in Int
  BY <1>1, <1>2
<1>5. stable \in Int
  BY <1>1, <1>4
<1> HIDE DEF before
<1>6. WindowSize <= total - before
  BY <1>1, <1>2, <1>3, <1>4
<1>7. EventsOf(obs.rows, k) = WindowSize
  BY <1>2, <1>6 DEF EventsOf, Least, total, before
<1>8. P4Of(obs.rows, k) = WindowSize - (IF stable <= 0 THEN 0 ELSE Least(stable, WindowSize))
  BY <1>7 DEF P4Of, before, k
<1> HIDE DEF stable
<1>9. P4Of(obs.rows, k) \in 0 .. WindowSize
  BY <1>2, <1>5, <1>8 DEF Least
<1> QED
  BY <1>1, <1>9 DEF k

-----------------------------------------------------------------------------
(* The observation *)

(* What drives the observation and what the API shows of it. *)
ObservationStep ==
  \/ StartObservation \/ FinalizeWindow \/ FinishObservation \/ FailObservation
  \/ GateOnConfirmedDrift \/ DriftGoesStale \/ RestartApi \/ ApplyLateDrift

(* Nothing else touches either. *)
LEMMA ObservationKept ==
  ASSUME [Next]_vars
  PROVE  ObservationStep \/ UNCHANGED <<obs, drift, lateDrift>>
<1>1. CASE \E r \in Runs : PushStep(r) \/ Replay(r) \/ Compare(r) \/ Activate(r) \/ Release(r)
                           \/ Raise(r) \/ PushFailure(r)
  BY <1>1 DEF PushStep, Replay, Compare, Activate, Release, Raise, PushFailure, driftVars
<1>2. CASE StartDemo \/ StopDemo \/ AcquireGpu \/ StartManualRun \/ KillManualRun
  BY <1>2 DEF StartDemo, StopDemo, AcquireGpu, StartManualRun, KillManualRun, driftVars
<1>3. CASE StartTask \/ TimeOut \/ FailureCallback \/ HandleLate
  BY <1>3 DEF StartTask, TimeOut, FailureCallback, HandleLate, driftVars
<1>4. CASE UNCHANGED vars
  BY <1>4 DEF vars
<1> QED
  BY <1>1, <1>2, <1>3, <1>4, Zenon DEF Next, ObservationStep

(* The API shows a confirmed drift, or a trigger, or will yet. *)
Confirms(d) == d # None /\ (d.trigger \/ d.status = "confirmed")

DriftIsTold == \E d \in {drift} \cup lateDrift : Confirms(d)

(* While an observation runs: its novel windows have a reference before them; until drift is  *)
(* confirmed the windows counted, the last ones, are strong; and there is evidence of what is *)
(* confirmed or told.                                                                         *)
EvidenceInv ==
  /\ obs.step = "idle" => drift = None /\ lateDrift = {}
  /\ obs.step = "observing" =>
       /\ \A k \in 1 .. Len(obs.windows) :
            obs.windows[k].novel => \E j \in 1 .. k - 1 : obs.windows[j].p4 < obs.windows[j].events
       /\ ~obs.confirmed =>
            \A j \in Len(obs.windows) - obs.count + 1 .. Len(obs.windows) : Strong(obs.windows[j])
       /\ obs.confirmed \/ DriftIsTold => Evidence(obs.windows)

(* Evidence is not lost when a window is appended. *)
LEMMA EvidenceKept ==
  ASSUME NEW ws \in Seq(Window), NEW w \in Window, Evidence(ws)
  PROVE  Evidence(Append(ws, w))
<1> DEFINE more == Append(ws, w)
<1>1. Len(more) = Len(ws) + 1 /\ Len(ws) \in Nat /\ \A k \in 1 .. Len(ws) : more[k] = ws[k]
  BY AppendProperties, LenProperties
<1> HIDE DEF more
<1>2. CASE \E k \in 1 .. Len(ws) : NovelAmong(ws, k)
  <2>1. PICK k \in 1 .. Len(ws) : NovelAmong(ws, k)
    BY <1>2
  <2>2. k \in 1 .. Len(more) /\ NovelAmong(more, k)
    BY <1>1, <2>1 DEF NovelAmong
  <2> QED
    BY <2>2 DEF Evidence, more
<1>3. CASE \E k \in ConfirmWindows .. Len(ws) :
             \A j \in k - ConfirmWindows + 1 .. k : Strong(ws[j])
  <2>1. PICK k \in ConfirmWindows .. Len(ws) :
               \A j \in k - ConfirmWindows + 1 .. k : Strong(ws[j])
    BY <1>3
  <2>2. \A j \in k - ConfirmWindows + 1 .. k : j \in 1 .. Len(ws)
    BY <1>1, WindowsAssumption
  <2>3. k \in ConfirmWindows .. Len(more)
    BY <1>1, <2>1, WindowsAssumption
  <2>4. \A j \in k - ConfirmWindows + 1 .. k : Strong(more[j])
    BY <1>1, <2>1, <2>2
  <2> QED
    BY <2>3, <2>4 DEF Evidence, more
<1> QED
  BY <1>2, <1>3 DEF Evidence

(* How a window is judged. *)
LEMMA WindowJudged ==
  ASSUME NEW w \in Window, NEW count \in Nat, NEW confirmed \in BOOLEAN
  PROVE  LET eval == Judged(w, count, confirmed)
         IN /\ eval.count \in {0, count + 1} /\ eval.confirmed \in BOOLEAN
            /\ DriftStatus(eval) \in DriftStatuses
            /\ DriftStatus(eval) = "confirmed" <=> eval.confirmed
            /\ confirmed => eval.confirmed
            /\ ~eval.confirmed /\ eval.count # 0 => Strong(w)
            /\ ~confirmed /\ eval.confirmed =>
                 (w.novel /\ w.p4 = w.events) \/ (Strong(w) /\ count + 1 >= ConfirmWindows)
<1>1. /\ w.events = WindowSize /\ w.p4 \in 0 .. WindowSize
      /\ w.degraded \in BOOLEAN /\ w.novel \in BOOLEAN /\ WindowSize \in Nat
  BY WindowsAssumption DEF Window
<1>2. Share(w, 80) <=> 100 * w.p4 >= 80 * w.events
  BY DEF Share
<1>3. RoiCritical(w) => w.novel /\ w.p4 = w.events /\ Share(w, 80)
  BY <1>1 DEF RoiCritical, Share
<1>4. LegacyCritical(w) => w.degraded
  BY DEF LegacyCritical
<1> DEFINE next == IF RoiCritical(w) \/ LegacyCritical(w) THEN count + 1 ELSE 0
           suspected == w.events >= MinWindowEvents /\ (w.novel \/ Share(w, 40))
           sure == \/ confirmed \/ RoiCritical(w)
                   \/ LegacyCritical(w) /\ next >= ConfirmWindows
           evaluated == [count |-> next, suspected |-> suspected, confirmed |-> sure]
<1>5. Evaluated(w, count, confirmed) = evaluated
  BY DEF Evaluated
<1>6. next \in {0, count + 1} /\ sure \in BOOLEAN
  BY <1>1 DEF RoiCritical, LegacyCritical
<1>7. 0 >= ConfirmWindows <=> FALSE
  BY WindowsAssumption
<1>8. sure /\ ~confirmed =>
        (w.novel /\ w.p4 = w.events) \/ (w.degraded /\ count + 1 >= ConfirmWindows)
  BY <1>3, <1>4, <1>7
<1>9. ~sure /\ next # 0 => w.degraded
  BY <1>4
<1> HIDE DEF next, suspected, sure
<1> DEFINE eval == Judged(w, count, confirmed)
<1>10. CASE ~Share(w, 80) /\ ~confirmed
  <2>1. eval = [evaluated EXCEPT !.count = 0, !.confirmed = FALSE]
    BY <1>5, <1>10 DEF Judged
  <2>2. eval.count = 0 /\ eval.confirmed = FALSE
    BY <2>1
  <2> QED
    BY <1>10, <2>2 DEF DriftStatus, DriftStatuses
<1>11. CASE Share(w, 80) \/ confirmed
  <2>1. eval = evaluated
    BY <1>5, <1>11 DEF Judged
  <2>2. eval.count = next /\ eval.confirmed = sure
    BY <2>1
  <2>3. confirmed => sure
    BY DEF sure
  <2>4. DriftStatus(eval) \in DriftStatuses /\ (DriftStatus(eval) = "confirmed" <=> sure)
    BY <1>6, <2>2 DEF DriftStatus, DriftStatuses
  <2> QED
    BY <1>2, <1>6, <1>8, <1>9, <1>11, <2>2, <2>3, <2>4 DEF Strong
<1> QED
  BY <1>10, <1>11

(* A window that is judged, appended and pushed keeps what is said of the observation. *)
LEMMA WindowSteps ==
  ASSUME ObservationInv, EvidenceInv, FinalizeWindow
  PROVE  ObservationInv' /\ EvidenceInv'
<1> DEFINE W(degraded, novel) == [events |-> WindowSize, p4 |-> P4Of(obs.rows, NextWindow),
                                  degraded |-> degraded, novel |-> novel]
<1>1. PICK degraded, novel \in BOOLEAN :
        LET w == W(degraded, novel)
            eval == Judged(w, obs.count, obs.confirmed)
        IN /\ novel => HasReference
           /\ obs' = [obs EXCEPT !.windows = Append(@, w), !.count = eval.count,
                                 !.confirmed = eval.confirmed]
           /\ PushDrift([index |-> NextWindow, status |-> DriftStatus(eval),
                         trigger |-> eval.confirmed])
  BY DEF FinalizeWindow
<1> DEFINE w == W(degraded, novel)
           ws == obs.windows
           more == Append(ws, w)
           n == Len(ws)
           eval == Judged(w, obs.count, obs.confirmed)
<1>2. obs \in Observing /\ obs.step = "observing" /\ WindowIsComplete
  BY DEF ObservationInv, FinalizeWindow
<1>3. w \in Window
  BY <1>2, WindowTyped DEF Window
<1>4. w.novel = novel
  OBVIOUS
<1>5. ws \in Seq(Window) /\ obs.count \in Nat /\ obs.confirmed \in BOOLEAN
  BY <1>2 DEF Observing
<1> HIDE DEF w
<1>6. /\ more \in Seq(Window) /\ Len(more) = n + 1 /\ n \in Nat /\ more[n + 1] = w
      /\ \A k \in 1 .. n : more[k] = ws[k]
  BY <1>3, <1>5, AppendProperties, LenProperties
<1>7. /\ eval.count \in {0, obs.count + 1} /\ eval.confirmed \in BOOLEAN
      /\ DriftStatus(eval) \in DriftStatuses
      /\ DriftStatus(eval) = "confirmed" <=> eval.confirmed
      /\ obs.confirmed => eval.confirmed
      /\ ~eval.confirmed /\ eval.count # 0 => Strong(w)
      /\ ~obs.confirmed /\ eval.confirmed =>
           (w.novel /\ w.p4 = w.events) \/ (Strong(w) /\ obs.count + 1 >= ConfirmWindows)
  BY <1>3, <1>5, WindowJudged
<1> HIDE DEF eval
<1>8. /\ obs' = [obs EXCEPT !.windows = more, !.count = eval.count, !.confirmed = eval.confirmed]
      /\ novel => HasReference
      /\ PushDrift([index |-> NextWindow, status |-> DriftStatus(eval), trigger |-> eval.confirmed])
  BY <1>1 DEF w, eval
<1> HIDE DEF more
<1>9. eval.count \in Nat /\ eval.count <= n + 1
  BY <1>5, <1>6, <1>7 DEF ObservationInv
<1>10. /\ obs' \in Observing /\ obs'.windows = more /\ obs'.count = eval.count
       /\ obs'.confirmed = eval.confirmed /\ obs'.step = "observing"
  BY <1>2, <1>6, <1>7, <1>8, <1>9 DEF Observing
<1> DEFINE told == [index |-> NextWindow, status |-> DriftStatus(eval), trigger |-> eval.confirmed]
<1>11. drift' \in {drift, told} /\ lateDrift' \subseteq lateDrift \cup {told}
  BY <1>8 DEF PushDrift, DriftRecorded, driftVars
<1>12. drift' \in {None} \cup DriftEvents /\ lateDrift' \subseteq DriftEvents
  <2>1. told \in DriftEvents
    BY <1>2, <1>7, WindowTyped DEF DriftEvents
  <2> HIDE DEF told
  <2> QED
    BY <1>11, <2>1 DEF ObservationInv
<1>13. ObservationInv'
  BY <1>6, <1>9, <1>10, <1>12 DEF ObservationInv
<1>14. ASSUME NEW k \in 1 .. Len(more), more[k].novel
       PROVE  \E j \in 1 .. k - 1 : more[j].p4 < more[j].events
  <2>1. CASE k = n + 1
    <3>1. HasReference
      BY <1>4, <1>6, <1>8, <1>14, <2>1
    <3>2. PICK j \in 1 .. n : ws[j].p4 < ws[j].events
      BY <3>1 DEF HasReference
    <3> QED
      BY <1>6, <2>1, <3>2
  <2>2. CASE k \in 1 .. n
    <3>1. PICK j \in 1 .. k - 1 : ws[j].p4 < ws[j].events
      BY <1>2, <1>6, <1>14, <2>2 DEF EvidenceInv
    <3>2. j \in 1 .. n
      BY <1>6, <2>2, <3>1
    <3> QED
      BY <1>6, <3>1, <3>2
  <2> QED
    BY <1>6, <2>1, <2>2
<1>15. ASSUME ~obs.confirmed, NEW j \in n - obs.count + 1 .. n
       PROVE  Strong(ws[j]) /\ j \in 1 .. n
  <2>1. j \in 1 .. n
    BY <1>5, <1>6, <1>15 DEF ObservationInv
  <2> QED
    BY <1>2, <1>15, <2>1 DEF EvidenceInv
<1>16. ASSUME ~eval.confirmed, NEW j \in Len(more) - eval.count + 1 .. Len(more)
       PROVE  Strong(more[j])
  <2>1. eval.count = obs.count + 1 /\ ~obs.confirmed
    BY <1>5, <1>6, <1>7, <1>16
  <2>2. Strong(w)
    BY <1>5, <1>7, <1>16, <2>1
  <2>3. CASE j = n + 1
    BY <1>6, <2>2, <2>3
  <2>4. CASE j # n + 1
    <3>1. j \in n - obs.count + 1 .. n
      BY <1>5, <1>6, <1>16, <2>1, <2>4, SMTT(30)
    <3> QED
      BY <1>6, <1>15, <2>1, <3>1
  <2> QED
    BY <2>3, <2>4
<1>17. ASSUME eval.confirmed
       PROVE  Evidence(more)
  <2>1. CASE obs.confirmed
    BY <1>2, <1>3, <1>5, <2>1, EvidenceKept DEF EvidenceInv, more
  <2>2. CASE ~obs.confirmed /\ w.novel /\ w.p4 = w.events
    <3>1. PICK j \in 1 .. n : ws[j].p4 < ws[j].events
      BY <1>4, <1>8, <2>2 DEF HasReference
    <3>2. \E i \in 1 .. (n + 1) - 1 : more[i].p4 < more[i].events
      BY <1>6, <3>1
    <3>3. NovelAmong(more, n + 1) /\ n + 1 \in 1 .. Len(more)
      BY <1>6, <2>2, <3>2 DEF NovelAmong
    <3> QED
      BY <3>3 DEF Evidence
  <2>3. CASE ~obs.confirmed /\ Strong(w) /\ obs.count + 1 >= ConfirmWindows
    <3>1. n + 1 \in ConfirmWindows .. Len(more)
      BY <1>5, <1>6, <2>3, WindowsAssumption DEF ObservationInv
    <3>2. ASSUME NEW j \in (n + 1) - ConfirmWindows + 1 .. n + 1
          PROVE  Strong(more[j])
      <4>1. CASE j = n + 1
        BY <1>6, <2>3, <4>1
      <4>2. CASE j # n + 1
        <5>1. j \in n - obs.count + 1 .. n
          BY <1>5, <1>6, <2>3, <3>2, <4>2, WindowsAssumption, SMTT(30)
        <5> QED
          BY <1>6, <1>15, <2>3, <5>1
      <4> QED
        BY <4>1, <4>2
    <3> QED
      BY <3>1, <3>2 DEF Evidence
  <2> QED
    BY <1>5, <1>7, <1>17, <2>1, <2>2, <2>3
<1>18. ASSUME NEW d \in {drift'} \cup lateDrift', Confirms(d)
       PROVE  Evidence(more)
  <2>1. CASE d \in {drift} \cup lateDrift
    <3>1. Evidence(ws)
      BY <1>2, <1>18, <2>1 DEF EvidenceInv, DriftIsTold
    <3> QED
      BY <1>3, <1>5, <3>1, EvidenceKept DEF more
  <2>2. CASE d = told
    <3>1. eval.confirmed
      BY <1>7, <1>18, <2>2 DEF Confirms
    <3> QED
      BY <1>17, <3>1
  <2> QED
    BY <1>11, <1>18, <2>1, <2>2
<1> HIDE DEF told
<1> QED
  BY <1>10, <1>13, <1>14, <1>16, <1>17, <1>18 DEF EvidenceInv, DriftIsTold

(* Every step keeps what is said of the observation. *)
LEMMA ObservationSteps ==
  ASSUME ObservationInv, EvidenceInv, [Next]_vars
  PROVE  ObservationInv' /\ EvidenceInv'
<1>1. CASE FinalizeWindow
  BY <1>1, WindowSteps
<1>2. NoObservation \in Observing /\ Len(NoObservation.windows) = 0
  BY EmptySeq DEF NoObservation, Observing
<1>3. CASE StartObservation
  <2>1. obs.step = "idle" /\ drift' = drift /\ lateDrift' = lateDrift
    BY <1>3 DEF StartObservation, driftVars
  <2>2. PICK a \in ObservationArgs :
          obs' = [NoObservation EXCEPT !.step = IF SelectionFails(a) THEN "failed" ELSE "observing",
                                       !.rows = Replayed(a)]
    BY <1>3 DEF StartObservation
  <2>3. /\ obs' \in Observing /\ obs'.step \in {"failed", "observing"} /\ obs'.windows = <<>>
        /\ obs'.count = 0 /\ obs'.confirmed = FALSE
    BY <1>2, <2>2, RowsTyped DEF NoObservation, Observing
  <2>4. Len(obs'.windows) = 0
    BY <2>3, EmptySeq
  <2>5. drift' = None /\ lateDrift' = {}
    BY <2>1 DEF EvidenceInv
  <2>6. ObservationInv'
    BY <2>3, <2>4, <2>5 DEF ObservationInv
  <2> QED
    BY <2>3, <2>4, <2>5, <2>6 DEF EvidenceInv, DriftIsTold, Confirms
<1>4. CASE FinishObservation \/ FailObservation
  <2>1. /\ obs' \in Observing /\ obs'.step \in {"summarised", "failed"}
        /\ obs'.windows = <<>> /\ obs'.count = 0
    <3>1. CASE FinishObservation
      <4>1. obs' = [NoObservation EXCEPT !.step = "summarised", !.confirmed = obs.confirmed]
        BY <3>1 DEF FinishObservation
      <4> QED
        BY <1>2, <4>1 DEF NoObservation, Observing, ObservationInv
    <3>2. CASE FailObservation
      <4>1. obs' = [NoObservation EXCEPT !.step = "failed"]
        BY <3>2 DEF FailObservation
      <4> QED
        BY <1>2, <4>1 DEF NoObservation, Observing
    <3> QED
      BY <1>4, <3>1, <3>2
  <2>2. drift' = drift /\ lateDrift' = lateDrift
    BY <1>4 DEF FinishObservation, FailObservation, driftVars
  <2> QED
    BY <2>1, <2>2, EmptySeq DEF ObservationInv, EvidenceInv
<1>5. CASE GateOnConfirmedDrift
  <2>1. obs' = [obs EXCEPT !.step = "done"] /\ drift' = drift /\ lateDrift' = lateDrift
    BY <1>5 DEF GateOnConfirmedDrift, driftVars
  <2>2. /\ obs' \in Observing /\ obs'.step = "done" /\ obs'.windows = obs.windows
        /\ obs'.count = obs.count
    BY <2>1 DEF ObservationInv, Observing
  <2> QED
    BY <2>1, <2>2 DEF ObservationInv, EvidenceInv
<1>6. CASE DriftGoesStale \/ RestartApi \/ ApplyLateDrift
  <2>1. obs' = obs /\ drift' \in {drift, None} \cup lateDrift /\ lateDrift' \subseteq lateDrift
    <3>1. \A e \in lateDrift : DriftRecorded(e) = e
      BY DEF ObservationInv, DriftEvents, DriftRecorded
    <3> QED
      BY <1>6, <3>1 DEF DriftGoesStale, RestartApi, ApplyLateDrift
  <2>2. obs.step = "idle" => drift' = None /\ lateDrift' = {}
    BY <1>6 DEF DriftGoesStale, RestartApi, ApplyLateDrift, EvidenceInv
  <2>3. ObservationInv'
    BY <2>1 DEF ObservationInv
  <2>4. DriftIsTold' => DriftIsTold
    BY <2>1 DEF DriftIsTold, Confirms
  <2> QED
    BY <2>1, <2>2, <2>3, <2>4 DEF EvidenceInv
<1>7. CASE UNCHANGED <<obs, drift, lateDrift>>
  BY <1>7 DEF ObservationInv, EvidenceInv, DriftIsTold
<1> QED
  BY <1>1, <1>3, <1>4, <1>5, <1>6, <1>7, ObservationKept DEF ObservationStep

-----------------------------------------------------------------------------
(* The runners *)

KeepsItsRecord(p, q) ==
  q.cycle = p.cycle /\ q.runtime = p.runtime /\ q.status = p.status /\ q.decisions = p.decisions

Follows(step) ==
  CASE step = "run_started" -> {"replaying"}
    [] step = "cycle_started" -> {"training_manifest_ready"}
    [] step = "training_manifest_ready" -> {"phase_training"}
    [] step = "phase_training" -> {"epoch_completed"}
    [] step = "epoch_completed" -> {"epoch_completed", "phase_evaluation_gate"}
    [] step = "phase_evaluation_gate" -> {"comparing"}
    [] step = "phase_promotion" -> {"gate_decision"}
    [] step = "gate_decision" -> {"activating"}
    [] step = "promotion_decision" -> {"replaying"}
    [] OTHER -> {"releasing"}

(* A runner p that pushes, replays, compares, activates, starts or ends becomes q. *)
Pushes(p, q) == p.step \in Pushing /\ q.step \in Follows(p.step) /\ KeepsItsRecord(p, q)

Replays(r, p, q) ==
  /\ p.step = "replaying"
  /\ \/ q.step = "cycle_started" /\ q.cycle = p.cycle + 1 /\ q.cycle <= MaxCycles[r]
     \/ q.step = "run_completed" /\ q.cycle = p.cycle
  /\ q.runtime = p.runtime /\ q.status = p.status /\ q.decisions = p.decisions

Compares(r, p, q) ==
  /\ p.step = "comparing" /\ q.step = "phase_promotion" /\ q.status \in [Roles -> Statuses]
  /\ DualPromotion[r] \/ q.status = Simulated
  /\ q.cycle = p.cycle /\ q.runtime = p.runtime /\ q.decisions = p.decisions

JudgementsOf(p) == {[cycle |-> p.cycle, role |-> role, status |-> p.status[role]] : role \in Roles}

Activates(r, p, q) ==
  /\ p.step = "activating" /\ q.step = "promotion_decision"
  /\ q.decisions = p.decisions \cup JudgementsOf(p)
  /\ q.runtime = RuntimeAfter(p) \/ (~DualPromotion[r] /\ p.status = Simulated)
  /\ q.cycle = p.cycle /\ q.status = p.status

Starts(p, q) == p.step = "new" /\ q.step \in {"run_started", "refused"} /\ KeepsItsRecord(p, q)

Ends(p, q) ==
  /\ KeepsItsRecord(p, q)
  /\ \/ p.step = "releasing" /\ q.step = "completed"
     \/ q.step \in {"raising", "failed", "killed"}

Moves(r, p, q) ==
  \/ Pushes(p, q) \/ Replays(r, p, q) \/ Compares(r, p, q) \/ Activates(r, p, q)
  \/ Starts(p, q) \/ Ends(p, q)

Only(r) == \A o \in Runs \ {r} : runner'[o] = runner[o]

(* What a push leaves of its runner. *)
LEMMA AfterPushIs ==
  ASSUME NEW p \in Runners, p.step \in Pushing
  PROVE  AfterPush(p) \in Runners /\ Pushes(p, AfterPush(p))
<1> DEFINE q == AfterPush(p)
<1>1. /\ p.epoch \in 0 .. Epochs /\ 0 \in 0 .. Epochs /\ 1 \in 0 .. Epochs
      /\ MoreEpochs(p) => p.epoch + 1 \in 0 .. Epochs
      /\ {"epoch_completed", "phase_evaluation_gate"} \subseteq Holding
  BY CorrectionAssumption DEF Runners, Holding, MoreEpochs
<1>2. CASE p.step = "phase_training"
  <2>1. q = [p EXCEPT !.step = "epoch_completed", !.epoch = 1]
    BY <1>2 DEF AfterPush
  <2> HIDE DEF q
  <2>2. q \in Runners /\ q.step = "epoch_completed" /\ KeepsItsRecord(p, q)
    BY <1>1, <2>1 DEF Runners, KeepsItsRecord
  <2> QED
    BY <1>2, <2>2 DEF Pushes, Follows, q
<1>3. CASE p.step = "epoch_completed" /\ MoreEpochs(p)
  <2>1. q = [p EXCEPT !.epoch = p.epoch + 1]
    BY <1>3 DEF AfterPush
  <2> HIDE DEF q
  <2>2. q \in Runners /\ q.step = "epoch_completed" /\ KeepsItsRecord(p, q)
    BY <1>1, <1>3, <2>1 DEF Runners, KeepsItsRecord
  <2> QED
    BY <1>3, <2>2 DEF Pushes, Follows, q
<1>4. CASE p.step = "epoch_completed" /\ ~MoreEpochs(p)
  <2>1. q = [p EXCEPT !.step = "phase_evaluation_gate", !.epoch = 0]
    BY <1>4 DEF AfterPush
  <2> HIDE DEF q
  <2>2. q \in Runners /\ q.step = "phase_evaluation_gate" /\ KeepsItsRecord(p, q)
    BY <1>1, <2>1 DEF Runners, KeepsItsRecord
  <2> QED
    BY <1>4, <2>2 DEF Pushes, Follows, q
<1>5. CASE p.step \notin {"phase_training", "epoch_completed"}
  <2>1. PICK step \in Follows(p.step) : q = [p EXCEPT !.step = step] /\ step \in Holding
    BY <1>5 DEF AfterPush, Pushing, Follows, Holding
  <2> HIDE DEF q
  <2>2. q \in Runners /\ q.step = step /\ KeepsItsRecord(p, q)
    BY <2>1 DEF Runners, KeepsItsRecord
  <2> QED
    BY <2>2 DEF Pushes, q
<1> QED
  BY <1>2, <1>3, <1>4, <1>5

(* A runner that becomes another one. *)
LEMMA RunnerBecomes ==
  ASSUME RunnersInv, NEW r \in Runs, NEW q \in Runners,
         runner' = [runner EXCEPT ![r] = q]
  PROVE  runner' \in [Runs -> Runners] /\ runner'[r] = q /\ Only(r)
BY DEF RunnersInv, Only

(* A runner of which only the step changes. *)
LEMMA StepBecomes ==
  ASSUME RunnersInv, NEW r \in Runs,
         NEW step \in Holding \cup Over \cup {"new", "refused", "raising"},
         runner' = [runner EXCEPT ![r].step = step]
  PROVE  /\ runner' \in [Runs -> Runners] /\ Only(r)
         /\ runner'[r].step = step /\ KeepsItsRecord(runner[r], runner'[r])
<1> DEFINE q == [runner[r] EXCEPT !.step = step]
<1>1. runner[r] \in Runners
  BY DEF RunnersInv
<1>2. q \in Runners /\ q.step = step /\ KeepsItsRecord(runner[r], q)
  BY <1>1 DEF Runners, KeepsItsRecord
<1>3. runner' = [runner EXCEPT ![r] = q]
  OBVIOUS
<1> HIDE DEF q
<1> QED
  BY <1>2, <1>3, RunnerBecomes

(* A push is no other move. *)
LEMMA PushesOnly ==
  ASSUME NEW r, NEW p, NEW q,
         Replays(r, p, q) \/ Compares(r, p, q) \/ Activates(r, p, q) \/ Starts(p, q) \/ Ends(p, q)
  PROVE  ~Pushes(p, q)
BY DEF Replays, Compares, Activates, Starts, Ends, Pushes, Pushing, Follows

(* How runners move. *)
LEMMA RunnerMoves ==
  ASSUME RunnersInv, [Next]_vars
  PROVE  \/ UNCHANGED runner
         \/ /\ runner' \in [Runs -> Runners]
            /\ \E r \in Runs : /\ Only(r) /\ Moves(r, runner[r], runner'[r])
                               /\ PushStep(r) \/ ~Pushes(runner[r], runner'[r])
<1> DEFINE Moved == /\ runner' \in [Runs -> Runners]
                    /\ \E r \in Runs : /\ Only(r) /\ Moves(r, runner[r], runner'[r])
                                       /\ PushStep(r) \/ ~Pushes(runner[r], runner'[r])
<1> SUFFICES Moved \/ UNCHANGED runner
  OBVIOUS
<1>0. "correction" \in Runs /\ "manual" \in Runs
  BY CorrectionAssumption
<1>1. ASSUME NEW r \in Runs, PushStep(r)
      PROVE  Moved
  <2>1. runner[r] \in Runners /\ runner[r].step \in Pushing
    BY <1>1 DEF PushStep, RunnersInv
  <2>2. runner' = [runner EXCEPT ![r] = AfterPush(runner[r])]
    BY <1>1 DEF PushStep
  <2> QED
    BY <1>1, <2>1, <2>2, AfterPushIs, RunnerBecomes DEF Moves
<1>2. ASSUME NEW r \in Runs, Replay(r)
      PROVE  Moved
  <2>1. CASE runner[r].cycle < MaxCycles[r] /\
             runner' = [runner EXCEPT ![r].step = "cycle_started", ![r].cycle = runner[r].cycle + 1]
    <3> DEFINE p == runner[r]
               q == [p EXCEPT !.step = "cycle_started", !.cycle = p.cycle + 1]
    <3>1. /\ p \in Runners /\ p.step = "replaying"
          /\ p.cycle + 1 \in Cycles /\ p.cycle + 1 <= MaxCycles[r]
      <4>1. p.cycle \in 0 .. MaxCycles[r] /\ MaxCycles[r] \in Nat
        BY CorrectionAssumption DEF RunnersInv
      <4>2. p.cycle + 1 \in 0 .. MaxCycles[r]
        BY <2>1, <4>1
      <4> QED
        BY <1>2, <4>1, <4>2, CyclesAreNumbers DEF RunnersInv, Replay
    <3>2. runner' = [runner EXCEPT ![r] = q]
      BY <2>1
    <3> HIDE DEF p
    <3>3. q \in Runners /\ Replays(r, p, q)
      BY <3>1 DEF Runners, Holding, Replays
    <3> HIDE DEF q
    <3> QED
      BY <3>2, <3>3, RunnerBecomes, PushesOnly DEF Moves, p
  <2>2. CASE runner' = [runner EXCEPT ![r].step = "run_completed"]
    <3>1. runner[r].step = "replaying" /\ "run_completed" \in Holding
      BY <1>2 DEF Replay, Holding
    <3> QED
      BY <2>2, <3>1, StepBecomes, PushesOnly, ZenonT(60) DEF Moves, Replays, KeepsItsRecord
  <2> QED
    BY <1>2, <2>1, <2>2 DEF Replay
<1>3. ASSUME NEW r \in Runs, Compare(r)
      PROVE  Moved
  <2>1. PICK status \in IF DualPromotion[r] THEN Outcomes ELSE {Simulated} :
          runner' = [runner EXCEPT ![r].step = "phase_promotion", ![r].status = status]
    BY <1>3 DEF Compare
  <2> DEFINE p == runner[r]
             q == [p EXCEPT !.step = "phase_promotion", !.status = status]
  <2>2. /\ p \in Runners /\ p.step = "comparing" /\ status \in [Roles -> Statuses]
        /\ DualPromotion[r] \/ status = Simulated
    <3>1. Simulated \in [Roles -> Statuses]
      BY DEF Simulated, Statuses
    <3>2. \A o \in Outcomes : o \in [Roles -> Statuses]
      BY CorrectionAssumption DEF Statuses
    <3> QED
      BY <1>3, <2>1, <3>1, <3>2 DEF RunnersInv, Compare
  <2>3. runner' = [runner EXCEPT ![r] = q]
    BY <2>1
  <2>4. status \in Verdicts
    BY <2>2 DEF Verdicts
  <2> HIDE DEF p
  <2>5. q \in Runners /\ Compares(r, p, q)
    BY <2>2, <2>4 DEF Runners, Holding, Compares
  <2> HIDE DEF q
  <2> QED
    BY <2>3, <2>5, RunnerBecomes, PushesOnly DEF Moves, p
<1>4. ASSUME NEW r \in Runs, Activate(r)
      PROVE  Moved
  <2> DEFINE p == runner[r]
             decisions == p.decisions \cup JudgementsOf(p)
  <2>1. /\ p \in Runners /\ p.step = "activating" /\ p.status \in [Roles -> Statuses]
        /\ DualPromotion[r] \/ p.status = Simulated
    BY <1>4 DEF Activate, RunnersInv, Judging
  <2>2. PICK runtime \in RuntimesAfter(r) :
          runner' = [runner EXCEPT ![r] = [p EXCEPT !.step = "promotion_decision",
                                                    !.runtime = runtime,
                                                    !.decisions = decisions]]
    BY <1>4 DEF Activate, JudgementsOf
  <2>3. /\ runtime = RuntimeAfter(p) \/ ~DualPromotion[r]
        /\ runtime \in {RuntimeAfter(p), [p.runtime EXCEPT !["classification"] = p.cycle]}
    BY <2>2 DEF RuntimesAfter
  <2> HIDE DEF p
  <2>4. runtime \in [Roles -> Cycles]
    <3>1. RuntimeAfter(p) \in [Roles -> Cycles]
      BY <2>1 DEF RuntimeAfter, Runners
    <3>2. [p.runtime EXCEPT !["classification"] = p.cycle] \in [Roles -> Cycles]
      BY <2>1 DEF Runners
    <3> QED
      BY <2>3, <3>1, <3>2
  <2>5. decisions \subseteq Judgements
    BY <2>1 DEF Runners, JudgementsOf, Judgements
  <2> DEFINE q == [p EXCEPT !.step = "promotion_decision", !.runtime = runtime,
                            !.decisions = decisions]
  <2> HIDE DEF decisions
  <2>6. q \in Runners
    BY <2>1, <2>4, <2>5 DEF Runners, Holding
  <2>7. /\ q.step = "promotion_decision" /\ q.runtime = runtime /\ q.decisions = decisions
        /\ q.cycle = p.cycle /\ q.status = p.status
    BY <2>1 DEF Runners
  <2>8. runner' = [runner EXCEPT ![r] = q]
    BY <2>2
  <2> HIDE DEF q
  <2>9. Activates(r, p, q)
    BY <2>1, <2>3, <2>7 DEF Activates, decisions
  <2> QED
    BY <2>6, <2>8, <2>9, RunnerBecomes, PushesOnly DEF Moves, p
<1>5. ASSUME NEW r \in Runs, runner[r].step = "new",
             NEW step \in {"run_started", "refused"}, runner' = [runner EXCEPT ![r].step = step]
      PROVE  Moved
  BY <1>5, StepBecomes, PushesOnly DEF Moves, Starts, Holding
<1>6. CASE AcquireGpu \/ StartManualRun
  BY <1>0, <1>5, <1>6 DEF AcquireGpu, StartManualRun
<1>7. ASSUME NEW r \in Runs, NEW step \in {"completed", "raising", "failed", "killed"},
             step = "completed" => runner[r].step = "releasing",
             runner' = [runner EXCEPT ![r].step = step]
      PROVE  Moved
  <2>1. step \in Holding \cup Over \cup {"new", "refused", "raising"}
    BY DEF Over
  <2>2. /\ runner' \in [Runs -> Runners] /\ Only(r)
        /\ runner'[r].step = step /\ KeepsItsRecord(runner[r], runner'[r])
    BY <1>7, <2>1, StepBecomes
  <2> QED
    BY <1>7, <2>2, PushesOnly DEF Moves, Ends
<1>8. ASSUME NEW r \in Runs, Release(r) \/ Raise(r) \/ PushFailure(r)
      PROVE  Moved
  BY <1>7, <1>8 DEF Release, Raise, PushFailure
<1>9. CASE KillManualRun \/ TimeOut
  BY <1>0, <1>7, <1>9 DEF KillManualRun, TimeOut, Killed
<1>10. CASE StartObservation \/ FinalizeWindow \/ FinishObservation \/ FailObservation
              \/ GateOnConfirmedDrift \/ DriftGoesStale \/ StartDemo \/ StopDemo
  BY <1>10 DEF StartObservation, FinalizeWindow, FinishObservation, FailObservation,
               GateOnConfirmedDrift, DriftGoesStale, StartDemo, StopDemo
<1>11. CASE StartTask \/ FailureCallback \/ HandleLate \/ ApplyLateDrift \/ RestartApi
  BY <1>11 DEF StartTask, FailureCallback, HandleLate, ApplyLateDrift, RestartApi
<1>12. CASE UNCHANGED vars
  BY <1>12 DEF vars
<1> QED
  BY <1>1, <1>2, <1>3, <1>4, <1>6, <1>8, <1>9, <1>10, <1>11, <1>12, Zenon DEF Next

(* The runners keep their types. *)
LEMMA RunnersSteps ==
  ASSUME RunnersInv, [Next]_vars
  PROVE  RunnersInv'
<1>1. CASE UNCHANGED runner
  BY <1>1 DEF RunnersInv
<1>2. ASSUME NEW r \in Runs, Only(r), runner' \in [Runs -> Runners],
             Moves(r, runner[r], runner'[r])
      PROVE  RunnersInv'
  <2> DEFINE p == runner[r]
             q == runner'[r]
  <2>1. /\ p \in Runners /\ p.cycle \in 0 .. MaxCycles[r] /\ MaxCycles[r] \in Nat
        /\ p.step \in Judging =>
             p.status \in [Roles -> Statuses] /\ (DualPromotion[r] \/ p.status = Simulated)
    BY CorrectionAssumption DEF RunnersInv
  <2>2. /\ Moves(r, p, q)
        /\ runner' \in [Runs -> Runners] /\ \A o \in Runs \ {r} : runner'[o] = runner[o]
    BY <1>2 DEF Only
  <2> HIDE DEF p, q
  <2>3. q.cycle \in 0 .. MaxCycles[r]
    BY <2>1, <2>2 DEF Moves, Pushes, Replays, Compares, Activates, Starts, Ends, KeepsItsRecord
  <2>4. q.step \in Judging =>
          q.status \in [Roles -> Statuses] /\ (DualPromotion[r] \/ q.status = Simulated)
    <3>1. CASE Pushes(p, q)
      BY <2>1, <3>1 DEF Pushes, KeepsItsRecord, Follows, Pushing, Judging
    <3>2. CASE Replays(r, p, q) \/ Starts(p, q) \/ Ends(p, q)
      BY <3>2 DEF Replays, Starts, Ends, Judging
    <3>3. CASE Compares(r, p, q) \/ Activates(r, p, q)
      BY <2>1, <3>3 DEF Compares, Activates, Judging
    <3> QED
      BY <2>2, <3>1, <3>2, <3>3 DEF Moves
  <2> QED
    BY <2>2, <2>3, <2>4 DEF RunnersInv, q
<1> QED
  BY <1>1, <1>2, RunnerMoves, Zenon

(* What happens to the state of the API, its late events and who was heard. *)
LEMMA ApiMoves ==
  ASSUME [Next]_vars
  PROVE  \/ \E r \in Runs : PushStep(r)
         \/ \E r \in Runs : PushFailure(r)
         \/ FailureCallback \/ HandleLate \/ RestartApi
         \/ UNCHANGED lifecycleVars /\ (Fault \/ UNCHANGED faults)
<1>1. CASE \E r \in Runs : PushStep(r) \/ Replay(r) \/ Compare(r) \/ Activate(r) \/ Release(r)
                           \/ Raise(r) \/ PushFailure(r)
  BY <1>1 DEF Replay, Compare, Activate, Release, Raise
<1>2. CASE StartDemo \/ StopDemo \/ AcquireGpu \/ StartManualRun \/ KillManualRun
  BY <1>2 DEF StartDemo, StopDemo, AcquireGpu, StartManualRun, KillManualRun
<1>3. CASE StartTask \/ TimeOut
  BY <1>3 DEF StartTask, TimeOut
<1>4. CASE StartObservation \/ FinishObservation \/ FailObservation
             \/ GateOnConfirmedDrift \/ DriftGoesStale \/ ApplyLateDrift
  BY <1>4 DEF StartObservation, FinishObservation, FailObservation,
              GateOnConfirmedDrift, DriftGoesStale, ApplyLateDrift
<1>5. CASE FinalizeWindow
  BY <1>5 DEF FinalizeWindow, PushDrift
<1>6. CASE UNCHANGED vars
  BY <1>6 DEF vars, lifecycleVars
<1> QED
  BY <1>1, <1>2, <1>3, <1>4, <1>5, <1>6, Zenon DEF Next

(* The state of the API and of its threads keeps its types. *)
LEMMA ApiSteps ==
  ASSUME ApiInv, RunnersInv, [Next]_vars
  PROVE  ApiInv'
<1>1. ASSUME NEW r \in Runs, PushStep(r)
      PROVE  ApiInv'
  <2>1. runner[r] \in Runners /\ runner[r].step \in Pushing /\ Push(EventOf(r))
    BY <1>1 DEF PushStep, RunnersInv
  <2> QED
    BY <2>1, EventOfIs, PushTyped
<1>2. ASSUME NEW sender \in Senders, Push(Event("run_failed", sender, 0))
      PROVE  ApiInv'
  BY <1>2, FailureIs, PushTyped
<1>3. CASE \E r \in Runs : PushFailure(r)
  <2>1. PICK r \in Runs : PushFailure(r)
    BY <1>3
  <2> DEFINE sender == IF runner[r].step = "refused" THEN "failed_before_lifecycle_run_id" ELSE r
  <2>2. sender \in Senders
    BY DEF Senders
  <2>3. Push(Event("run_failed", sender, 0))
    BY <2>1 DEF PushFailure
  <2> QED
    BY <1>2, <2>2, <2>3
<1>4. CASE FailureCallback
  <2>1. "airflow" \in Senders
    BY DEF Senders
  <2> QED
    BY <1>2, <1>4, <2>1 DEF FailureCallback
<1>5. CASE HandleLate
  <2>1. PICK h \in late :
          /\ shown' = StepOf(shown, h.event, h.step, h.uncounted)
          /\ late' = (late \ {h}) \cup (IF After(h).step = "over" THEN {} ELSE {After(h)})
          /\ heard' = None
          /\ overlapped' = (overlapped \/ \E g \in late \ {h} : UnderWay(g))
          /\ UNCHANGED <<obs, dag, runner, gpu, driftVars, faults>>
    BY <1>5, HandleLateIs
  <2>2. h \in Handlers
    BY DEF ApiInv
  <2>3. shown' \in States
    BY <2>1, <2>2, StepIs DEF ApiInv
  <2>4. After(h).step = "over" \/ After(h) \in Handlers
    BY <2>2, AfterIs
  <2>5. late' \subseteq Handlers
    BY <2>1, <2>4 DEF ApiInv
  <2>6. overlapped' \in BOOLEAN /\ faults' = faults /\ heard' = None
    BY <2>1 DEF ApiInv
  <2> QED
    BY <2>3, <2>5, <2>6 DEF ApiInv
<1>6. CASE RestartApi
  BY <1>6, EmptyIsState, FaultCounted DEF RestartApi, ApiInv
<1>7. CASE UNCHANGED lifecycleVars /\ (Fault \/ UNCHANGED faults)
  BY <1>7, FaultCounted DEF ApiInv, lifecycleVars
<1> QED
  BY <1>1, <1>3, <1>4, <1>5, <1>6, <1>7, ApiMoves

(* The DAG run and the lock keep their types. *)
LEMMA TasksSteps ==
  ASSUME TasksInv, [Next]_vars
  PROVE  TasksInv'
<1>0. "correction" \in Runs /\ "manual" \in Runs
  BY CorrectionAssumption
<1>1. CASE \E r \in Runs : PushStep(r) \/ Replay(r) \/ Compare(r) \/ Activate(r) \/ Release(r)
                           \/ Raise(r) \/ PushFailure(r)
  BY <1>1 DEF TasksInv, PushStep, Replay, Compare, Activate, Release, Raise, PushFailure, DagAfter
<1>2. CASE StartDemo \/ StopDemo \/ AcquireGpu \/ StartManualRun \/ KillManualRun
  BY <1>0, <1>2 DEF TasksInv, StartDemo, StopDemo, AcquireGpu, StartManualRun, KillManualRun,
                    TakeGpu, Killed
<1>3. CASE StartTask \/ TimeOut \/ FailureCallback \/ HandleLate \/ ApplyLateDrift \/ RestartApi
  BY <1>3 DEF TasksInv, StartTask, TimeOut, Killed, FailureCallback, HandleLate, ApplyLateDrift, RestartApi
<1>4. CASE StartObservation \/ FinishObservation \/ FailObservation
             \/ GateOnConfirmedDrift \/ DriftGoesStale \/ FinalizeWindow
  BY <1>4 DEF TasksInv, StartObservation, FinishObservation, FailObservation,
              GateOnConfirmedDrift, DriftGoesStale, FinalizeWindow
<1>5. CASE UNCHANGED vars
  BY <1>5 DEF TasksInv, vars
<1> QED
  BY <1>1, <1>2, <1>3, <1>4, <1>5, Zenon DEF Next

-----------------------------------------------------------------------------
(* What holds at first *)

LEMMA InitTypes == Init => TypeInv /\ EvidenceInv
<1> SUFFICES ASSUME Init PROVE TypeInv /\ EvidenceInv
  OBVIOUS
<1>1. ObservationInv /\ EvidenceInv
  <2>1. obs = NoObservation /\ drift = None /\ lateDrift = {}
    BY DEF Init
  <2>2. NoObservation \in Observing
    BY DEF NoObservation, Observing
  <2> QED
    BY <2>1, <2>2, EmptySeq DEF NoObservation, ObservationInv, EvidenceInv
<1>2. RunnersInv
  <2>1. 0 \in 0 .. Epochs /\ 0 \in Cycles /\ NoStatuses \in Verdicts
    BY CorrectionAssumption, CyclesAreNumbers DEF NoStatuses, Verdicts
  <2>2. NoRunner \in Runners /\ NoRunner.cycle = 0 /\ NoRunner.step = "new"
    BY <2>1 DEF NoRunner, Runners
  <2>3. \A r \in Runs : 0 \in 0 .. MaxCycles[r]
    BY CorrectionAssumption
  <2>4. runner = [r \in Runs |-> NoRunner]
    BY DEF Init
  <2> HIDE DEF NoRunner
  <2> QED
    BY <2>2, <2>3, <2>4 DEF RunnersInv, Judging
<1>3. ApiInv
  <2>1. shown = EmptyState /\ late = {} /\ heard = None /\ overlapped = FALSE /\ faults = 0
    BY DEF Init
  <2>2. 0 \in 0 .. MaxFaults
    BY CorrectionAssumption
  <2> QED
    BY <2>1, <2>2, EmptyIsState DEF ApiInv
<1>4. TasksInv
  BY DEF Init, TasksInv
<1> QED
  BY <1>1, <1>2, <1>3, <1>4 DEF TypeInv

(* The inductive invariant of the types and of the observation. *)
LEMMA TypeSteps ==
  ASSUME TypeInv, EvidenceInv, [Next]_vars
  PROVE  TypeInv' /\ EvidenceInv'
BY ObservationSteps, RunnersSteps, ApiSteps, TasksSteps DEF TypeInv

LEMMA TypeInvariant == Spec => [](TypeInv /\ EvidenceInv)
<1>1. Init => TypeInv /\ EvidenceInv
  BY InitTypes
<1>2. TypeInv /\ EvidenceInv /\ [Next]_vars => (TypeInv /\ EvidenceInv)'
  BY TypeSteps
<1> QED
  BY <1>1, <1>2, PTL DEF Spec

(* The variables keep their types, whatever was lost, slow or forgotten: a runner never       *)
(* exceeds its cycles and epochs, decides nothing but a status for each role it journals, and *)
(* the API shows nothing but what was sent to it (run_dynamic_replay,                         *)
(* _record_lifecycle_observation).                                                            *)
THEOREM DriftTypeCorrect == Spec => []TypeOK
<1>1. TypeInv => TypeOK
  <2> SUFFICES ASSUME TypeInv PROVE TypeOK
    OBVIOUS
  <2>1. ObservationInv /\ RunnersInv /\ ApiInv /\ TasksInv
    BY DEF TypeInv
  <2>2. /\ obs.step \in {"idle", "observing", "summarised", "done", "failed"}
        /\ obs.windows \in Seq(Window) /\ obs.count \in 0 .. Len(obs.windows)
        /\ obs.confirmed \in BOOLEAN
    <3>1. obs.count \in Nat /\ obs.windows \in Seq(Window) /\ obs.count <= Len(obs.windows)
      BY <2>1 DEF ObservationInv, Observing
    <3>2. Len(obs.windows) \in Nat
      BY <3>1, LenProperties
    <3> QED
      BY <2>1, <3>1, <3>2 DEF ObservationInv, Observing
  <2>3. ASSUME NEW r \in Runs
        PROVE  /\ runner[r].step \in Holding \cup Over \cup {"new", "refused", "raising"}
               /\ runner[r].cycle \in 0 .. MaxCycles[r] /\ runner[r].epoch \in 0 .. Epochs
               /\ runner[r].runtime \in [Roles -> Cycles]
               /\ runner[r].status \in [Roles -> Statuses \cup {None}]
               /\ runner[r].decisions \subseteq [cycle : Cycles, role : Roles, status : Statuses]
    <3>1. runner[r] \in Runners /\ runner[r].cycle \in 0 .. MaxCycles[r]
      BY <2>1 DEF RunnersInv
    <3> QED
      BY <3>1 DEF Runners, Verdicts, Judgements
  <2>4. /\ shown.run \in Senders \cup {None} /\ shown.cycle \in Cycles
        /\ shown.epoch \in 0 .. Epochs
        /\ {shown.active, shown.final} \subseteq [Roles -> Cycles \cup {None}]
    BY <2>1 DEF ApiInv, States, Versions
  <2>5. /\ DOMAIN shown.counters \subseteq [run : Senders, role : Roles, status : Statuses]
        /\ \A label \in DOMAIN shown.counters : shown.counters[label] \in Nat
    <3>1. PICK labels \in SUBSET Labels : shown.counters \in [labels -> Nat]
      BY <2>1 DEF ApiInv, States, Counters
    <3> QED
      BY <3>1 DEF Labels
  <2>6. {h.step : h \in late} \subseteq HandlerSteps
    BY <2>1 DEF ApiInv, Handlers
  <2>7. {drift} \cup lateDrift
          \subseteq {None} \cup [index : Nat, status : DriftStatuses, trigger : BOOLEAN]
    BY <2>1 DEF ObservationInv, DriftEvents
  <2>8. heard \in Runs \cup {None} /\ overlapped \in BOOLEAN /\ faults \in 0 .. MaxFaults
    BY <2>1 DEF ApiInv
  <2> QED
    BY <2>1, <2>2, <2>3, <2>4, <2>5, <2>6, <2>7, <2>8 DEF TypeOK, TasksInv
<1> QED
  BY <1>1, TypeInvariant, PTL

(* Drift is confirmed, and /metrics shows it or asks for a lifecycle, only on evidence: for   *)
(* any size of the windows, any number of windows to confirm, any least number of events and  *)
(* any command line, and however the API forgets what it was told (evaluate_drift_metrics,    *)
(* _finalize_window).                                                                         *)
THEOREM DriftNeedsEvidence == Spec => []ConfirmedByEvidence
<1>1. EvidenceInv => ConfirmedByEvidence
  <2> SUFFICES ASSUME EvidenceInv, obs.step = "observing",
                      \/ obs.confirmed \/ DriftShown(drift).trigger
                      \/ "confirmed" \in DriftShown(drift).status
               PROVE  Evidence(obs.windows)
    BY DEF ConfirmedByEvidence
  <2>1. obs.confirmed \/ DriftIsTold
    BY DEF DriftShown, DriftIsTold, Confirms
  <2> QED
    BY <2>1 DEF EvidenceInv
<1> QED
  BY <1>1, TypeInvariant, PTL

-----------------------------------------------------------------------------
(* What a run decided, and what it announced of it *)

(* The steps of a cycle before it is journaled. *)
Cycling ==
  {"cycle_started", "training_manifest_ready", "phase_training", "epoch_completed",
   "phase_evaluation_gate", "comparing", "phase_promotion", "gate_decision", "activating"}

(* The journal of a runner is about the cycles it went through: the current one only once it  *)
(* was journaled, and then with the status of every role, whose promotions it works with.     *)
JournalInv(p) ==
  /\ IsFiniteSet(p.decisions)
  /\ p.step \in {"new", "run_started"} => p.decisions = {}
  /\ \A d \in p.decisions : d.cycle <= p.cycle
  /\ p.step \in Cycling => p.cycle # 0 /\ \A d \in p.decisions : d.cycle < p.cycle
  /\ (\E d \in p.decisions : d.cycle = p.cycle) => JudgementsOf(p) \subseteq p.decisions
  /\ p.step = "promotion_decision" =>
       /\ JudgementsOf(p) \subseteq p.decisions
       /\ \A role \in Roles : p.status[role] = "promoted" => p.runtime[role] = p.cycle

Journal(d) == [cycle |-> d.cycle, role |-> d.role, status |-> d.status]

(* The decisions that were announced and not forgotten, or will still be applied. *)
Announced == shown.seen \cup UNION {DecidedBy(h.event) : h \in late}

(* Every one of them was journaled by its run, or is of the cycle it is about to journal or   *)
(* failed to.                                                                                 *)
IsOf(d, p) ==
  \/ Journal(d) \in p.decisions
  \/ Journal(d) \in JudgementsOf(p) /\ p.step \in {"activating", "raising", "failed", "killed"}

DecidedByItsRun(d) == d.run \in Runs /\ IsOf(d, runner[d.run])

AnnouncedInv == \A d \in Announced : DecidedByItsRun(d)

JournalsInv == \A r \in Runs : JournalInv(runner[r])

(* The counters count the decisions S: those that are marked but for those a thread has still *)
(* to count, and, once a thread has emptied promotion_seen, those that were.                  *)
CountedAs(S) ==
  /\ IsFiniteSet(S) /\ shown.counters = CountersOf(S)
  /\ \A d \in S : d \in Decisions /\ DecidedByItsRun(d)
  /\ (\A h \in late : h.step \notin {"clearing", "counting"}) => S = shown.seen
  /\ \A h \in late : h.step = "clearing" => shown.seen = {}
  /\ \A h \in late : h.step = "marking" => h.uncounted \cap shown.seen = {}
                                          /\ Decided(h.event) \subseteq shown.seen \cup h.uncounted
  /\ \A h \in late : h.step = "counting" => h.uncounted \subseteq shown.seen
                                           /\ S = shown.seen \ h.uncounted

(* As long as no two threads are in the middle of their events, what is counted was decided. *)
AloneInv ==
  ~overlapped =>
    /\ \A g, h \in late : UnderWay(g) /\ UnderWay(h) => g = h
    /\ \E S : CountedAs(S)

CountingInv == JournalsInv /\ AnnouncedInv /\ AloneInv

(* The current cycle, as its decisions are announced. *)
AnnouncedBy(r, p) ==
  {[run |-> r, cycle |-> p.cycle, role |-> role, status |-> p.status[role]] : role \in Roles}

JournaledBy(r, p) ==
  {[run |-> r, cycle |-> d.cycle, role |-> d.role, status |-> d.status] : d \in p.decisions}

PhasesIn(s, cycle) == {m.phase : m \in {m \in s.phases : m.cycle = cycle}}

(* The steps of a cycle after it was announced and before its decision was. *)
InCycle == {"training_manifest_ready", "phase_training", "epoch_completed",
            "phase_evaluation_gate", "comparing", "phase_promotion", "gate_decision"}

(* What the API keeps, s, of a run r that nobody disturbed and whose process is p. *)
Shows(s, r, p) ==
  /\ p.step \notin {"new", "run_started", "refused"}
  /\ p.step \in Holding \cup {"completed"} =>
       /\ Counting(s)
       /\ s.run = r /\ \A mark \in s.phases : mark.run = r
       /\ s.seen = JournaledBy(r, p) \cup (IF p.step = "activating" THEN AnnouncedBy(r, p) ELSE {})
       /\ s.epoch # 0 => p.step \in {"epoch_completed", "phase_evaluation_gate"}
  /\ p.step \in Holding \ {"activating", "releasing"} /\ (DualPromotion[r] \/ p.step \in InCycle)
       => s.active = p.runtime
  /\ p.step = "activating" /\ DualPromotion[r] => s.active = RuntimeAfter(p)
  /\ p.step = "comparing" => PhasesIn(s, p.cycle) = {"evaluation_gate"}
  /\ p.step = "gate_decision" => PhasesIn(s, p.cycle) = {"promotion"}
  /\ p.step \in {"releasing", "completed"} =>
       s.final = p.runtime /\ s.active = NoVersions /\ s.phases = {} /\ s.epoch = 0

ShownInv == \A r \in Runs : heard = r => Shows(shown, r, runner[r])

(* The two judgements of a cycle are finitely many. *)
LEMMA JudgementsFinite ==
  ASSUME NEW p
  PROVE  IsFiniteSet(JudgementsOf(p))
<1> DEFINE of(role) == [cycle |-> p.cycle, role |-> role, status |-> p.status[role]]
<1>1. JudgementsOf(p) = {of("classification")} \cup {of("localization")}
  BY DEF JudgementsOf, Roles
<1> HIDE DEF of
<1>2. IsFiniteSet({of("classification")})
  BY FS_Singleton
<1> QED
  BY <1>1, <1>2, FS_AddElement

(* A runner that moves keeps its journal in order. *)
LEMMA JournalMoves ==
  ASSUME NEW r, NEW p \in Runners, NEW q \in Runners, JournalInv(p), Moves(r, p, q)
  PROVE  JournalInv(q)
<1>0. p.cycle \in Nat /\ \A d \in p.decisions : d.cycle \in Nat
  BY CyclesAreNumbers DEF Runners, Judgements
<1>1. CASE Pushes(p, q) \/ Starts(p, q) \/ Ends(p, q)
  <2>1. KeepsItsRecord(p, q)
    BY <1>1 DEF Pushes, Starts, Ends
  <2>2. JudgementsOf(q) = JudgementsOf(p)
    BY <2>1 DEF KeepsItsRecord, JudgementsOf
  <2>3. /\ q.step # "promotion_decision" /\ (q.step \in Cycling => p.step \in Cycling)
        /\ q.step \in {"new", "run_started"} => p.step = "new"
    BY <1>1 DEF Pushes, Starts, Ends, Follows, Pushing, Cycling
  <2> QED
    BY <2>1, <2>2, <2>3 DEF JournalInv, KeepsItsRecord
<1>2. CASE Replays(r, p, q)
  <2>1. CASE q.step = "run_completed" /\ q.cycle = p.cycle
    <3>1. JudgementsOf(q) = JudgementsOf(p)
      BY <1>2, <2>1 DEF Replays, JudgementsOf
    <3> QED
      BY <1>2, <2>1, <3>1 DEF Replays, JournalInv, Cycling
  <2>2. CASE q.step = "cycle_started" /\ q.cycle = p.cycle + 1
    <3>1. \A d \in q.decisions : d.cycle < q.cycle
      BY <1>0, <1>2, <2>2 DEF Replays, JournalInv
    <3>2. q.cycle # 0 /\ q.cycle \in Nat /\ \A d \in q.decisions : d.cycle \in Nat
      BY <1>0, <1>2, <2>2 DEF Replays
    <3>3. IsFiniteSet(q.decisions)
      BY <1>2 DEF Replays, JournalInv
    <3>4. \A d \in q.decisions : d.cycle <= q.cycle /\ d.cycle # q.cycle
      BY <3>1, <3>2
    <3> QED
      BY <2>2, <3>1, <3>2, <3>3, <3>4 DEF JournalInv
  <2> QED
    BY <1>2, <2>1, <2>2 DEF Replays
<1>3. CASE Compares(r, p, q)
  <2>1. q.step = "phase_promotion" /\ q.cycle = p.cycle /\ q.decisions = p.decisions
    BY <1>3 DEF Compares
  <2>2. p.step \in Cycling
    BY <1>3 DEF Compares, Cycling
  <2>3. q.cycle # 0 /\ \A d \in q.decisions : d.cycle < q.cycle /\ d.cycle # q.cycle
    BY <1>0, <2>1, <2>2 DEF JournalInv
  <2> QED
    BY <2>1, <2>3 DEF JournalInv
<1>4. CASE Activates(r, p, q)
  <2>1. /\ q.step = "promotion_decision" /\ q.cycle = p.cycle /\ q.status = p.status
        /\ q.decisions = p.decisions \cup JudgementsOf(p)
        /\ q.runtime = RuntimeAfter(p) \/ p.status = Simulated
    BY <1>4 DEF Activates
  <2>2. JudgementsOf(q) = JudgementsOf(p)
    BY <2>1 DEF JudgementsOf
  <2>3. IsFiniteSet(q.decisions)
    BY <2>1, JudgementsFinite, FS_Union DEF JournalInv
  <2>4. \A d \in JudgementsOf(p) : d.cycle = p.cycle
    BY DEF JudgementsOf
  <2>5. \A d \in q.decisions : d.cycle <= q.cycle
    BY <1>0, <2>1, <2>4 DEF JournalInv
  <2>6. \A role \in Roles : q.status[role] = "promoted" => q.runtime[role] = q.cycle
    BY <2>1 DEF RuntimeAfter, Simulated
  <2> QED
    BY <2>1, <2>2, <2>3, <2>5, <2>6 DEF JournalInv, Cycling
<1> QED
  BY <1>1, <1>2, <1>3, <1>4 DEF Moves

(* What is announced after a push was announced before, or by the event. *)
LEMMA PushAnnounces ==
  ASSUME ApiInv, NEW e \in Announcements, Push(e)
  PROVE  Announced' \subseteq Announced \cup DecidedBy(e)
<1>1. CASE Applied(e)
  <2>1. e \in Events /\ shown' = Recorded(shown, e) /\ late' = late
    BY <1>1 DEF Applied, Announcements
  <2>2. Started(shown, e).seen \subseteq shown.seen
    BY <2>1, RecordedIs DEF ApiInv, EmptyState
  <2>3. shown'.seen \subseteq shown.seen \cup DecidedBy(e)
    <3>1. CASE e.type = "run_failed"
      <4>1. shown' = EmptyState
        BY <2>1, <3>1, RecordedIs DEF ApiInv
      <4> QED
        BY <4>1 DEF EmptyState
    <3>2. CASE e.type # "run_failed"
      <4>1. shown'.seen = Started(shown, e).seen \cup DecidedBy(e)
        BY <2>1, <3>2, RecordedIs DEF ApiInv
      <4> QED
        BY <2>2, <4>1
    <3> QED
      BY <3>1, <3>2
  <2> QED
    BY <2>1, <2>3 DEF Announced
<1>2. CASE Lost(e)
  BY <1>2 DEF Lost, Announced
<1>3. CASE Slow(e)
  BY <1>3 DEF Slow, Announced
<1> QED
  BY <1>1, <1>2, <1>3 DEF Push

(* Only runners announce decisions: those of the cycle they decided. *)
LEMMA StepAnnounces ==
  ASSUME ApiInv, RunnersInv, [Next]_vars
  PROVE  \/ Announced' \subseteq Announced
         \/ \E r \in Runs : /\ PushStep(r) /\ runner[r].step \in DecisionEvents
                           /\ Announced' \subseteq Announced \cup AnnouncedBy(r, runner[r])
<1> DEFINE Old == Announced' \subseteq Announced
           New == \E r \in Runs : /\ PushStep(r) /\ runner[r].step \in DecisionEvents
                                /\ Announced' \subseteq Announced \cup AnnouncedBy(r, runner[r])
<1> SUFFICES Old \/ New
  OBVIOUS
<1>1. ASSUME NEW r \in Runs, PushStep(r)
      PROVE  Old \/ New
  <2> DEFINE e == EventOf(r)
  <2>1. runner[r] \in Runners /\ runner[r].step \in Pushing /\ Push(e)
    BY <1>1 DEF PushStep, RunnersInv
  <2>2. /\ e \in Announcements /\ e.type = runner[r].step /\ e.run = r
        /\ e.cycle = runner[r].cycle
        /\ runner[r].step \in DecisionEvents => e.status = runner[r].status
    BY <2>1, EventOfIs
  <2> HIDE DEF e
  <2>3. Announced' \subseteq Announced \cup DecidedBy(e)
    BY <2>1, <2>2, PushAnnounces
  <2>4. CASE runner[r].step \notin DecisionEvents
    BY <2>2, <2>3, <2>4 DEF DecidedBy
  <2>5. CASE runner[r].step \in DecisionEvents
    <3>1. DecidedBy(e) \subseteq AnnouncedBy(r, runner[r])
      BY <2>2, <2>5 DEF DecidedBy, Decided, AnnouncedBy
    <3> QED
      BY <1>1, <2>3, <2>5, <3>1
  <2> QED
    BY <2>4, <2>5
<1>2. ASSUME NEW sender \in Senders, Push(Event("run_failed", sender, 0))
      PROVE  Old
  <2> DEFINE e == Event("run_failed", sender, 0)
  <2>1. e \in Announcements /\ e.type = "run_failed"
    BY FailureIs
  <2>2. DecidedBy(e) = {}
    BY <2>1 DEF DecidedBy, DecisionEvents
  <2> QED
    BY <1>2, <2>1, <2>2, PushAnnounces
<1>3. CASE \E r \in Runs : PushFailure(r)
  <2>1. PICK r \in Runs : PushFailure(r)
    BY <1>3
  <2> DEFINE sender == IF runner[r].step = "refused" THEN "failed_before_lifecycle_run_id" ELSE r
  <2>2. sender \in Senders
    BY DEF Senders
  <2>3. Push(Event("run_failed", sender, 0))
    BY <2>1 DEF PushFailure
  <2> QED
    BY <1>2, <2>2, <2>3
<1>4. CASE FailureCallback
  <2>1. "airflow" \in Senders
    BY DEF Senders
  <2> QED
    BY <1>2, <1>4, <2>1 DEF FailureCallback
<1>5. CASE HandleLate
  <2>1. PICK h \in late :
          /\ shown' = StepOf(shown, h.event, h.step, h.uncounted)
          /\ late' = (late \ {h}) \cup (IF After(h).step = "over" THEN {} ELSE {After(h)})
    BY <1>5, HandleLateIs
  <2>2. h \in Handlers
    BY DEF ApiInv
  <2>3. shown'.seen \subseteq shown.seen \cup DecidedBy(h.event)
    <3>1. h.step = "marking" => DecidedBy(h.event) = Decided(h.event)
      BY <2>2 DEF Handlers, Deciding, DecidedBy
    <3>2. shown'.seen = CASE h.step = "emptying" -> {}
                          [] h.step = "marking"  -> shown.seen \cup Decided(h.event)
                          [] OTHER               -> shown.seen
      BY <2>1, <2>2, StepIs DEF ApiInv
    <3> QED
      BY <3>1, <3>2
  <2>4. After(h).event = h.event
    BY <2>2, AfterIs
  <2>5. \A g \in late' : \E k \in late : g.event = k.event
    BY <2>1, <2>4
  <2> QED
    BY <2>3, <2>5 DEF Announced
<1>6. CASE RestartApi
  BY <1>6 DEF RestartApi, EmptyState, Announced
<1>7. CASE UNCHANGED lifecycleVars
  BY <1>7 DEF Announced, lifecycleVars
<1> QED
  BY <1>1, <1>3, <1>4, <1>5, <1>6, <1>7, ApiMoves

(* What a run decided stays what it decided when the run moves. *)
LEMMA DecisionsStay ==
  ASSUME NEW r, NEW p, NEW q, NEW d, Moves(r, p, q), IsOf(d, p)
  PROVE  IsOf(d, q)
<1>1. CASE Journal(d) \in p.decisions
  <2>1. p.decisions \subseteq q.decisions
    BY DEF Moves, Pushes, Replays, Compares, Activates, Starts, Ends, KeepsItsRecord
  <2> QED
    BY <1>1, <2>1 DEF IsOf
<1>2. CASE Journal(d) \in JudgementsOf(p) /\ p.step \in {"activating", "raising", "failed", "killed"}
  <2>1. CASE Activates(r, p, q)
    BY <1>2, <2>1 DEF Activates, IsOf
  <2>2. CASE Ends(p, q)
    <3>1. q.step \in {"raising", "failed", "killed"}
      BY <1>2, <2>2 DEF Ends
    <3>2. JudgementsOf(q) = JudgementsOf(p)
      BY <2>2 DEF Ends, KeepsItsRecord, JudgementsOf
    <3> QED
      BY <1>2, <3>1, <3>2 DEF IsOf
  <2>3. ~Pushes(p, q) /\ ~Replays(r, p, q) /\ ~Compares(r, p, q) /\ ~Starts(p, q)
    BY <1>2 DEF Pushes, Pushing, Replays, Compares, Starts
  <2> QED
    BY <2>1, <2>2, <2>3 DEF Moves
<1> QED
  BY <1>1, <1>2 DEF IsOf

(* What a run announces at the end of a cycle is what it decided. *)
LEMMA AnnouncesItsDecisions ==
  ASSUME RunnersInv, NEW r \in Runs, JournalInv(runner[r]), PushStep(r),
         runner[r].step \in DecisionEvents, NEW d \in AnnouncedBy(r, runner[r])
  PROVE  d.run = r /\ IsOf(d, runner'[r])
<1> DEFINE p == runner[r]
           q == runner'[r]
<1>1. p \in Runners /\ p.step \in Pushing /\ q = AfterPush(p)
  BY DEF PushStep, RunnersInv
<1>2. Pushes(p, q)
  BY <1>1, AfterPushIs
<1>3. d.run = r /\ Journal(d) \in JudgementsOf(p)
  BY DEF AnnouncedBy, Journal, JudgementsOf
<1>4. JudgementsOf(q) = JudgementsOf(p) /\ q.decisions = p.decisions
  BY <1>2 DEF Pushes, KeepsItsRecord, JudgementsOf
<1>5. CASE p.step = "gate_decision"
  <2>1. q.step = "activating"
    BY <1>2, <1>5 DEF Pushes, Follows
  <2> QED
    BY <1>3, <1>4, <2>1 DEF IsOf
<1>6. CASE p.step = "promotion_decision"
  BY <1>3, <1>4, <1>6 DEF IsOf, JournalInv
<1> QED
  BY <1>5, <1>6 DEF DecisionEvents

(* What was decided stays decided in every step. *)
LEMMA DecidedStays ==
  ASSUME RunnersInv, [Next]_vars, NEW d, DecidedByItsRun(d)
  PROVE  DecidedByItsRun(d)'
<1>1. UNCHANGED runner \/ \E r \in Runs : Only(r) /\ Moves(r, runner[r], runner'[r])
  BY RunnerMoves, Zenon
<1>2. d.run \in Runs /\ IsOf(d, runner[d.run])
  BY DEF DecidedByItsRun
<1>3. CASE runner'[d.run] = runner[d.run]
  BY <1>2, <1>3 DEF DecidedByItsRun
<1>4. CASE runner'[d.run] # runner[d.run]
  <2>1. Moves(d.run, runner[d.run], runner'[d.run])
    BY <1>1, <1>2, <1>4 DEF Only
  <2> QED
    BY <1>2, <2>1, DecisionsStay DEF DecidedByItsRun
<1> QED
  BY <1>3, <1>4

(* The journals and what is announced of them, in every step. *)
LEMMA AnnouncedSteps ==
  ASSUME ApiInv, RunnersInv, JournalsInv, AnnouncedInv, [Next]_vars
  PROVE  JournalsInv' /\ AnnouncedInv'
<1>1. UNCHANGED runner \/ \E r \in Runs : Only(r) /\ Moves(r, runner[r], runner'[r])
  BY RunnerMoves, Zenon
<1>2. runner' \in [Runs -> Runners] /\ runner \in [Runs -> Runners]
  BY RunnersSteps DEF RunnersInv
<1>3. ASSUME NEW o \in Runs
      PROVE  JournalInv(runner'[o])
  <2>1. CASE runner'[o] = runner[o]
    BY <2>1 DEF JournalsInv
  <2>2. CASE runner'[o] # runner[o]
    <3>1. Moves(o, runner[o], runner'[o])
      BY <1>1, <2>2 DEF Only
    <3> QED
      BY <1>2, <3>1, JournalMoves DEF JournalsInv
  <2> QED
    BY <2>1, <2>2
<1>4. \A d \in Announced : DecidedByItsRun(d)'
  BY DecidedStays DEF AnnouncedInv
<1>5. \A d \in Announced' : DecidedByItsRun(d)'
  <2>1. CASE Announced' \subseteq Announced
    BY <1>4, <2>1
  <2>2. ASSUME NEW r \in Runs, PushStep(r), runner[r].step \in DecisionEvents,
               Announced' \subseteq Announced \cup AnnouncedBy(r, runner[r])
        PROVE  \A d \in Announced' : DecidedByItsRun(d)'
    <3>1. \A d \in AnnouncedBy(r, runner[r]) : d.run = r /\ IsOf(d, runner'[r])
      BY <2>2, AnnouncesItsDecisions DEF JournalsInv
    <3> QED
      BY <1>4, <2>2, <3>1 DEF DecidedByItsRun
  <2> QED
    BY <2>1, <2>2, StepAnnounces
<1> QED
  BY <1>3, <1>5 DEF JournalsInv, AnnouncedInv

(* What a push leaves of what is counted. *)
LEMMA PushAlone ==
  ASSUME ApiInv, AloneInv, NEW e \in Announcements, Push(e), ~overlapped',
         \A d : DecidedByItsRun(d) => DecidedByItsRun(d)', AnnouncedInv', ApiInv'
  PROVE  AloneInv'
<1>1. CASE Applied(e)
  <2>1. /\ shown' = Recorded(shown, e) /\ late' = late /\ ~overlapped
        /\ \A h \in late : ~UnderWay(h) /\ h \in Handlers
    BY <1>1 DEF Applied, ApiInv
  <2>2. \A h \in late : h.step \notin {"clearing", "marking", "counting"}
    BY <2>1 DEF UnderWay, FirstStep
  <2>3. PICK S : CountedAs(S)
    BY <2>1 DEF AloneInv
  <2>4. Counting(shown)
    BY <2>2, <2>3 DEF CountedAs, Counting
  <2>5. Counting(shown')
    <3>1. shown \in States /\ e \in Events
      BY DEF ApiInv, Announcements
    <3>2. Counting(EmptyState)
      BY <3>1, ResetIs
    <3>3. /\ Started(shown, e) = IF e.type = "run_started" THEN EmptyState ELSE shown
          /\ Counting(Started(shown, e)) => Counting(Recorded(shown, e))
      BY <3>1, RecordedIs
    <3> QED
      BY <2>1, <2>4, <3>2, <3>3
  <2>6. \A d \in shown'.seen : d \in Decisions /\ DecidedByItsRun(d)'
    BY DEF AnnouncedInv, Announced, ApiInv, States
  <2>7. PICK T : T = shown'.seen
    OBVIOUS
  <2>8. CountedAs(T)'
    BY <2>1, <2>2, <2>5, <2>6, <2>7 DEF CountedAs, Counting
  <2> QED
    BY <2>1, <2>8 DEF AloneInv
<1>2. CASE Lost(e) \/ Slow(e)
  <2>1. shown' = shown /\ ~overlapped
    BY <1>2 DEF Lost, Slow
  <2>2. \A h \in late' : h \in late \/ (~UnderWay(h) /\ h.step \notin {"clearing", "marking", "counting"})
    BY <1>2, BeginsIs DEF Lost, Slow
  <2>3. late \subseteq late'
    BY <1>2 DEF Lost, Slow
  <2>4. PICK S : CountedAs(S)
    BY <2>1 DEF AloneInv
  <2>5. \A d \in S : d \in Decisions /\ DecidedByItsRun(d)'
    BY <2>4 DEF CountedAs
  <2>6. CountedAs(S)'
    BY <2>1, <2>2, <2>3, <2>4, <2>5 DEF CountedAs
  <2>7. \A g, h \in late' : UnderWay(g) /\ UnderWay(h) => g = h
    BY <2>1, <2>2 DEF AloneInv
  <2> QED
    BY <2>6, <2>7 DEF AloneInv
<1> QED
  BY <1>1, <1>2 DEF Push

(* What a step of a thread leaves of what is counted, while no other one is under way. *)
LEMMA StepAlone ==
  ASSUME ApiInv, AloneInv, HandleLate, ~overlapped',
         \A d : DecidedByItsRun(d) => DecidedByItsRun(d)', AnnouncedInv', ApiInv'
  PROVE  AloneInv'
<1>1. PICK h \in late :
        /\ shown' = StepOf(shown, h.event, h.step, h.uncounted)
        /\ late' = (late \ {h}) \cup (IF After(h).step = "over" THEN {} ELSE {After(h)})
        /\ overlapped' = (overlapped \/ \E g \in late \ {h} : UnderWay(g))
  BY HandleLateIs
<1> DEFINE next == After(h)
<1>2. h \in Handlers /\ shown \in States /\ ~overlapped
  BY <1>1 DEF ApiInv
<1>3. \A g \in late \ {h} : ~UnderWay(g) /\ g.step \notin {"clearing", "marking", "counting"}
  BY <1>1 DEF UnderWay, FirstStep
<1>4. /\ next.uncounted = IF h.step = "testing" THEN Decided(h.event) \ shown.seen ELSE h.uncounted
      /\ next.event = h.event
      /\ next.step = "clearing" <=> h.step = "emptying"
      /\ next.step = "marking" <=> h.step = "testing"
      /\ next.step = "counting" <=> h.step = "marking"
  BY <1>2, AfterIs
<1>5. \A g \in late' : g \in late \ {h} \/ g = next
  BY <1>1
<1>6. h.step \in {"emptying", "marking"} => next \in late'
  BY <1>1, <1>4
<1> HIDE DEF next
<1>7. \A g, k \in late' : UnderWay(g) /\ UnderWay(k) => g = k
  BY <1>3, <1>5
<1>8. PICK S : CountedAs(S)
  BY <1>2 DEF AloneInv
<1>9. /\ shown'.seen = CASE h.step = "emptying" -> {}
                         [] h.step = "marking"  -> shown.seen \cup Decided(h.event)
                         [] OTHER               -> shown.seen
      /\ h.step = "clearing" => shown'.counters = CountersOf({})
      /\ h.step \notin {"clearing", "counting"} => shown'.counters = shown.counters
      /\ h.step = "counting" =>
           \A old : IsFiniteSet(old) /\ shown.counters = CountersOf(old) /\ h.uncounted \cap old = {}
                     => shown'.counters = CountersOf(old \cup h.uncounted)
  BY <1>1, <1>2, StepIs
<1>10. /\ IsFiniteSet(S) /\ shown.counters = CountersOf(S)
       /\ \A d \in S : d \in Decisions /\ DecidedByItsRun(d)'
       /\ h.step \notin {"clearing", "counting"} => S = shown.seen
       /\ h.step = "clearing" => shown.seen = {}
       /\ h.step = "marking" => h.uncounted \cap shown.seen = {}
                                /\ Decided(h.event) \subseteq shown.seen \cup h.uncounted
       /\ h.step = "counting" => h.uncounted \subseteq shown.seen /\ S = shown.seen \ h.uncounted
  BY <1>3, <1>8 DEF CountedAs
<1>11. h.uncounted \subseteq DecidedBy(h.event)
       /\ (h.step \in Deciding => DecidedBy(h.event) = Decided(h.event))
  BY <1>2 DEF Handlers, DecidedBy
<1>12. CASE h.step = "clearing"
  <2>1. \A g \in late' : g.step \notin {"clearing", "marking", "counting"}
    BY <1>3, <1>4, <1>5, <1>12
  <2>2. IsFiniteSet({}) /\ shown'.counters = CountersOf({}) /\ shown'.seen = {}
    BY <1>9, <1>10, <1>12, FS_EmptySet
  <2>3. CountedAs({})'
    BY <2>1, <2>2 DEF CountedAs
  <2> QED
    BY <1>7, <2>3 DEF AloneInv
<1>13. CASE h.step = "counting"
  <2>1. \A g \in late' : g.step \notin {"clearing", "marking", "counting"}
    BY <1>3, <1>4, <1>5, <1>13
  <2>2. shown'.seen = shown.seen /\ S \cup h.uncounted = shown.seen /\ h.uncounted \cap S = {}
    BY <1>9, <1>10, <1>13
  <2>3. shown'.counters = CountersOf(shown'.seen)
    BY <1>9, <1>10, <1>13, <2>2
  <2>4. IsFiniteSet(shown'.seen)
    <3>1. h.uncounted \subseteq Decided(h.event) /\ h.event \in Events
      BY <1>2, <1>11, <1>13 DEF Deciding, Handlers, Announcements
    <3>2. IsFiniteSet(h.uncounted)
      BY <3>1, DecidedIs, FS_Subset
    <3>3. IsFiniteSet(S \cup h.uncounted)
      BY <1>10, <3>2, FS_Union
    <3> QED
      BY <2>2, <3>3
  <2>5. \A d \in shown'.seen : d \in Decisions /\ DecidedByItsRun(d)'
    BY DEF AnnouncedInv, Announced, ApiInv, States
  <2>6. PICK T : T = shown'.seen
    OBVIOUS
  <2>7. CountedAs(T)'
    BY <2>1, <2>3, <2>4, <2>5, <2>6 DEF CountedAs
  <2> QED
    BY <1>7, <2>7 DEF AloneInv
<1>14. CASE h.step \notin {"clearing", "counting"}
  <2>1. shown'.counters = CountersOf(S) /\ S = shown.seen
    BY <1>9, <1>10, <1>14
  <2>2. (\A g \in late' : g.step \notin {"clearing", "counting"}) => S = shown'.seen
    BY <1>4, <1>6, <1>9, <2>1
  <2>3. \A g \in late' : g.step = "clearing" => shown'.seen = {}
    BY <1>3, <1>4, <1>5, <1>9
  <2>4. \A g \in late' : g.step = "marking" =>
          g.uncounted \cap shown'.seen = {} /\ Decided(g.event) \subseteq shown'.seen \cup g.uncounted
    BY <1>3, <1>4, <1>5, <1>9
  <2>5. \A g \in late' : g.step = "counting" =>
          g.uncounted \subseteq shown'.seen /\ S = shown'.seen \ g.uncounted
    <3> SUFFICES ASSUME h.step = "marking"
                 PROVE  h.uncounted \subseteq shown'.seen /\ S = shown'.seen \ h.uncounted
      BY <1>3, <1>4, <1>5
    <3>1. shown'.seen = shown.seen \cup Decided(h.event)
      BY <1>9
    <3>2. h.uncounted \subseteq Decided(h.event)
      BY <1>11 DEF Deciding
    <3> QED
      BY <1>10, <2>1, <3>1, <3>2
  <2>6. CountedAs(S)'
    BY <1>10, <2>1, <2>2, <2>3, <2>4, <2>5 DEF CountedAs
  <2> QED
    BY <1>7, <2>6 DEF AloneInv
<1> QED
  BY <1>12, <1>13, <1>14

(* What is counted, in every step. *)
LEMMA AloneSteps ==
  ASSUME ApiInv, RunnersInv, AloneInv, [Next]_vars, AnnouncedInv', ApiInv'
  PROVE  AloneInv'
<1> SUFFICES ASSUME ~overlapped' PROVE AloneInv'
  BY DEF AloneInv
<1>0. \A d : DecidedByItsRun(d) => DecidedByItsRun(d)'
  BY DecidedStays
<1>1. ASSUME NEW r \in Runs, PushStep(r)
      PROVE  AloneInv'
  <2>1. runner[r] \in Runners /\ runner[r].step \in Pushing /\ Push(EventOf(r))
    BY <1>1 DEF PushStep, RunnersInv
  <2>2. EventOf(r) \in Announcements
    BY <2>1, EventOfIs
  <2> QED
    BY <1>0, <2>1, <2>2, PushAlone
<1>2. ASSUME NEW sender \in Senders, Push(Event("run_failed", sender, 0))
      PROVE  AloneInv'
  BY <1>0, <1>2, FailureIs, PushAlone
<1>3. CASE \E r \in Runs : PushFailure(r)
  <2>1. PICK r \in Runs : PushFailure(r)
    BY <1>3
  <2> DEFINE sender == IF runner[r].step = "refused" THEN "failed_before_lifecycle_run_id" ELSE r
  <2>2. sender \in Senders
    BY DEF Senders
  <2>3. Push(Event("run_failed", sender, 0))
    BY <2>1 DEF PushFailure
  <2> QED
    BY <1>2, <2>2, <2>3
<1>4. CASE FailureCallback
  <2>1. "airflow" \in Senders
    BY DEF Senders
  <2> QED
    BY <1>2, <1>4, <2>1 DEF FailureCallback
<1>5. CASE HandleLate
  BY <1>0, <1>5, StepAlone
<1>6. CASE RestartApi
  <2>1. shown' = EmptyState /\ \A h \in late' : ~UnderWay(h)
    BY <1>6 DEF RestartApi
  <2>2. \A h \in late' : h.step \notin {"clearing", "marking", "counting"}
    BY <2>1 DEF UnderWay, FirstStep
  <2>3. CountedAs({})'
    BY <2>1, <2>2, EmptyIsState, FS_EmptySet DEF CountedAs, EmptyState
  <2> QED
    BY <2>1, <2>3 DEF AloneInv
<1>7. CASE UNCHANGED lifecycleVars
  <2>1. shown' = shown /\ late' = late /\ overlapped' = overlapped
    BY <1>7 DEF lifecycleVars
  <2>2. PICK S : CountedAs(S)
    BY <2>1 DEF AloneInv
  <2>3. CountedAs(S)'
    BY <1>0, <2>1, <2>2 DEF CountedAs
  <2> QED
    BY <2>1, <2>3 DEF AloneInv
<1> QED
  BY <1>1, <1>3, <1>4, <1>5, <1>6, <1>7, ApiMoves

LEMMA CountingSteps ==
  ASSUME ApiInv, RunnersInv, CountingInv, [Next]_vars
  PROVE  CountingInv'
BY AnnouncedSteps, AloneSteps, ApiSteps DEF CountingInv

(* At most the decisions of the journal, and the current one when the journal has none of its *)
(* cycle, are counted.                                                                        *)
LEMMA CountBounded ==
  ASSUME JournalsInv, NEW seen, \A d \in seen : DecidedByItsRun(d) /\ d \in Decisions,
         NEW r \in Runs, NEW role \in Roles, NEW status \in Statuses
  PROVE  LET p == runner[r]
             label == [run |-> r, role |-> role, status |-> status]
         IN Cardinality({d \in seen : Label(d) = label})
              <= Cardinality({d \in p.decisions : d.role = role /\ d.status = status})
                   + (IF p.status[role] = status /\ ~ \E d \in p.decisions : d.cycle = p.cycle
                      THEN 1 ELSE 0)
<1> DEFINE p == runner[r]
           label == [run |-> r, role |-> role, status |-> status]
           S == {d \in seen : Label(d) = label}
           T == {d \in p.decisions : d.role = role /\ d.status = status}
           current == [cycle |-> p.cycle, role |-> role, status |-> status]
           pending == p.status[role] = status /\ ~ \E d \in p.decisions : d.cycle = p.cycle
           f == [d \in S |-> Journal(d)]
<1>1. JournalInv(p) /\ seen \subseteq Decisions
  BY DEF JournalsInv
<1>2. IsFiniteSet(T) /\ Cardinality(T) \in Nat /\ IsFiniteSet(T \cup {current})
  <2>1. IsFiniteSet(p.decisions)
    BY <1>1 DEF JournalInv
  <2>2. IsFiniteSet(T)
    BY <2>1, FS_Subset
  <2> HIDE DEF T, current
  <2> QED
    BY <2>2, FS_AddElement, FS_CardinalityType
<1>3. ASSUME NEW d \in S
      PROVE  /\ d = [run |-> r, cycle |-> d.cycle, role |-> role, status |-> status]
             /\ Journal(d) = [cycle |-> d.cycle, role |-> role, status |-> status]
             /\ Journal(d) \in T \/ (pending /\ Journal(d) = current)
  <2>1. d \in Decisions /\ d.run = r /\ d.role = role /\ d.status = status
    BY <1>1, <1>3 DEF Label
  <2>2. /\ d = [run |-> r, cycle |-> d.cycle, role |-> role, status |-> status]
        /\ Journal(d) = [cycle |-> d.cycle, role |-> role, status |-> status]
    BY <2>1 DEF Decisions, Journal
  <2>4. IsOf(d, p)
    BY <2>1 DEF DecidedByItsRun
  <2>5. CASE Journal(d) \in p.decisions
    BY <2>2, <2>5
  <2>6. CASE Journal(d) \in JudgementsOf(p) /\ Journal(d) \notin p.decisions
    <3>1. PICK o \in Roles : Journal(d) = [cycle |-> p.cycle, role |-> o, status |-> p.status[o]]
      BY <2>6 DEF JudgementsOf
    <3>2. o = role /\ p.status[role] = status /\ d.cycle = p.cycle
      BY <2>2, <3>1
    <3>3. ~ \E x \in p.decisions : x.cycle = p.cycle
      BY <1>1, <2>6 DEF JournalInv
    <3> QED
      BY <2>2, <3>2, <3>3
  <2> QED
    BY <2>2, <2>4, <2>5, <2>6 DEF IsOf
<1>4. \A a, b \in S : f[a] = f[b] => a = b
  <2> TAKE a, b \in S
  <2> HAVE f[a] = f[b]
  <2>1. Journal(a) = Journal(b)
    OBVIOUS
  <2>2. a.cycle = b.cycle
    BY <2>1 DEF Journal
  <2> QED
    BY <1>3, <2>2
<1>5. CASE pending
  <2>1. f \in [S -> T \cup {current}]
    BY <1>3
  <2>2. f \in Injection(S, T \cup {current})
    BY <1>4, <2>1 DEF Injection, IsInjective
  <2>3. current \notin T
    BY <1>5
  <2> HIDE DEF S, T, current, f
  <2>4. Cardinality(S) <= Cardinality(T \cup {current})
    BY <1>2, <2>2, FS_Injection
  <2>5. Cardinality(T \cup {current}) = Cardinality(T) + 1
    BY <1>2, <2>3, FS_AddElement
  <2> QED
    BY <1>5, <2>4, <2>5 DEF S, T
<1>6. CASE ~pending
  <2>1. f \in [S -> T]
    BY <1>3, <1>6
  <2>2. f \in Injection(S, T)
    BY <1>4, <2>1 DEF Injection, IsInjective
  <2> HIDE DEF S, T, f
  <2>3. Cardinality(S) <= Cardinality(T)
    BY <1>2, <2>2, FS_Injection
  <2>4. Cardinality(S) <= Cardinality(T) + 0
    BY <1>2, <2>3
  <2> QED
    BY <1>6, <2>4 DEF S, T
<1> QED
  BY <1>5, <1>6

LEMMA CountingInvariant == Spec => [](TypeInv /\ EvidenceInv /\ CountingInv)
<1>1. Init => TypeInv /\ EvidenceInv /\ CountingInv
  <2> SUFFICES ASSUME Init PROVE CountingInv
    BY InitTypes
  <2>1. \A r \in Runs : runner[r] = NoRunner
    BY DEF Init
  <2>2. JournalInv(NoRunner)
    BY FS_EmptySet DEF NoRunner, JournalInv, Cycling
  <2>3. Announced = {}
    BY DEF Init, Announced, EmptyState
  <2>4. CountedAs({})
    BY EmptyIsState, FS_EmptySet DEF Init, CountedAs, EmptyState
  <2>5. late = {}
    BY DEF Init
  <2> QED
    BY <2>1, <2>2, <2>3, <2>4, <2>5 DEF CountingInv, JournalsInv, AnnouncedInv, AloneInv
<1>2. TypeInv /\ EvidenceInv /\ CountingInv /\ [Next]_vars
        => (TypeInv /\ EvidenceInv /\ CountingInv)'
  BY TypeSteps, CountingSteps DEF TypeInv
<1> QED
  BY <1>1, <1>2, PTL DEF Spec

(* A promotion counts once, for any number of cycles, of lost and slow events and of restarts *)
(* of the API, as long as no two threads of the API were in the middle of their events at     *)
(* once: what the counter of a run, a role and a status says is at most the number of its     *)
(* cycles that were decided so (_record_lifecycle_promotion_status).                          *)
THEOREM PromotionsCountOnce == Spec => []CountedOnce
<1>1. CountingInv => CountedOnce
  <2> SUFFICES ASSUME CountingInv, ~overlapped,
                      NEW r \in Runs, NEW role \in Roles, NEW status \in Statuses,
                      BagIn([run |-> r, role |-> role, status |-> status], Shown(shown).counters)
               PROVE  Shown(shown).counters[[run |-> r, role |-> role, status |-> status]]
                        <= Cardinality({d \in runner[r].decisions :
                                          d.role = role /\ d.status = status})
                             + (IF runner[r].status[role] = status
                                   /\ ~ \E d \in runner[r].decisions : d.cycle = runner[r].cycle
                                THEN 1 ELSE 0)
    BY Zenon DEF CountedOnce
  <2> DEFINE label == [run |-> r, role |-> role, status |-> status]
  <2>1. PICK S : CountedAs(S)
    BY DEF CountingInv, AloneInv
  <2>2. Shown(shown).counters = CountersOf(S)
    <3>1. shown.counters = CountersOf(S)
      BY <2>1 DEF CountedAs
    <3>2. Shown(shown).counters = shown.counters
      BY DEF Shown, EmptyState
    <3> QED
      BY <3>1, <3>2
  <2>3. label \in DOMAIN CountersOf(S)
    BY <2>2 DEF BagIn, BagToSet
  <2>4. CountersOf(S)[label] = Cardinality({d \in S : Label(d) = label})
    BY <2>3 DEF CountersOf
  <2>5. JournalsInv /\ \A d \in S : DecidedByItsRun(d) /\ d \in Decisions
    BY <2>1 DEF CountingInv, CountedAs
  <2> HIDE DEF label
  <2>6. Shown(shown).counters[label] = Cardinality({d \in S : Label(d) = label})
    BY <2>2, <2>4
  <2> QED
    BY <2>5, <2>6, CountBounded DEF label
<1> QED
  BY <1>1, CountingInvariant, PTL

-----------------------------------------------------------------------------
(* What /metrics shows of a run that nobody disturbs *)

(* A push that reaches the API at once, by the run that was heard last or that starts. *)
Heard(r) ==
  /\ shown' = Recorded(shown, EventOf(r))
  /\ runner[r].step = "run_started" \/ heard = r

(* Who is heard after a step: a run that pushed and was applied, or one that was heard before *)
(* and of whom nothing changed at the API.                                                    *)
LEMMA HeardMoves ==
  ASSUME TypeInv, [Next]_vars, NEW r \in Runs, heard' = r
  PROVE  \/ PushStep(r) /\ Heard(r)
         \/ PushFailure(r)
         \/ ~PushStep(r) /\ heard = r /\ shown' = shown
<1> DEFINE Quiet == heard = r /\ shown' = shown
<1>0. r # None /\ r \in Senders
  BY CyclesAreNumbers
<1>1. ASSUME NEW e, Push(e), e.run # r
      PROVE  Quiet
  <2>1. CASE Applied(e)
    BY <1>0, <1>1, <2>1 DEF Applied, HeardAfter
  <2>2. CASE Lost(e) \/ Slow(e)
    BY <1>0, <1>1, <2>2 DEF Lost, Slow
  <2> QED
    BY <1>1, <2>1, <2>2 DEF Push
<1>2. ASSUME NEW o \in Runs, PushStep(o)
      PROVE  LET e == EventOf(o) IN Push(e) /\ e.run = o /\ e.type = runner[o].step
  <2>1. runner[o] \in Runners /\ runner[o].step \in Pushing /\ Push(EventOf(o))
    BY <1>2 DEF PushStep, TypeInv, RunnersInv
  <2> QED
    BY <2>1, EventOfIs
<1>3. CASE PushStep(r)
  <2> DEFINE e == EventOf(r)
  <2>1. Push(e) /\ e.run = r /\ e.type = runner[r].step
    BY <1>2, <1>3
  <2> HIDE DEF e
  <2>2. Applied(e)
    BY <1>0, <2>1 DEF Push, Lost, Slow
  <2>3. runner[r].step = "run_started" \/ heard = r
    BY <1>0, <2>1, <2>2 DEF Applied, HeardAfter
  <2> QED
    BY <1>3, <2>2, <2>3 DEF Applied, Heard, e
<1>4. CASE ~PushStep(r)
  <2> SUFFICES Quiet \/ PushFailure(r)
    BY <1>4
  <2>1. ASSUME NEW o \in Runs, PushStep(o)
        PROVE  Quiet
    <3>1. Push(EventOf(o)) /\ EventOf(o).run # r
      BY <1>2, <1>4, <2>1
    <3> QED
      BY <1>1, <3>1
  <2>2. ASSUME NEW sender \in Senders \ {r}, Push(Event("run_failed", sender, 0))
        PROVE  Quiet
    BY <1>1, <2>2, FailureIs
  <2>3. ASSUME NEW o \in Runs, PushFailure(o), o # r
        PROVE  Quiet
    <3> DEFINE sender == IF runner[o].step = "refused" THEN "failed_before_lifecycle_run_id"
                         ELSE o
    <3>1. sender \in Senders \ {r}
      BY <2>3, CorrectionAssumption DEF Senders
    <3>2. Push(Event("run_failed", sender, 0))
      BY <2>3 DEF PushFailure
    <3> QED
      BY <2>2, <3>1, <3>2
  <2>4. CASE FailureCallback
    <3>1. "airflow" \in Senders \ {r}
      BY CorrectionAssumption DEF Senders
    <3> QED
      BY <2>2, <2>4, <3>1 DEF FailureCallback
  <2>5. ~HandleLate /\ ~RestartApi
    BY <1>0 DEF HandleLate, RestartApi
  <2>6. CASE UNCHANGED lifecycleVars
    BY <2>6 DEF lifecycleVars
  <2> QED
    BY <2>1, <2>3, <2>4, <2>5, <2>6, ApiMoves
<1> QED
  BY <1>3, <1>4

(* What a run that moves without a push becomes is still what the API shows of it. *)
LEMMA ShowsMoves ==
  ASSUME NEW r, NEW s, NEW p \in Runners, NEW q \in Runners,
         JournalInv(p), Shows(s, r, p), Moves(r, p, q), ~Pushes(p, q)
  PROVE  Shows(s, r, q)
<1>1. CASE Replays(r, p, q)
  <2>1. JournaledBy(r, q) = JournaledBy(r, p)
    BY <1>1 DEF Replays, JournaledBy
  <2>2. /\ p.step = "replaying" /\ q.step \in {"cycle_started", "run_completed"}
        /\ q.runtime = p.runtime
    BY <1>1 DEF Replays
  <2> QED
    BY <2>1, <2>2 DEF Shows, Holding, InCycle
<1>2. CASE Compares(r, p, q)
  <2>1. JournaledBy(r, q) = JournaledBy(r, p)
    BY <1>2 DEF Compares, JournaledBy
  <2>2. p.step = "comparing" /\ q.step = "phase_promotion" /\ q.runtime = p.runtime
    BY <1>2 DEF Compares
  <2> QED
    BY <2>1, <2>2 DEF Shows, Holding, InCycle
<1>3. CASE Activates(r, p, q)
  <2>1. /\ p.step = "activating" /\ q.step = "promotion_decision"
        /\ q.runtime = RuntimeAfter(p) \/ ~DualPromotion[r]
        /\ q.decisions = p.decisions \cup JudgementsOf(p)
    BY <1>3 DEF Activates
  <2>2. JournaledBy(r, q) = JournaledBy(r, p) \cup AnnouncedBy(r, p)
    <3> DEFINE all == {[run |-> r, cycle |-> d.cycle, role |-> d.role, status |-> d.status] :
                         d \in JudgementsOf(p)}
    <3>1. JournaledBy(r, q) = JournaledBy(r, p) \cup all
      BY <2>1 DEF JournaledBy
    <3>2. all \subseteq AnnouncedBy(r, p)
      BY DEF AnnouncedBy, JudgementsOf
    <3>3. ASSUME NEW role \in Roles
          PROVE  [run |-> r, cycle |-> p.cycle, role |-> role, status |-> p.status[role]] \in all
      <4> DEFINE d == [cycle |-> p.cycle, role |-> role, status |-> p.status[role]]
      <4>1. d \in JudgementsOf(p)
        BY DEF JudgementsOf
      <4>2. [run |-> r, cycle |-> d.cycle, role |-> d.role, status |-> d.status] \in all
        BY <4>1
      <4> QED
        BY <4>2
    <3>4. AnnouncedBy(r, p) \subseteq all
      BY <3>3 DEF AnnouncedBy
    <3> QED
      BY <3>1, <3>2, <3>4
  <2> QED
    BY <2>1, <2>2 DEF Shows, Holding, InCycle
<1>4. CASE Ends(p, q)
  <2>1. CASE p.step = "releasing" /\ q.step = "completed"
    <3>1. JournaledBy(r, q) = JournaledBy(r, p) /\ q.runtime = p.runtime
      BY <1>4 DEF Ends, KeepsItsRecord, JournaledBy
    <3> QED
      BY <2>1, <3>1 DEF Shows, Holding
  <2>2. CASE q.step \in {"raising", "failed", "killed"}
    BY <2>2 DEF Shows, Holding
  <2> QED
    BY <1>4, <2>1, <2>2 DEF Ends
<1>5. ~Starts(p, q)
  BY DEF Shows, Starts
<1> QED
  BY <1>1, <1>2, <1>3, <1>4, <1>5 DEF Moves

(* Versions that are given replace the old ones, and no versions keep them. *)
LEMMA GivenIs ==
  ASSUME NEW old \in Versions
  PROVE  /\ Given(NoVersions, old) = old
         /\ \A new \in [Roles -> Cycles] :
              new \in Versions \ {NoVersions} /\ Given(new, old) = new
<1>1. Given(NoVersions, old) = old
  BY DEF Given, NoVersions, Versions
<1>2. ASSUME NEW new \in [Roles -> Cycles]
      PROVE  new \in Versions \ {NoVersions} /\ Given(new, old) = new
  <2>1. "classification" \in Roles
    BY DEF Roles
  <2>2. new["classification"] # NoVersions["classification"]
    BY <2>1, CyclesAreNumbers DEF NoVersions
  <2>3. new \in Versions
    BY DEF Versions
  <2>4. \A role \in Roles : new[role] # None
    BY CyclesAreNumbers
  <2>5. Given(new, old) = [role \in Roles |-> new[role]]
    BY <2>4 DEF Given
  <2> QED
    BY <2>2, <2>3, <2>5
<1> QED
  BY <1>1, <1>2

(* What a run pushes is what the API shows of it. *)
LEMMA ShowsPush ==
  ASSUME NEW r \in Runs, NEW p \in Runners, NEW q \in Runners, NEW s \in States,
         JournalInv(p), p.step \in Judging => p.status \in [Roles -> Statuses], Pushes(p, q),
         p.step = "run_started" \/ Shows(s, r, p),
         NEW e \in Announcements, e.type = p.step, e.run = r, e.cycle = p.cycle,
         e.epoch = IF p.step = "epoch_completed" THEN p.epoch ELSE 0,
         p.step \in DecisionEvents => e.status = p.status,
         e.active = IF p.step \in {"run_started", "cycle_started",
                                   "training_manifest_ready", "run_completed"}
                    THEN p.runtime ELSE NoVersions,
         p.step # "run_started" => e.candidate = p.cycle
  PROVE  Shows(Recorded(s, e), r, q)
<1> DEFINE t == Recorded(s, e)
           b == Started(s, e)
<1>1. /\ e \in Events /\ p.step \in Pushing /\ q.step \in Follows(p.step)
      /\ q.cycle = p.cycle /\ q.runtime = p.runtime /\ q.status = p.status
      /\ q.decisions = p.decisions
  BY DEF Announcements, Pushes, KeepsItsRecord
<1>2. /\ p.runtime \in [Roles -> Cycles] /\ s.active \in Versions /\ s.final \in Versions
      /\ NoVersions \in Versions
  BY DEF Runners, States, NoVersions, Versions
<1>3. /\ t \in States /\ t.run = r /\ t.seen = b.seen \cup DecidedBy(e)
      /\ t.cycle = (IF p.cycle = 0 THEN b.cycle ELSE p.cycle)
      /\ t.final = Given(e.active, b.final)
      /\ p.step = "run_completed" => t.epoch = 0 /\ t.active = NoVersions /\ t.phases = {}
  BY <1>1, RecordedIs, SMTT(30) DEF Pushing
<1>4. p.step # "run_completed" =>
        /\ t.epoch = (IF p.step = "phase_evaluation_gate" THEN 0
                      ELSE IF e.epoch = 0 THEN b.epoch ELSE e.epoch)
        /\ p.step \notin DOMAIN PhaseOf => t.phases = b.phases
        /\ p.step \in DOMAIN PhaseOf =>
             t.phases = {m \in b.phases : <<m.run, m.cycle>> # <<t.run, t.cycle>>}
                          \cup {[run |-> t.run, cycle |-> t.cycle, phase |-> PhaseOf[p.step]]}
  <2>1. e.type \notin {"run_completed", "run_failed"} =>
          /\ t.epoch = IF e.type = "phase_evaluation_gate" THEN 0
                       ELSE IF e.epoch = 0 THEN b.epoch ELSE e.epoch
          /\ e.type \notin DOMAIN PhaseOf => t.phases = b.phases
          /\ e.type \in DOMAIN PhaseOf =>
               t.phases = {m \in b.phases : <<m.run, m.cycle>> # <<t.run, t.cycle>>}
                            \cup {[run |-> t.run, cycle |-> t.cycle, phase |-> PhaseOf[e.type]]}
    BY <1>1, RecordedIs, Zenon
  <2>2. p.step # "run_failed" /\ e.type = p.step
    BY <1>1 DEF Pushing
  <2> HIDE DEF t, b
  <2> QED
    BY <2>1, <2>2
<1>5. p.step # "run_completed" =>
        \A active \in Versions \ {NoVersions} :
          /\ active = IF p.step \in DecisionEvents
                      THEN [role \in Roles |-> IF e.status[role] = "promoted"
                                               THEN e.candidate ELSE b.active[role]]
                      ELSE Given(e.active, b.active)
          /\ p.step \in DecisionEvents => e.active = NoVersions
          => t.active = active
  BY <1>1, RecordedIs, ZenonT(30) DEF Pushing
<1>6. /\ p.step = "run_started" => b = EmptyState
      /\ p.step # "run_started" => b = s
      /\ b \in States /\ (Counting(b) => Counting(t))
  BY <1>1, RecordedIs
<1>7. /\ p.runtime \in Versions \ {NoVersions}
      /\ \A old \in Versions : Given(p.runtime, old) = p.runtime /\ Given(NoVersions, old) = old
  BY <1>2, GivenIs
<1> HIDE DEF t, b
<1>8. JournaledBy(r, q) = JournaledBy(r, p) /\ AnnouncedBy(r, q) = AnnouncedBy(r, p)
  BY <1>1 DEF JournaledBy, AnnouncedBy
<1>9. DecidedBy(e) \subseteq AnnouncedBy(r, p)
      /\ (p.step \notin DecisionEvents => DecidedBy(e) = {})
  BY DEF DecidedBy, Decided, AnnouncedBy
<1>10. p.step \in DecisionEvents => DecidedBy(e) = AnnouncedBy(r, p)
  <2> SUFFICES ASSUME p.step \in DecisionEvents, NEW role \in Roles
               PROVE  [run |-> r, cycle |-> p.cycle, role |-> role, status |-> p.status[role]]
                        \in DecidedBy(e)
    BY <1>9 DEF AnnouncedBy
  <2>1. p.status[role] # None
    BY CyclesAreNumbers DEF Judging, DecisionEvents
  <2> QED
    BY <2>1 DEF DecidedBy, Decided
<1>11. p.step \in Cycling => p.cycle # 0
  BY DEF JournalInv
<1>12. Roles = {"classification", "localization"}
  BY DEF Roles
<1> USE DEF DecisionEvents
<1>13. CASE p.step = "run_started"
  <2>1. /\ q.step = "replaying" /\ b = EmptyState /\ e.active = p.runtime /\ e.epoch = 0
        /\ p.step \notin DOMAIN PhaseOf
    BY <1>1, <1>6, <1>13 DEF Follows, PhaseOf
  <2>2. t.seen = {} /\ t.phases = {} /\ t.epoch = 0
    BY <1>3, <1>4, <1>9, <1>13, <2>1 DEF EmptyState
  <2>3. t.active = p.runtime
    <3>1. b.active \in Versions
      BY <1>2, <2>1 DEF EmptyState
    <3> QED
      BY <1>5, <1>7, <1>13, <2>1, <3>1
  <2>4. JournaledBy(r, q) = {}
    BY <1>1, <1>13 DEF JournaledBy, JournalInv
  <2>5. Counting(t)
    BY <1>6, <2>1, ResetIs
  <2> QED
    BY <1>1, <1>3, <2>1, <2>2, <2>3, <2>4, <2>5 DEF Shows, t
<1>14. CASE p.step # "run_started"
  <2>1. b = s /\ Shows(s, r, p) /\ p.step \in Holding
    BY <1>1, <1>6, <1>14 DEF Pushing, Holding
  <2>2. /\ \A mark \in s.phases : mark.run = r
        /\ s.seen = JournaledBy(r, p)
        /\ s.epoch # 0 => p.step \in {"epoch_completed", "phase_evaluation_gate"}
        /\ DualPromotion[r] \/ p.step \in InCycle => s.active = p.runtime
    <3>1. p.step \notin {"activating", "releasing"}
      BY <1>1 DEF Pushing
    <3> QED
      BY <2>1, <3>1 DEF Shows
  <2>8. Counting(t)
    BY <1>6, <2>1 DEF Shows
  <2>9. q.step \notin {"promotion_decision", "run_completed", "cycle_started", "run_started"}
    BY <1>1 DEF Follows, Pushing
  <2>3. CASE p.step \in {"cycle_started", "training_manifest_ready", "phase_training"}
    <3>1. /\ q.step \in {"training_manifest_ready", "phase_training", "epoch_completed"}
          /\ e.epoch = 0
      BY <1>1, <2>3 DEF Follows
    <3>2. t.active = p.runtime
      <4>1. p.step = "phase_training" => s.active = p.runtime
        BY <2>2 DEF InCycle
      <4> QED
        BY <1>2, <1>5, <1>7, <2>1, <2>3, <4>1
    <3>3. t.epoch = 0 /\ \A mark \in t.phases : mark.run = r
      BY <1>3, <1>4, <2>1, <2>2, <2>3, <3>1
    <3>4. t.seen = JournaledBy(r, q)
      BY <1>3, <1>8, <1>9, <2>1, <2>2, <2>3
    <3> QED
      BY <1>1, <1>3, <2>8, <3>1, <3>2, <3>3, <3>4 DEF Shows, t
  <2>4. CASE p.step = "epoch_completed"
    <3>1. q.step \in {"epoch_completed", "phase_evaluation_gate"}
      BY <1>1, <2>4 DEF Follows
    <3>2. t.active = p.runtime
      BY <1>2, <1>5, <1>7, <2>1, <2>2, <2>4 DEF InCycle
    <3>3. \A mark \in t.phases : mark.run = r
      BY <1>3, <1>4, <2>1, <2>2, <2>4
    <3>4. t.seen = JournaledBy(r, q)
      BY <1>3, <1>8, <1>9, <2>1, <2>2, <2>4
    <3> QED
      BY <1>1, <1>3, <2>8, <3>1, <3>2, <3>3, <3>4 DEF Shows, t
  <2>5. CASE p.step \in {"phase_evaluation_gate", "phase_promotion"}
    <3>1. /\ q.step = IF p.step = "phase_promotion" THEN "gate_decision" ELSE "comparing"
          /\ p.step \in DOMAIN PhaseOf /\ e.epoch = 0
          /\ PhaseOf[p.step] = IF p.step = "phase_promotion" THEN "promotion"
                               ELSE "evaluation_gate"
      BY <1>1, <2>5 DEF Follows, PhaseOf
    <3>2. t.active = p.runtime
      BY <1>2, <1>5, <1>7, <2>1, <2>2, <2>5 DEF InCycle
    <3>3. t.epoch = 0
      BY <1>4, <2>1, <2>2, <2>5, <3>1
    <3> DEFINE mark == [run |-> t.run, cycle |-> t.cycle, phase |-> PhaseOf[p.step]]
    <3>4. t.phases = {m \in s.phases : <<m.run, m.cycle>> # <<t.run, t.cycle>>} \cup {mark}
      BY <1>4, <2>1, <2>5, <3>1
    <3>5. \A m \in t.phases : m.run = r
      BY <1>3, <2>2, <3>4
    <3>6. t.cycle = p.cycle
      BY <1>3, <1>11, <2>5 DEF Cycling
    <3>7. {m \in t.phases : m.cycle = p.cycle} = {mark}
      BY <1>3, <2>2, <3>4, <3>6
    <3>8. PhasesIn(t, q.cycle) = {PhaseOf[p.step]}
      <4>1. {m.phase : m \in {mark}} = {PhaseOf[p.step]}
        OBVIOUS
      <4>2. PhasesIn(t, p.cycle) = {m.phase : m \in {mark}}
        BY <3>7, Zenon DEF PhasesIn
      <4> QED
        BY <1>1, <4>1, <4>2
    <3>9. t.seen = JournaledBy(r, q)
      BY <1>3, <1>8, <1>9, <2>1, <2>2, <2>5
    <3> QED
      BY <1>1, <1>3, <2>5, <2>8, <3>1, <3>2, <3>3, <3>5, <3>8, <3>9 DEF Shows, t
  <2>6. CASE p.step \in DecisionEvents
    <3> DEFINE active == [role \in Roles |-> IF e.status[role] = "promoted"
                                             THEN e.candidate ELSE b.active[role]]
    <3>1. DualPromotion[r] => active = RuntimeAfter(p)
      BY <2>1, <2>2, <2>6 DEF RuntimeAfter
    <3>2. RuntimeAfter(p) \in [Roles -> Cycles]
      BY <1>2 DEF RuntimeAfter, Runners
    <3>3. (DualPromotion[r] => active \in Versions \ {NoVersions}) /\ e.active = NoVersions
      BY <1>2, <2>6, <3>1, <3>2, GivenIs
    <3> HIDE DEF active
    <3>4. DualPromotion[r] => t.active = RuntimeAfter(p)
      <4>1. active = [role \in Roles |-> IF e.status[role] = "promoted"
                                         THEN e.candidate ELSE b.active[role]]
        BY DEF active
      <4> QED
        BY <1>5, <2>6, <3>1, <3>3, <4>1
    <3>5. t.seen = JournaledBy(r, p) \cup AnnouncedBy(r, p)
      BY <1>3, <1>10, <2>1, <2>2, <2>6
    <3>6. t.epoch = 0 /\ \A mark \in t.phases : mark.run = r
      <4>1. p.step \notin DOMAIN PhaseOf /\ e.epoch = 0
        BY <2>6 DEF PhaseOf
      <4> QED
        BY <1>4, <2>1, <2>2, <2>6, <4>1
    <3>7. CASE p.step = "gate_decision"
      <4>1. q.step = "activating" /\ RuntimeAfter(q) = RuntimeAfter(p)
        BY <1>1, <3>7 DEF Follows, RuntimeAfter
      <4> QED
        BY <1>3, <1>8, <2>8, <3>4, <3>5, <3>6, <4>1 DEF Shows, InCycle, t
    <3>8. CASE p.step = "promotion_decision"
      <4>1. q.step = "replaying"
        BY <1>1, <3>8 DEF Follows
      <4>2. AnnouncedBy(r, p) \subseteq JournaledBy(r, p)
        <5>1. ASSUME NEW role \in Roles
              PROVE  [run |-> r, cycle |-> p.cycle, role |-> role, status |-> p.status[role]]
                       \in JournaledBy(r, p)
          <6> DEFINE d == [cycle |-> p.cycle, role |-> role, status |-> p.status[role]]
          <6>1. d \in p.decisions
            BY <3>8 DEF JournalInv, JudgementsOf
          <6>2. [run |-> r, cycle |-> d.cycle, role |-> d.role, status |-> d.status]
                  \in JournaledBy(r, p)
            BY <6>1 DEF JournaledBy
          <6> QED
            BY <6>2
        <5> QED
          BY <5>1 DEF AnnouncedBy
      <4>3. RuntimeAfter(p) = p.runtime
        <5>1. \A role \in Roles : p.status[role] = "promoted" => p.runtime[role] = p.cycle
          BY <3>8 DEF JournalInv
        <5> QED
          BY <1>2, <5>1 DEF RuntimeAfter
      <4> QED
        BY <1>1, <1>3, <1>8, <2>8, <3>4, <3>5, <3>6, <4>1, <4>2, <4>3 DEF Shows, InCycle, t
    <3> QED
      BY <2>6, <3>7, <3>8
  <2>7. CASE p.step = "run_completed"
    <3>1. q.step = "releasing"
      BY <1>1, <2>7 DEF Follows
    <3>2. t.final = p.runtime
      BY <1>2, <1>3, <1>7, <2>1, <2>7
    <3>3. t.seen = JournaledBy(r, q)
      BY <1>3, <1>8, <1>9, <2>1, <2>2, <2>7
    <3> QED
      BY <1>1, <1>3, <2>7, <2>8, <3>1, <3>2, <3>3 DEF Shows, t
  <2> QED
    BY <1>1, <1>14, <2>3, <2>4, <2>5, <2>6, <2>7 DEF Pushing
<1> QED
  BY <1>13, <1>14

(* What the API shows of the run it heard last, in every step. *)
LEMMA ShownSteps ==
  ASSUME TypeInv, CountingInv, ShownInv, [Next]_vars
  PROVE  ShownInv'
<1> SUFFICES ASSUME NEW r \in Runs, heard' = r
             PROVE  Shows(shown', r, runner'[r])
  BY DEF ShownInv
<1> DEFINE p == runner[r]
           q == runner'[r]
<1>1. /\ runner \in [Runs -> Runners] /\ p \in Runners /\ JournalInv(p)
      /\ p.step \in Judging => p.status \in [Roles -> Statuses]
      /\ shown \in States
  BY DEF TypeInv, RunnersInv, ApiInv, CountingInv, JournalsInv
<1>2. CASE PushStep(r) /\ Heard(r)
  <2> DEFINE e == EventOf(r)
  <2>1. p.step \in Pushing /\ runner' = [runner EXCEPT ![r] = AfterPush(p)]
    BY <1>2 DEF PushStep
  <2>2. q \in Runners /\ Pushes(p, q)
    BY <1>1, <2>1, AfterPushIs
  <2>3. shown' = Recorded(shown, e) /\ (p.step = "run_started" \/ Shows(shown, r, p))
    BY <1>2 DEF Heard, ShownInv
  <2>4. /\ e \in Announcements /\ e.type = p.step /\ e.run = r /\ e.cycle = p.cycle
        /\ e.epoch = IF p.step = "epoch_completed" THEN p.epoch ELSE 0
        /\ p.step \in DecisionEvents => e.status = p.status
        /\ e.active = IF p.step \in {"run_started", "cycle_started",
                                     "training_manifest_ready", "run_completed"}
                      THEN p.runtime ELSE NoVersions
        /\ p.step # "run_started" => e.candidate = p.cycle
    BY <1>1, <2>1, EventOfIs
  <2> HIDE DEF e, p, q
  <2>5. Shows(Recorded(shown, e), r, q)
    BY <1>1, <2>2, <2>3, <2>4, ShowsPush
  <2> QED
    BY <2>3, <2>5 DEF q
<1>3. CASE PushFailure(r)
  <2>1. q.step = "failed"
    BY <1>1, <1>3, StepBecomes DEF PushFailure, TypeInv, Over
  <2> QED
    BY <2>1 DEF Shows, Holding
<1>4. CASE ~PushStep(r) /\ heard = r /\ shown' = shown
  <2>1. Shows(shown, r, p)
    BY <1>4 DEF ShownInv
  <2>2. \/ q = p
        \/ q \in Runners /\ Moves(r, p, q) /\ ~Pushes(p, q)
    <3>1. RunnersInv
      BY DEF TypeInv
    <3>2. CASE UNCHANGED runner
      BY <3>2
    <3>3. ASSUME runner' \in [Runs -> Runners], NEW o \in Runs, Only(o),
                 Moves(o, runner[o], runner'[o]),
                 PushStep(o) \/ ~Pushes(runner[o], runner'[o])
          PROVE  \/ q = p
                 \/ q \in Runners /\ Moves(r, p, q) /\ ~Pushes(p, q)
      <4>1. CASE o = r
        BY <1>4, <3>3, <4>1
      <4>2. CASE o # r
        BY <3>3, <4>2 DEF Only
      <4> QED
        BY <4>1, <4>2
    <3> QED
      BY <3>1, <3>2, <3>3, RunnerMoves, Zenon
  <2> HIDE DEF p, q
  <2>3. Shows(shown, r, q)
    BY <1>1, <2>1, <2>2, ShowsMoves
  <2> QED
    BY <1>4, <2>3 DEF q
<1> QED
  BY <1>2, <1>3, <1>4, HeardMoves

LEMMA ShownInvariant == Spec => [](TypeInv /\ EvidenceInv /\ CountingInv /\ ShownInv)
<1>1. Init => ShownInv
  BY CyclesAreNumbers DEF Init, ShownInv
<1>2. TypeInv /\ CountingInv /\ ShownInv /\ [Next]_vars => ShownInv'
  BY ShownSteps
<1>3. TypeInv /\ EvidenceInv /\ CountingInv <=> TypeInv /\ (EvidenceInv /\ CountingInv)
  OBVIOUS
<1> QED
  BY <1>1, <1>2, CountingInvariant, PTL DEF Spec

(* What /metrics shows of a run none of whose events was lost, slow or followed by those of   *)
(* another sender is that run: its epoch, its phase and, while it trains, its versions, and   *)
(* the decisions of its journal between cycles and after its end, for any number of cycles    *)
(* and epochs, whatever happens to the other run and with or without --dual-promotion; its    *)
(* versions between cycles under --dual-promotion only (_record_lifecycle_observation,        *)
(* _lifecycle_metrics_lines).                                                                 *)
THEOREM UndisturbedRunsAreShown == Spec => []UndisturbedRunIsShown
<1>1. TypeInv /\ ShownInv => UndisturbedRunIsShown
  <2> SUFFICES ASSUME TypeInv, ShownInv, NEW r \in Runs, heard = r,
                      runner[r].step \in Holding \cup {"completed"}
               PROVE  LET p == runner[r]
                          s == Shown(shown)
                      IN /\ s.run = r
                         /\ \A mark \in s.phases : mark.run = r
                         /\ p.step \in {"replaying", "run_completed", "releasing", "completed"} =>
                              s.counters = CountersOf(JournaledOf(r))
                         /\ \/ p.step \in Working
                            \/ DualPromotion[r]
                                 /\ p.step \in {"replaying", "cycle_started",
                                                "promotion_decision", "run_completed"}
                            => s.active = p.runtime
                         /\ s.epoch # 0 => p.step \in {"epoch_completed", "phase_evaluation_gate"}
                         /\ p.step \in {"comparing", "gate_decision"} =>
                              {m.phase : m \in {m \in s.phases : m.cycle = p.cycle}} =
                                {IF p.step = "comparing" THEN "evaluation_gate" ELSE "promotion"}
                         /\ p.step \in {"releasing", "completed"} =>
                              /\ s.final = p.runtime /\ s.active = NoVersions /\ s.phases = {}
                              /\ s.epoch = 0
    BY Zenon DEF UndisturbedRunIsShown
  <2>1. Shows(shown, r, runner[r])
    BY DEF ShownInv
  <2>2. Shown(shown) = shown
    BY <2>1, CyclesAreNumbers DEF Shown, Shows
  <2>3. runner[r].step \in {"replaying", "run_completed", "releasing", "completed"} =>
          shown.counters = CountersOf(JournaledOf(r))
    <3>1. shown.counters = CountersOf(shown.seen)
      BY <2>1 DEF Shows, Counting
    <3>2. JournaledBy(r, runner[r]) = JournaledOf(r)
      BY DEF JournaledBy, JournaledOf
    <3>3. runner[r].step # "activating" => shown.seen = JournaledOf(r)
      BY <2>1, <3>2 DEF Shows
    <3> QED
      BY <3>1, <3>3
  <2>4. runner[r].step \in {"comparing", "gate_decision"} =>
          {m.phase : m \in {m \in shown.phases : m.cycle = runner[r].cycle}} =
            {IF runner[r].step = "comparing" THEN "evaluation_gate" ELSE "promotion"}
    BY <2>1 DEF Shows, PhasesIn
  <2> QED
    BY <2>1, <2>2, <2>3, <2>4 DEF Shows, Holding, InCycle, Working
<1> QED
  BY <1>1, ShownInvariant, PTL
=============================================================================

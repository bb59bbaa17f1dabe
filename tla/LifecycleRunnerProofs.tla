----------------------- MODULE LifecycleRunnerProofs -----------------------
(***************************************************************************)
(* Theorems about LifecycleRunner, for any plans of rows, command lines,   *)
(* scores, panels, numbers of epochs and of runs, and any failure: what a  *)
(* run counts, what its gate judges, what it registers and what it goes on *)
(* replaying with.                                                         *)
(***************************************************************************)
EXTENDS LifecycleRunner, FiniteSetTheorems, SequenceTheorems, WellFoundedInduction, TLAPS

-----------------------------------------------------------------------------
(* Types *)

Statuses ==
  {"simulated", "promoted", "rejected_missing_comparable_metric",
   "rejected_reference_regression", "rejected_missing_runtime_thresholds",
   "rejected_operational_guardrail", "rejected_no_classification_improvement"}

(* The images of the rows and of the anchors. *)
Pieces ==
  {Anchors[n].image : n \in DOMAIN Anchors}
    \cup UNION {{ReplayRows(a)[n].image : n \in DOMAIN ReplayRows(a)} : a \in Options}

Dirs ==
  {dir \in [epochs : Seq(Checkpoints), best : UNION {[ms -> Nat] : ms \in SUBSET EpochMetrics}] :
     dir.best \in [DOMAIN dir.best -> DOMAIN dir.epochs]}

Optional == Checkpoints \cup {None}

Candidates ==
  [number : Nat, manifest : SUBSET Pieces, dir : Dirs, localization : Optional,
   classification : Optional, status : [Models -> Statuses], calibrated : [Models -> Optional],
   uploaded : SUBSET Models, tried : SUBSET Models]

JournalEntries ==
  [total : Nat, rows : Nat, status : [Models -> Statuses], judged : [Models -> Optional]]

RunStates ==
  [number : 0 .. MaxRuns, next : Nat \ {0}, lot : SUBSET Nat, lots : Seq(SUBSET Nat), total : Nat,
   last : Nat, triggered : BOOLEAN, last_lot : BOOLEAN, cycles : Seq(JournalEntries)]

Versions == [run : 1 .. MaxRuns, cycle : Nat \ {0}, content : Checkpoints, judged : Checkpoints]

Contracts == [run : 1 .. MaxRuns, cycle : Nat \ {0}, role : Roles, calibrated : Checkpoints]

Uploads == [run : 0 .. MaxRuns, cycle : Nat, model : Models \cup {"trained"}, content : Checkpoints]

Paths == [set : {"selection", "reference"}, run : 0 .. MaxRuns, cycle : Nat]

CacheEntries == [key : Nat \X Checkpoints \X Paths, measured : Checkpoints, path : Paths]

(* The steps of a cycle after its training, and those a candidate was judged before. *)
Selected == {"gate", "publishing", "registering"}

Judged == {"publishing", "registering", "closing"}

(* Where a run is, and in which mode it can be there. *)
ControlInv ==
  /\ args \in Options
  /\ pc \in {"idle", "replaying", "left", "last_lot", "cycle", "training", "selecting", "gate",
             "publishing", "registering", "closing", "finishing", "uploading_trained",
             "completed", "failed"}
  /\ pc \in {"cycle", "closing"} => Progressive
  /\ pc \in {"selecting"} \cup Selected => args.mode = "progressive-train"
  /\ pc = "training" => args.mode \in {"progressive-train", "train-on-trigger"}
  /\ pc = "uploading_trained" => args.mode = "train-on-trigger"
  /\ ~Idle => run.number # 0

RunInv ==
  /\ run \in RunStates
  /\ run.next <= Len(Rows) + 1 /\ run.lot \subseteq 1 .. run.next - 1
  /\ \A n \in DOMAIN run.lots : run.lots[n] \subseteq 1 .. run.next - 1

(* A metric that was measured has a best file as soon as an epoch was saved. *)
Filled(dir) ==
  /\ dir.epochs = <<>> => dir.best = <<>>
  /\ dir.epochs # <<>> => dir.best \in [EpochMetrics -> DOMAIN dir.epochs] /\ EpochMetrics # {}

(* The models a cycle judges, and one that was, with thresholds of its own. *)
IsJudged(m) == (m = "model") # args.dual

Calibrated(m) == JudgedContent(m) \in Checkpoints /\ cand.calibrated[m] = JudgedContent(m)

CandInv ==
  /\ cand \in Candidates
  /\ pc \in {"replaying", "left", "last_lot", "cycle", "finishing"} => cand = NoCycle
  /\ pc \in {"training", "selecting", "uploading_trained", "closing"} \cup Selected => Filled(cand.dir)
  /\ pc \in {"selecting", "uploading_trained"} \cup Selected =>
       /\ cand.dir.epochs # <<>>
       /\ {cand.localization, cand.classification} \subseteq Checkpoints
  /\ pc \in {"training", "selecting"} \cup Selected /\ args.mode = "progressive-train" =>
       cand.number # 0
  /\ pc \in Judged => \A m \in Models : Promoted(m) => IsJudged(m) /\ Calibrated(m)
  /\ pc \in {"publishing", "registering"} => \A m \in Models : IsJudged(m) => Calibrated(m)

ActiveInv == active \in [Roles -> RuntimeType]

RegistryInv ==
  /\ registry \in [Models -> Seq(Versions)]
  /\ alias \in [Models -> Nat] /\ \A m \in Models : alias[m] <= Len(registry[m])
  /\ contracts \subseteq Contracts

(* An entry of the cache holds the scores of the content its key names. *)
Truthful(entries) ==
  /\ entries \subseteq CacheEntries
  /\ \A e \in entries : e.key[2] = e.measured /\ e.key[3] = e.path

TypeInv ==
  /\ ControlInv /\ RunInv /\ CandInv /\ ActiveInv /\ RegistryInv
  /\ bucket \subseteq Uploads /\ Truthful(cache)

-----------------------------------------------------------------------------
(* Least and best elements *)

(* The least of some numbers. *)
LEMMA LeastNumber ==
  ASSUME NEW S \in SUBSET Nat, S # {}
  PROVE  LET least == CHOOSE n \in S : \A m \in S : n <= m
         IN least \in S /\ \A m \in S : least <= m
<1> DEFINE less == {p \in Nat \X Nat : p[1] < p[2]}
<1>1. IsWellFoundedOn(less, Nat)
  BY NatLessThanWellFounded DEF OpToRel
<1> HIDE DEF less
<1>2. PICK n \in S : \A m \in S : <<m, n>> \notin less
  BY <1>1, WFMin
<1>3. ASSUME NEW m \in S
      PROVE  n <= m
  <2>1. m \in Nat /\ n \in Nat /\ <<m, n>> \notin less
    BY <1>2, <1>3
  <2>2. <<m, n>> \in Nat \X Nat /\ <<m, n>>[1] = m /\ <<m, n>>[2] = n
    BY <2>1
  <2> QED
    BY <2>1, <2>2 DEF less
<1> QED
  BY <1>3

(* A finite set has an element that no other one precedes: one with the fewest that precede it. *)
LEMMA FirstElement ==
  ASSUME NEW S, IsFiniteSet(S), S # {}, NEW R,
         \A x \in S : <<x, x>> \notin R,
         \A x, y, z \in S : <<x, y>> \in R /\ <<y, z>> \in R => <<x, z>> \in R
  PROVE  \E x \in S : \A y \in S : <<y, x>> \notin R
<1> DEFINE before(x) == {y \in S : <<y, x>> \in R}
           counts == {Cardinality(before(x)) : x \in S}
<1>1. \A x \in S : IsFiniteSet(before(x)) /\ Cardinality(before(x)) \in Nat
  BY FS_Subset, FS_CardinalityType
<1> HIDE DEF before
<1>2. counts \in SUBSET Nat /\ counts # {}
  BY <1>1
<1> HIDE DEF counts
<1>3. PICK n \in counts : \A m \in counts : n <= m
  BY <1>2, LeastNumber
<1>4. PICK x \in S : Cardinality(before(x)) = n
  BY <1>3 DEF counts
<1>5. \A y \in S : Cardinality(before(x)) <= Cardinality(before(y))
  BY <1>3, <1>4 DEF counts
<1>6. ASSUME NEW y \in S, <<y, x>> \in R
      PROVE  FALSE
  <2>1. before(y) \subseteq before(x) /\ y \in before(x) /\ y \notin before(y)
    BY <1>4, <1>6 DEF before
  <2>2. /\ Cardinality(before(y)) \in Nat /\ Cardinality(before(x)) \in Nat
        /\ IsFiniteSet(before(x))
    BY <1>1, <1>4
  <2>3. /\ Cardinality(before(y)) <= Cardinality(before(x))
        /\ Cardinality(before(y)) = Cardinality(before(x)) => before(y) = before(x)
    BY <2>1, <2>2, FS_Subset
  <2> QED
    BY <1>5, <2>1, <2>2, <2>3
<1> QED
  BY <1>4, <1>6

-----------------------------------------------------------------------------
(* The files of a training *)

(* SaveEpoch keeps a directory filled. *)
LEMMA EpochSaved ==
  ASSUME NEW dir \in Dirs, Filled(dir), NEW content \in Checkpoints, EpochMetrics # {}
  PROVE  SaveEpoch(dir, content) \in Dirs /\ Filled(SaveEpoch(dir, content))
<1> DEFINE epochs == Append(dir.epochs, content)
           best == UpdateBest(dir, content)
<1>1. /\ epochs \in Seq(Checkpoints) /\ Len(epochs) = Len(dir.epochs) + 1
      /\ Len(dir.epochs) \in Nat /\ DOMAIN epochs = 1 .. Len(epochs)
      /\ DOMAIN dir.epochs = 1 .. Len(dir.epochs)
  BY AppendProperties, LenProperties DEF Dirs
<1> HIDE DEF epochs
<1>2. best \in [EpochMetrics -> DOMAIN epochs]
  <2>1. ASSUME NEW m \in EpochMetrics
        PROVE  best[m] \in DOMAIN epochs
    <3>1. CASE m \in DOMAIN dir.best
      <4>1. dir.epochs # <<>>
        BY <3>1 DEF Filled
      <4>2. dir.best[m] \in DOMAIN dir.epochs
        BY <2>1, <3>1, <4>1 DEF Filled
      <4> QED
        BY <1>1, <2>1, <4>2 DEF UpdateBest
    <3>2. CASE m \notin DOMAIN dir.best
      BY <1>1, <2>1, <3>2 DEF UpdateBest
    <3> QED
      BY <3>1, <3>2
  <2>2. best = [m \in EpochMetrics |-> best[m]]
    BY DEF UpdateBest
  <2> HIDE DEF best
  <2> QED
    BY <2>1, <2>2
<1>3. SaveEpoch(dir, content) = [epochs |-> epochs, best |-> best]
  BY DEF SaveEpoch, epochs
<1> HIDE DEF best
<1>4. best \in [EpochMetrics -> Nat] /\ epochs # <<>>
  BY <1>1, <1>2
<1>5. best \in UNION {[ms -> Nat] : ms \in SUBSET EpochMetrics}
  BY <1>4
<1> QED
  BY <1>1, <1>2, <1>3, <1>4, <1>5 DEF Dirs, Filled

(* The best file of a metric holds an epoch. *)
LEMMA BestIsAnEpoch ==
  ASSUME NEW dir \in Dirs, Filled(dir), NEW m \in DOMAIN dir.best
  PROVE  /\ dir.epochs # <<>> /\ DOMAIN dir.best = EpochMetrics
         /\ dir.best[m] \in DOMAIN dir.epochs /\ BestContent(dir, m) \in Checkpoints
<1>1. dir.epochs # <<>>
  BY DEF Filled
<1>2. dir.best \in [EpochMetrics -> DOMAIN dir.epochs]
  BY <1>1 DEF Filled
<1>3. dir.best[m] \in DOMAIN dir.epochs
  BY <1>2
<1> QED
  BY <1>1, <1>2, <1>3, ElementOfSeq DEF Dirs, BestContent

(* What a copy holds: the best file of the first metric that was measured. *)
LEMMA FirstBestIs ==
  ASSUME NEW dir \in Dirs, Filled(dir), NEW priority, DOMAIN priority \subseteq Nat
  PROVE  \/ /\ FirstBest(dir, priority) = None
            /\ \A n \in DOMAIN priority : priority[n] \notin DOMAIN dir.best
         \/ /\ FirstBest(dir, priority) \in Checkpoints
            /\ \E n \in DOMAIN priority :
                 /\ priority[n] \in DOMAIN dir.best
                 /\ FirstBest(dir, priority) = BestContent(dir, priority[n])
                 /\ \A m \in DOMAIN priority : priority[m] \in DOMAIN dir.best => n <= m
<1> DEFINE present == {n \in DOMAIN priority : priority[n] \in DOMAIN dir.best}
           first == CHOOSE n \in present : \A m \in present : n <= m
<1>1. CASE present = {}
  BY <1>1 DEF FirstBest
<1>2. CASE present # {}
  <2>1. first \in present /\ \A m \in present : first <= m
    BY <1>2, LeastNumber
  <2>2. FirstBest(dir, priority) = BestContent(dir, priority[first])
    BY <1>2 DEF FirstBest
  <2> HIDE DEF first
  <2>3. FirstBest(dir, priority) \in Checkpoints
    BY <2>1, <2>2, BestIsAnEpoch
  <2> QED
    BY <2>1, <2>2, <2>3
<1> QED
  BY <1>1, <1>2

(* The files of a training that saved an epoch. *)
LEMMA FilesAreCheckpoints ==
  ASSUME NEW dir \in Dirs, Filled(dir)
  PROVE  /\ {CheckpointFile(dir), BestImageFile(dir), BestLocalizationFile(dir)} \subseteq Optional
         /\ dir.epochs # <<>> =>
              /\ CheckpointFile(dir) \in Checkpoints
              /\ SpecializedFile(dir, "localization") \in Checkpoints
              /\ SpecializedFile(dir, "classification") \in Checkpoints
<1>1. /\ DOMAIN BusinessMetrics = 1 .. 4 /\ DOMAIN ClassificationMetrics = 1 .. 2
      /\ DOMAIN <<"pixel_aupimo", "pixel_ap">> = 1 .. 2
  BY DEF BusinessMetrics, ClassificationMetrics
<1>2. {CheckpointFile(dir), BestImageFile(dir), BestLocalizationFile(dir)} \subseteq Optional
  BY <1>1, FirstBestIs DEF CheckpointFile, BestImageFile, BestLocalizationFile, Optional
<1>3. ASSUME dir.epochs # <<>>
      PROVE  CheckpointFile(dir) \in Checkpoints
  <2>1. EpochMetrics # {} /\ DOMAIN dir.best = EpochMetrics
    BY <1>3 DEF Filled
  <2>2. PICK n \in DOMAIN BusinessMetrics : BusinessMetrics[n] \in DOMAIN dir.best
    BY <2>1 DEF EpochMetrics, BusinessMetricSet
  <2> QED
    BY <1>1, <2>2, FirstBestIs DEF CheckpointFile
<1> QED
  BY <1>2, <1>3 DEF SpecializedFile, Optional

-----------------------------------------------------------------------------
(* What the gate measures *)

(* The cache answers each request with the content that was asked for. *)
LEMMA CacheAnswers ==
  ASSUME NEW entries, Truthful(entries), NEW requests \in Seq(RuntimeType), NEW path \in Paths
  PROVE  LET all == Evaluated(entries, requests, path)
         IN /\ Truthful(all)
            /\ \A n \in DOMAIN requests : Measured(all, requests[n], path) = requests[n].content
<1> DEFINE key(n) == MetricCacheKey(requests[n].version, requests[n].content, path)
           misses == {n \in DOMAIN requests : key(n) \notin Keys(entries)
                                              /\ \A m \in 1 .. n - 1 : key(m) # key(n)}
           entry(n) == [key |-> key(n), measured |-> requests[n].content, path |-> path]
           all == Evaluated(entries, requests, path)
<1>1. /\ DOMAIN requests = 1 .. Len(requests) /\ Len(requests) \in Nat
      /\ \A n \in DOMAIN requests : requests[n] \in RuntimeType
  BY ElementOfSeq
<1>2. \A n \in DOMAIN requests :
        /\ key(n) = <<requests[n].version, requests[n].content, path>>
        /\ entry(n) \in CacheEntries
        /\ entry(n).key = key(n) /\ entry(n).measured = requests[n].content /\ entry(n).path = path
        /\ entry(n).key[2] = entry(n).measured /\ entry(n).key[3] = entry(n).path
  BY <1>1 DEF MetricCacheKey, CacheEntries, RuntimeType
<1>3. all = entries \cup {entry(n) : n \in misses}
  BY Zenon DEF Evaluated
<1> HIDE DEF entry, all
<1>4. Truthful(all)
  BY <1>2, <1>3 DEF Truthful
<1>5. ASSUME NEW n \in DOMAIN requests
      PROVE  \E e \in all : e.key = key(n)
  <2>1. CASE key(n) \in Keys(entries)
    BY <1>3, <2>1 DEF Keys
  <2>2. CASE key(n) \notin Keys(entries)
    <3> DEFINE same == {m \in DOMAIN requests : key(m) = key(n)}
               first == CHOOSE m \in same : \A k \in same : m <= k
    <3>1. same \in SUBSET Nat /\ same # {}
      BY <1>1, <1>5
    <3>2. first \in same /\ \A k \in same : first <= k
      BY <3>1, LeastNumber
    <3> HIDE DEF first, key
    <3>3. first \in misses
      <4>1. ASSUME NEW m \in 1 .. first - 1
            PROVE  key(m) # key(first)
        <5>1. m \in DOMAIN requests /\ ~(first <= m)
          BY <1>1, <3>1, <3>2
        <5> QED
          BY <3>2, <5>1
      <4> QED
        BY <2>2, <3>2, <4>1
    <3> QED
      BY <1>2, <1>3, <3>2, <3>3
  <2> QED
    BY <2>1, <2>2
<1>6. ASSUME NEW n \in DOMAIN requests
      PROVE  Measured(all, requests[n], path) = requests[n].content
  <2> DEFINE e == CHOOSE e \in all : e.key = key(n)
  <2>1. e \in all /\ e.key = key(n)
    BY <1>5, <1>6
  <2>2. Measured(all, requests[n], path) = e.measured
    BY DEF Measured
  <2> HIDE DEF e, key
  <2>3. e.measured = e.key[2]
    BY <1>4, <2>1 DEF Truthful
  <2>4. key(n)[2] = requests[n].content
    BY <1>2, <1>6
  <2> QED
    BY <2>1, <2>2, <2>3, <2>4
<1> QED
  BY <1>4, <1>6 DEF all

(* The runtimes that are compared, and what the gate measures of them: their own content. *)
LEMMA GateMeasures ==
  ASSUME TypeInv, pc = "gate"
  PROVE  LET path == IF args.dual THEN GatePath ELSE ReferencePath
             entries == Evaluated(cache, Compared, path)
         IN /\ Truthful(entries)
            /\ [r \in ToSet(Compared) |-> Measured(entries, r, path)]
                 = [r \in ToSet(Compared) |-> r.content]
            /\ \A m \in Models :
                 IsJudged(m) =>
                   /\ JudgedContent(m) \in Checkpoints
                   /\ Candidate(JudgedContent(m)) \in ToSet(Compared)
                   /\ Candidate(JudgedContent(m)).content = JudgedContent(m)
<1> DEFINE path == IF args.dual THEN GatePath ELSE ReferencePath
           entries == Evaluated(cache, Compared, path)
<1>1. /\ cand \in Candidates /\ Filled(cand.dir) /\ cand.dir \in Dirs
      /\ {cand.localization, cand.classification, CheckpointFile(cand.dir)} \subseteq Checkpoints
      /\ args.dual \in BOOLEAN /\ run \in RunStates
      /\ active \in [Roles -> RuntimeType] /\ Truthful(cache)
  BY FilesAreCheckpoints, OptionsAssumption
  DEF TypeInv, CandInv, ControlInv, RunInv, ActiveInv, Selected, Candidates
<1>2. \A content \in Checkpoints :
        Candidate(content) \in RuntimeType /\ Candidate(content).content = content
  BY <1>1 DEF Candidate, Runtime, RuntimeType, Candidates
<1>3. {active["localization"], active["classification"]} \subseteq RuntimeType
  BY <1>1 DEF Roles
<1> DEFINE ofLocalization == Candidate(cand.localization)
           ofClassification == Candidate(cand.classification)
           ofModel == Candidate(CheckpointFile(cand.dir))
<1>4. {ofLocalization, ofClassification, ofModel} \subseteq RuntimeType
  BY <1>1, <1>2
<1>5. Compared = IF args.dual
                 THEN <<active["localization"], ofLocalization,
                        active["classification"], ofClassification>>
                 ELSE <<active["classification"], ofModel>>
  BY DEF Compared
<1> HIDE DEF ofLocalization, ofClassification, ofModel
<1>6. /\ Compared \in Seq(RuntimeType)
      /\ ToSet(Compared) = IF args.dual
                           THEN {active["localization"], ofLocalization,
                                 active["classification"], ofClassification}
                           ELSE {active["classification"], ofModel}
  <2>1. CASE args.dual
    BY <1>3, <1>4, <1>5, <2>1 DEF ToSet
  <2>2. CASE ~args.dual
    BY <1>3, <1>4, <1>5, <2>2 DEF ToSet
  <2> QED
    BY <2>1, <2>2
<1>7. path \in Paths
  BY <1>1, RunnerAssumption DEF GatePath, ReferencePath, SelectionPath, Paths, RunStates, Candidates
<1> HIDE DEF path
<1>8. /\ Truthful(entries)
      /\ \A n \in DOMAIN Compared : Measured(entries, Compared[n], path) = Compared[n].content
  BY <1>1, <1>6, <1>7, CacheAnswers
<1> HIDE DEF entries
<1>9. \A r \in ToSet(Compared) : Measured(entries, r, path) = r.content
  BY <1>8 DEF ToSet
<1>10. \A m \in Models :
         IsJudged(m) =>
           /\ JudgedContent(m) \in Checkpoints
           /\ Candidate(JudgedContent(m)) \in ToSet(Compared)
  BY <1>1, <1>6
  DEF JudgedContent, IsJudged, Models, Roles, ofLocalization, ofClassification, ofModel
<1> QED
  BY <1>2, <1>8, <1>9, <1>10 DEF path, entries

LEMMA StatusTypes ==
  ASSUME NEW measure
  PROVE  GateStatus(measure) \in [Models -> Statuses]
<1>1. \A a, x, y, panel : /\ LocalizationStatus(a, x, y, panel) \in Statuses
                          /\ ClassificationStatus(a, x, y, panel) \in Statuses
                          /\ SingleStatus(a, x, y, panel) \in Statuses
  BY DEF LocalizationStatus, ClassificationStatus, SingleStatus, Statuses
<1>2. "simulated" \in Statuses /\ Models = {"localization", "classification", "model"}
  BY DEF Statuses, Models, Roles
<1>3. DualStatus(measure) \in [Models -> Statuses]
  BY <1>1, <1>2 DEF DualStatus
<1>4. SingleGateStatus(measure) \in [Models -> Statuses]
  BY <1>1, <1>2 DEF SingleGateStatus
<1> QED
  BY <1>3, <1>4 DEF GateStatus

-----------------------------------------------------------------------------
(* The file chosen on the selection panel *)

(* What is counted on a panel are numbers. *)
LEMMA CountsAreNumbers ==
  ASSUME NEW panel, IsPanel(panel), NEW c \in Checkpoints
  PROVE  /\ FalseNegatives(c, panel) \in Int
         /\ DecisionMetrics(c, panel).good_red_count \in Nat
<1>1. IsFiniteSet(panel.good) /\ IsFiniteSet(panel.defective)
  BY ImagesAssumption, FS_Subset DEF IsPanel
<1>2. ASSUME NEW threshold, NEW images, IsFiniteSet(images)
      PROVE  Cardinality(Flagged(c, images, threshold)) \in Nat
  BY <1>2, FS_Subset, FS_CardinalityType DEF Flagged
<1>3. Cardinality(panel.defective) \in Nat
  BY <1>1, FS_CardinalityType
<1> QED
  BY <1>1, <1>2, <1>3 DEF FalseNegatives, DecisionMetrics

(* A finite set of files has a best one. *)
LEMMA BestFileExists ==
  ASSUME NEW panel, IsPanel(panel), NEW Files, NEW S, IsFiniteSet(S), S # {},
         \A f \in S : f.rank \in Nat /\ f.file.measured \in Checkpoints
  PROVE  \E f \in S : \A g \in S : Better(f, g, panel)
<1> DEFINE fn(f) == FalseNegatives(f.file.measured, panel)
           ap(f) == IF "image_ap" \in panel.metrics THEN panel.value[f.file.measured]["image_ap"] ELSE 0
           R == {p \in S \X S : ~Better(p[2], p[1], panel)}
<1>1. \A f \in S : fn(f) \in Int /\ ap(f) \in Int /\ f.rank \in Nat
  BY CountsAreNumbers DEF IsPanel
<1>2. \A f, g \in S : Better(f, g, panel) <=>
        \/ fn(f) < fn(g)
        \/ fn(f) = fn(g) /\ ap(f) > ap(g)
        \/ fn(f) = fn(g) /\ ap(f) = ap(g) /\ f.rank <= g.rank
  BY DEF Better
<1>3. \A f, g \in S : <<f, g>> \in R <=> ~Better(g, f, panel)
  OBVIOUS
<1> HIDE DEF fn, ap, R
<1>4. \A f \in S : <<f, f>> \notin R
  BY <1>1, <1>2, <1>3
<1>5. ASSUME NEW x \in S, NEW y \in S, NEW z \in S, <<x, y>> \in R, <<y, z>> \in R
      PROVE  <<x, z>> \in R
  <2>1. ~Better(y, x, panel) /\ ~Better(z, y, panel)
    BY <1>3, <1>5
  <2>2. ~Better(z, x, panel)
    BY <1>1, <1>2, <1>5, <2>1
  <2> QED
    BY <1>3, <2>2
<1>6. \E f \in S : \A g \in S : <<g, f>> \notin R
  BY <1>4, <1>5, FirstElement
<1> QED
  BY <1>3, <1>6

(* The chosen file is one of those offered, and misses no more defects than any of them that *)
(* the guard allows.                                                                         *)
LEMMA ChosenFile ==
  ASSUME NEW panel, IsPanel(panel), NEW Names, NEW a, NEW active_content,
         NEW files \in Seq([name : Names, content : Checkpoints, measured : Checkpoints]),
         files # <<>>, \A n \in DOMAIN files : files[n].measured = files[n].content
  PROVE  LET chosen == SelectClassificationFile(a, files, active_content, panel)
         IN /\ chosen.content \in Checkpoints
            /\ \A n \in DOMAIN files :
                 GoodRedOk(a, active_content, files[n].content, panel) =>
                   FalseNegatives(chosen.content, panel) <= FalseNegatives(files[n].content, panel)
<1> DEFINE File == [name : Names, content : Checkpoints, measured : Checkpoints]
           chosen == SelectClassificationFile(a, files, active_content, panel)
           distinct == DistinctFiles(files)
           first == {n \in DOMAIN files : \A m \in 1 .. n - 1 : files[m].content # files[n].content}
           selectable == {f \in distinct : GoodRedOk(a, active_content, f.file.measured, panel)}
           same_path == {f \in distinct : f.file.name = files[Len(files)].name}
           best == CHOOSE f \in selectable : \A g \in selectable : Better(f, g, panel)
           earliest == CHOOSE f \in same_path : \A g \in same_path : f.rank <= g.rank
<1>1. /\ DOMAIN files = 1 .. Len(files) /\ Len(files) \in Nat /\ 1 \in DOMAIN files
      /\ \A n \in DOMAIN files : files[n] \in File
  <2> HIDE DEF File
  <2>1. files \in Seq(File)
    BY DEF File
  <2>2. /\ DOMAIN files = 1 .. Len(files) /\ Len(files) \in Nat \ {0}
        /\ \A n \in DOMAIN files : files[n] \in File
    BY <2>1, LenProperties, ElementOfSeq, EmptySeq
  <2> QED
    BY <2>2
<1>2. distinct = {[file |-> files[n], rank |-> n] : n \in first}
  BY DEF DistinctFiles
<1>3. \A f \in distinct : /\ f.rank \in Nat /\ f.file \in File
                          /\ f.file.measured = f.file.content /\ f.file.measured \in Checkpoints
  BY <1>1, <1>2
<1>4. chosen = IF selectable # {} THEN best.file
               ELSE IF same_path # {} THEN earliest.file ELSE files[1]
  BY Zenon DEF SelectClassificationFile
<1>5. IsFiniteSet(distinct)
  <2>1. IsFiniteSet(first)
    <3>1. first \subseteq 1 .. Len(files) /\ IsFiniteSet(1 .. Len(files))
      BY <1>1, FS_Interval
    <3> HIDE DEF first
    <3> QED
      BY <3>1, FS_Subset
  <2> DEFINE as == [n \in first |-> [file |-> files[n], rank |-> n]]
  <2>2. distinct = {as[n] : n \in first}
    BY <1>2
  <2>3. as \in Surjection(first, distinct)
    BY <2>2 DEF Surjection
  <2> HIDE DEF first, distinct, as
  <2> QED
    BY <2>1, <2>3, FS_Surjection
<1>6. ASSUME NEW n \in DOMAIN files
      PROVE  \E f \in distinct : f.file.content = files[n].content
  <2> DEFINE same == {m \in DOMAIN files : files[m].content = files[n].content}
             least == CHOOSE m \in same : \A k \in same : m <= k
  <2>1. same \in SUBSET Nat /\ same # {}
    BY <1>1, <1>6
  <2>2. least \in same /\ \A k \in same : least <= k
    BY <2>1, LeastNumber
  <2> HIDE DEF least
  <2>3. least \in first
    <3>1. ASSUME NEW m \in 1 .. least - 1
          PROVE  files[m].content # files[least].content
      <4>1. m \in DOMAIN files /\ ~(least <= m)
        BY <1>1, <2>1, <2>2
      <4> QED
        BY <2>2, <4>1
    <3> QED
      BY <2>2, <3>1
  <2> DEFINE f == [file |-> files[least], rank |-> least]
  <2>4. f \in distinct
    BY <1>2, <2>3
  <2>5. f.file.content = files[n].content
    BY <2>2
  <2> QED
    BY <2>4, <2>5
<1> HIDE DEF distinct, first, chosen
<1>7. CASE selectable # {}
  <2>1. IsFiniteSet(selectable)
    BY <1>5, FS_Subset
  <2>2. \E f \in selectable : \A g \in selectable : Better(f, g, panel)
    <3>1. \A f \in selectable : f.rank \in Nat /\ f.file.measured \in Checkpoints
      BY <1>3
    <3> HIDE DEF selectable
    <3> QED
      BY <1>7, <2>1, <3>1, BestFileExists
  <2>3. best \in selectable /\ \A g \in selectable : Better(best, g, panel)
    BY <2>2
  <2>4. chosen = best.file
    BY <1>4, <1>7
  <2> HIDE DEF best
  <2>5. chosen.content \in Checkpoints /\ chosen.content = best.file.measured
    BY <1>3, <2>3, <2>4
  <2>6. ASSUME NEW n \in DOMAIN files, GoodRedOk(a, active_content, files[n].content, panel)
        PROVE  FalseNegatives(chosen.content, panel) <= FalseNegatives(files[n].content, panel)
    <3>1. PICK f \in distinct : f.file.content = files[n].content
      BY <1>6, <2>6
    <3>2. f \in selectable /\ f.file.measured = files[n].content
      BY <1>3, <2>6, <3>1
    <3>3. Better(best, f, panel)
      BY <2>3, <3>2
    <3>4. /\ FalseNegatives(best.file.measured, panel) \in Int
          /\ FalseNegatives(f.file.measured, panel) \in Int
      BY <1>3, <2>3, <3>1, CountsAreNumbers
    <3>5. FalseNegatives(best.file.measured, panel) <= FalseNegatives(f.file.measured, panel)
      BY <3>3, <3>4 DEF Better
    <3> QED
      BY <2>5, <3>2, <3>5
  <2> QED
    BY <2>5, <2>6 DEF chosen
<1>8. CASE selectable = {}
  <2>1. ASSUME NEW n \in DOMAIN files
        PROVE  ~GoodRedOk(a, active_content, files[n].content, panel)
    BY <1>3, <1>6, <1>8, <2>1
  <2>2. chosen \in File
    <3>1. CASE same_path # {}
      <4> DEFINE ranks == {f.rank : f \in same_path}
                 low == CHOOSE n \in ranks : \A m \in ranks : n <= m
      <4>1. ranks \in SUBSET Nat /\ ranks # {}
        BY <1>3, <3>1
      <4>2. low \in ranks /\ \A m \in ranks : low <= m
        BY <4>1, LeastNumber
      <4> HIDE DEF low
      <4>3. \E f \in same_path : \A g \in same_path : f.rank <= g.rank
        BY <4>2
      <4>4. earliest \in same_path
        BY <4>3
      <4>5. chosen = earliest.file
        BY <1>4, <1>8, <3>1
      <4> HIDE DEF earliest
      <4> QED
        BY <1>3, <4>4, <4>5
    <3>2. CASE same_path = {}
      <4>1. chosen = files[1]
        BY <1>4, <1>8, <3>2
      <4> QED
        BY <1>1, <4>1
    <3> QED
      BY <3>1, <3>2
  <2> QED
    BY <2>1, <2>2 DEF chosen
<1> QED
  BY <1>7, <1>8

(* A sequence of one element, and what a concatenation begins with. *)
LEMMA OneElement ==
  ASSUME NEW S, NEW e \in S
  PROVE  <<e>> \in Seq(S)
OBVIOUS

LEMMA Prefix ==
  ASSUME NEW S, NEW s \in Seq(S), NEW t \in Seq(S)
  PROVE  /\ s \o t \in Seq(S) /\ DOMAIN s \subseteq DOMAIN (s \o t)
         /\ \A n \in DOMAIN s : (s \o t)[n] = s[n]
<1>1. /\ DOMAIN s = 1 .. Len(s) /\ Len(s) \in Nat /\ Len(t) \in Nat
      /\ s \o t \in Seq(S) /\ Len(s \o t) = Len(s) + Len(t)
  BY LenProperties, ConcatProperties
<1>2. DOMAIN (s \o t) = 1 .. Len(s) + Len(t)
  BY <1>1, LenProperties
<1>3. \A n \in 1 .. Len(s) + Len(t) : n <= Len(s) => (s \o t)[n] = s[n]
  BY ConcatProperties
<1> QED
  BY <1>1, <1>2, <1>3

FileNames ==
  {"checkpoint_epoch", "checkpoint.pt", "checkpoint_best_image.pt",
   "checkpoint_best_image_ap.pt", "checkpoint_best_image_auroc.pt"}

(* The files offered hold checkpoints, those of the epochs first. *)
LEMMA OfferedFiles ==
  ASSUME NEW dir \in Dirs, Filled(dir), dir.epochs # <<>>
  PROVE  LET files == SelectionFiles(dir)
         IN /\ files \in Seq([name : FileNames, content : Checkpoints])
            /\ DOMAIN dir.epochs \subseteq DOMAIN files
            /\ \A n \in DOMAIN dir.epochs : files[n].content = dir.epochs[n]
<1> DEFINE File == [name : FileNames, content : Checkpoints]
           files == SelectionFiles(dir)
           epoch(n) == [name |-> "checkpoint_epoch", content |-> dir.epochs[n]]
           epochs == [n \in DOMAIN dir.epochs |-> epoch(n)]
           copy(name, metric) == [name |-> name, content |-> BestContent(dir, metric)]
           best(name, metric) == IF metric \in DOMAIN dir.best THEN <<copy(name, metric)>> ELSE <<>>
           default == IF BestImageFile(dir) = None THEN "checkpoint.pt" ELSE "checkpoint_best_image.pt"
           specialized == [name |-> default, content |-> SpecializedFile(dir, "classification")]
           image == IF BestImageFile(dir) = None THEN <<>> ELSE <<specialized>>
           ap == best("checkpoint_best_image_ap.pt", "image_ap")
           auroc == best("checkpoint_best_image_auroc.pt", "image_auroc")
<1>1. /\ DOMAIN dir.epochs = 1 .. Len(dir.epochs) /\ Len(dir.epochs) \in Nat
      /\ \A n \in DOMAIN dir.epochs : dir.epochs[n] \in Checkpoints
  <2>1. dir.epochs \in Seq(Checkpoints)
    BY DEF Dirs
  <2> QED
    BY <2>1, LenProperties, ElementOfSeq
<1>2. \A n \in DOMAIN dir.epochs : epoch(n) \in File /\ epoch(n).content = dir.epochs[n]
  BY <1>1 DEF FileNames
<1>3. /\ epochs \in [DOMAIN dir.epochs -> File]
      /\ \A n \in DOMAIN dir.epochs : epochs[n].content = dir.epochs[n]
  <2> HIDE DEF File, epoch
  <2> QED
    BY <1>2
<1>4. specialized \in File
  <2>1. SpecializedFile(dir, "classification") \in Checkpoints
    BY FilesAreCheckpoints
  <2>2. default \in FileNames
    BY DEF FileNames
  <2> HIDE DEF default
  <2> QED
    BY <2>1, <2>2
<1>5. \A name \in FileNames : \A metric \in DOMAIN dir.best : copy(name, metric) \in File
  BY BestIsAnEpoch
<1>6. files = (((epochs \o image) \o ap) \o auroc) \o <<specialized>>
  BY Zenon DEF SelectionFiles
<1> HIDE DEF epochs, files, copy, specialized, default, File
<1>7. epochs \in Seq(File)
  <2>1. epochs \in [1 .. Len(dir.epochs) -> File]
    BY <1>1, <1>3
  <2> QED
    BY <1>1, <2>1
<1>8. image \in Seq(File) /\ <<specialized>> \in Seq(File)
  BY <1>4, OneElement, EmptySeq
<1>9. ap \in Seq(File) /\ auroc \in Seq(File)
  <2>0. "checkpoint_best_image_ap.pt" \in FileNames /\ "checkpoint_best_image_auroc.pt" \in FileNames
    BY DEF FileNames
  <2>1. ASSUME NEW name \in FileNames, NEW metric
        PROVE  best(name, metric) \in Seq(File)
    <3>1. CASE metric \in DOMAIN dir.best
      BY <1>5, <2>1, <3>1, OneElement
    <3>2. CASE metric \notin DOMAIN dir.best
      BY <3>2, EmptySeq
    <3> QED
      BY <3>1, <3>2
  <2> HIDE DEF best
  <2> QED
    BY <2>0, <2>1
<1> HIDE DEF image, ap, auroc
<1> DEFINE one == epochs \o image
           two == one \o ap
           three == two \o auroc
<1>10. /\ one \in Seq(File) /\ DOMAIN epochs \subseteq DOMAIN one
       /\ \A n \in DOMAIN epochs : one[n] = epochs[n]
  BY <1>7, <1>8, Prefix
<1> HIDE DEF one
<1>11. /\ two \in Seq(File) /\ DOMAIN one \subseteq DOMAIN two
       /\ \A n \in DOMAIN one : two[n] = one[n]
  BY <1>9, <1>10, Prefix
<1> HIDE DEF two
<1>12. /\ three \in Seq(File) /\ DOMAIN two \subseteq DOMAIN three
       /\ \A n \in DOMAIN two : three[n] = two[n]
  BY <1>9, <1>11, Prefix
<1> HIDE DEF three
<1>13. files = three \o <<specialized>>
  BY <1>6 DEF one, two, three
<1>14. /\ files \in Seq(File) /\ DOMAIN three \subseteq DOMAIN files
       /\ \A n \in DOMAIN three : files[n] = three[n]
  BY <1>8, <1>12, <1>13, Prefix
<1>15. \A n \in DOMAIN dir.epochs : n \in DOMAIN files /\ files[n] = epochs[n]
  BY <1>1, <1>3, <1>10, <1>11, <1>12, <1>14
<1> QED
  BY <1>3, <1>14, <1>15 DEF files, File

-----------------------------------------------------------------------------
(* Types are kept: where a run is and what it counts *)

LEMMA RolesAre ==
  /\ Roles = {"localization", "classification"}
  /\ Models = {"localization", "classification", "model"}
  /\ None \notin Models
BY NoneAssumption DEF Roles, Models

LEMMA RowsAre ==
  ASSUME args \in Options
  PROVE  /\ Len(Rows) \in Nat /\ DOMAIN Rows = 1 .. Len(Rows)
         /\ \A n \in DOMAIN Rows : Rows[n].image \in Pieces
<1>1. Rows \in Seq(ToSet(Rows))
  BY OptionsAssumption DEF Rows
<1>2. \A n \in DOMAIN Rows : Rows[n].image \in Pieces
  BY DEF Rows, Pieces
<1> QED
  BY <1>1, <1>2, LenProperties

(* What follows a lot. *)
LEMMA LotFollows ==
  ASSUME NEW stop, NEW lots
  PROVE  AfterLot(stop, lots) \in {"finishing", "left", "replaying"}
BY DEF AfterLot

(* The state of a run that starts, and what a process that ends leaves. *)
LEMMA FreshRun ==
  ASSUME NEW number \in 0 .. MaxRuns
  PROVE  LET fresh == [NoRun EXCEPT !.number = number]
         IN /\ fresh \in RunStates /\ fresh.number = number
            /\ fresh.next = 1 /\ fresh.lot = {} /\ fresh.lots = <<>> /\ fresh.total = 0
            /\ fresh.last = 0 /\ fresh.cycles = <<>> /\ ~fresh.triggered /\ ~fresh.last_lot
<1>1. <<>> \in Seq(SUBSET Nat) /\ <<>> \in Seq(JournalEntries)
  BY EmptySeq
<1>2. NoRun \in [number : {0}, next : Nat \ {0}, lot : SUBSET Nat, lots : Seq(SUBSET Nat),
                 total : Nat, last : Nat, triggered : BOOLEAN, last_lot : BOOLEAN,
                 cycles : Seq(JournalEntries)]
  BY <1>1 DEF NoRun
<1>3. [NoRun EXCEPT !.number = number] \in RunStates
  BY <1>2 DEF RunStates
<1> QED
  BY <1>3 DEF NoRun

LEMMA ProcessEnded ==
  ASSUME ProcessEnds, run \in RunStates
  PROVE  /\ run' \in RunStates /\ run'.number = run.number /\ cand' = NoCycle
         /\ run'.next = 1 /\ run'.lot = {} /\ run'.lots = <<>> /\ run'.total = 0
         /\ run'.last = 0 /\ run'.cycles = <<>> /\ ~run'.triggered /\ ~run'.last_lot
<1>1. run.number \in 0 .. MaxRuns
  BY DEF RunStates
<1> QED
  BY <1>1, FreshRun DEF ProcessEnds

(* Where a step of the replay loop leads. *)
LEMMA LoopSteps ==
  ASSUME TypeInv, Replay
  PROVE  /\ args' = args /\ run'.number = run.number /\ run'.cycles = run.cycles
         /\ pc \in {"replaying", "left", "last_lot"}
         /\ pc' \in {"replaying", "left", "last_lot", "cycle", "finishing"}
         /\ pc' = "cycle" => Progressive
         /\ UNCHANGED <<active, cand, registry, alias, contracts, bucket, cache>>
<1>1. /\ run \in RunStates
      /\ \A stop, lots : AfterLot(stop, lots) \in {"finishing", "left", "replaying"}
  BY LotFollows DEF TypeInv, RunInv
<1>2. CASE ProcessEvent
  BY <1>1, <1>2 DEF ProcessEvent, RunStates
<1>3. CASE LeaveLoop
  BY <1>3 DEF LeaveLoop
<1>4. CASE AfterLoop
  BY <1>1, <1>4 DEF AfterLoop, RunStates
<1>5. CASE FinalizeLot \/ FinalizeLastLot
  <2>1. run'.number = run.number /\ run'.cycles = run.cycles
    BY <1>1, <1>5 DEF FinalizeLot, FinalizeLastLot, Finalize, RunStates
  <2> QED
    BY <1>1, <1>5, <2>1 DEF FinalizeLot, FinalizeLastLot, Finalize
<1> QED
  BY <1>2, <1>3, <1>4, <1>5 DEF Replay

LEMMA ControlSteps ==
  ASSUME TypeInv, Next
  PROVE  ControlInv'
<1>1. /\ ControlInv /\ run \in RunStates
      /\ \A stop, lots : AfterLot(stop, lots) \in {"finishing", "left", "replaying"}
  BY LotFollows DEF TypeInv, RunInv
<1>2. CASE StartRun
  BY <1>1, <1>2 DEF StartRun, ControlInv, NoRun, Progressive, Idle, Selected, RunStates
<1>3. CASE Replay
  BY <1>1, <1>3, LoopSteps DEF ControlInv, Progressive, Idle, Selected
<1>4. CASE Cycle
  <2>1. CASE StartCycle \/ TrainEpoch \/ LogTraining
    BY <1>1, <2>1
    DEF StartCycle, TrainEpoch, LogTraining, ControlInv, Progressive, Idle, Selected
  <2>2. CASE SelectClassification \/ Gate \/ PublishCheckpoint
    BY <1>1, <2>2
    DEF SelectClassification, Gate, PublishCheckpoint, ControlInv, Progressive, Idle, Selected
  <2>3. CASE RegisterModel \/ RegisteringDone
    BY <1>1, <2>3 DEF RegisterModel, RegisteringDone, ControlInv, Progressive, Idle, Selected
  <2>4. CASE CloseCycle
    BY <1>1, <2>4 DEF CloseCycle, ControlInv, Progressive, Idle, Selected
  <2> QED
    BY <1>4, <2>1, <2>2, <2>3, <2>4 DEF Cycle
<1>5. CASE Finish \/ UploadTrained \/ Abort
  BY <1>1, <1>5, ProcessEnded DEF Finish, UploadTrained, Abort, ControlInv, Progressive, Idle, Selected
<1> QED
  BY <1>2, <1>3, <1>4, <1>5 DEF Next

(* The rows of a plan stay those of the run. *)
LEMMA LotIsFinite ==
  ASSUME RunInv, args \in Options
  PROVE  /\ IsFiniteSet(run.lot) /\ Cardinality(Conforming(run.lot)) \in Nat
         /\ Conforming(run.lot) \subseteq run.lot
<1>1. run.lot \subseteq 1 .. run.next - 1 /\ run.next \in Nat
  BY DEF RunInv, RunStates
<1>2. IsFiniteSet(run.lot) /\ Conforming(run.lot) \subseteq run.lot
  <2>1. IsFiniteSet(1 .. run.next - 1)
    BY <1>1, FS_Interval
  <2> QED
    BY <1>1, <2>1, FS_Subset DEF Conforming
<1> QED
  BY <1>2, FS_Subset, FS_CardinalityType

LEMMA FinalizeKeeps ==
  ASSUME TypeInv, Finalize
  PROVE  RunInv' /\ run'.next = run.next
<1> DEFINE total == run.total + Cardinality(Conforming(run.lot))
           lots == Append(run.lots, run.lot)
           triggers == LotTriggers(total)
           where == IF triggers /\ Progressive THEN "cycle" ELSE AfterLot(triggers, lots)
           triggered == run.triggered \/ triggers
           lot == NextLot(where)
<1>1. run \in RunStates /\ RunInv /\ args \in Options
  BY DEF TypeInv, RunInv, ControlInv
<1>2. total \in Nat
  BY <1>1, LotIsFinite DEF RunStates
<1>3. /\ lots \in Seq(SUBSET Nat) /\ Len(lots) = Len(run.lots) + 1 /\ Len(run.lots) \in Nat
      /\ lots[Len(lots)] = run.lot /\ \A n \in 1 .. Len(run.lots) : lots[n] = run.lots[n]
      /\ DOMAIN lots = 1 .. Len(lots) /\ DOMAIN run.lots = 1 .. Len(run.lots)
  <2>1. run.lots \in Seq(SUBSET Nat) /\ run.lot \in SUBSET Nat
    BY <1>1 DEF RunStates
  <2>2. lots \in Seq(SUBSET Nat) /\ Len(lots) = Len(run.lots) + 1
    BY <2>1, AppendProperties
  <2> QED
    BY <2>1, <2>2, AppendProperties, LenProperties
<1>4. lot = {} \/ lot = run.lot
  BY DEF NextLot
<1>5. triggered \in BOOLEAN
  BY <1>1 DEF RunStates, LotTriggers
<1>6. run' = [run EXCEPT !.total = total, !.lots = lots, !.triggered = triggered, !.lot = lot]
  BY Zenon DEF Finalize
<1>7. args' = args
  BY DEF Finalize
<1> HIDE DEF total, lots, triggers, where, triggered, lot
<1>8. run' \in RunStates
  BY <1>1, <1>2, <1>3, <1>4, <1>5, <1>6 DEF RunStates
<1>9. run'.next = run.next /\ run'.lot = lot /\ run'.lots = lots
  BY <1>1, <1>6 DEF RunStates
<1>10. \A n \in DOMAIN lots : lots[n] \subseteq 1 .. run.next - 1
  BY <1>1, <1>3 DEF RunInv
<1>11. lot \subseteq 1 .. run.next - 1 /\ run.next <= Len(Rows) + 1
  BY <1>1, <1>4 DEF RunInv
<1>12. Rows' = Rows
  BY <1>7 DEF Rows
<1> QED
  BY <1>8, <1>9, <1>10, <1>11, <1>12 DEF RunInv

LEMMA RunSteps ==
  ASSUME TypeInv, Next
  PROVE  RunInv'
<1>1. RunInv /\ run \in RunStates /\ args \in Options /\ CandInv /\ ControlInv
  BY DEF TypeInv, RunInv, ControlInv
<1>2. CASE UNCHANGED <<run, args>>
  BY <1>1, <1>2 DEF RunInv, Rows
<1>3. CASE StartRun
  <2>1. run' = [NoRun EXCEPT !.number = run.number + 1] /\ run.number < MaxRuns /\ args' \in Options
    BY <1>3 DEF StartRun
  <2>2. run.number + 1 \in 0 .. MaxRuns
    BY <1>1, <2>1, RunnerAssumption DEF RunStates
  <2>3. run' \in RunStates /\ run'.next = 1 /\ run'.lot = {} /\ run'.lots = <<>>
    BY <2>1, <2>2, FreshRun
  <2>4. Len(Rows)' \in Nat
    <3>1. ReplayRows(args') \in Seq(ToSet(ReplayRows(args')))
      BY <2>1, OptionsAssumption
    <3> QED
      BY <3>1, LenProperties DEF Rows
  <2> QED
    BY <2>3, <2>4 DEF RunInv
<1>4. CASE ProcessEvent
  <2>1. /\ run' = [run EXCEPT !.lot = run.lot \cup {run.next}, !.next = run.next + 1]
        /\ run.next <= Len(Rows) /\ args' = args
    BY <1>4 DEF ProcessEvent, HasNextRow
  <2>2. run' \in RunStates
    <3>1. run.lot \cup {run.next} \in SUBSET Nat /\ run.next + 1 \in Nat \ {0}
      BY <1>1 DEF RunStates
    <3> QED
      BY <1>1, <2>1, <3>1 DEF RunStates
  <2>3. /\ run'.lot = run.lot \cup {run.next} /\ run'.next = run.next + 1 /\ run'.lots = run.lots
        /\ run.next \in Nat \ {0}
    BY <1>1, <2>1 DEF RunStates
  <2>4. Len(Rows) \in Nat /\ Rows' = Rows
    BY <1>1, <2>1, RowsAre DEF Rows
  <2>5. 1 .. run.next - 1 \subseteq 1 .. run'.next - 1 /\ run.next \in 1 .. run'.next - 1
    BY <2>3
  <2>6. run'.lot \subseteq 1 .. run'.next - 1
    BY <1>1, <2>3, <2>5 DEF RunInv
  <2>7. \A n \in DOMAIN run'.lots : run'.lots[n] \subseteq 1 .. run'.next - 1
    BY <1>1, <2>3, <2>5 DEF RunInv
  <2>8. run'.next <= Len(Rows)' + 1
    BY <2>1, <2>3, <2>4
  <2> QED
    BY <2>2, <2>6, <2>7, <2>8 DEF RunInv
<1>5. CASE FinalizeLot \/ FinalizeLastLot
  BY <1>5, FinalizeKeeps DEF FinalizeLot, FinalizeLastLot
<1>6. CASE AfterLoop
  <2>1. run' = [run EXCEPT !.last_lot = TRUE] /\ args' = args
    BY <1>6 DEF AfterLoop
  <2>2. run' \in RunStates
    BY <1>1, <2>1 DEF RunStates
  <2>3. run'.next = run.next /\ run'.lot = run.lot /\ run'.lots = run.lots /\ Rows' = Rows
    BY <1>1, <2>1 DEF RunStates, Rows
  <2> QED
    BY <1>1, <2>2, <2>3 DEF RunInv
<1>7. CASE CloseCycle
  <2> DEFINE cycles == Append(run.cycles, JournalEntry)
             where == AfterLot(ReachedMaxCycles(cycles), run.lots)
             lot == NextLot(where)
  <2>1. /\ run' = [run EXCEPT !.last = Watermark, !.cycles = cycles, !.lot = lot]
        /\ args' = args /\ pc = "closing"
    BY <1>7, Zenon DEF CloseCycle
  <2>2. JournalEntry \in JournalEntries
    <3>1. cand \in Candidates /\ Filled(cand.dir) /\ cand.dir \in Dirs /\ None \in Optional
      BY <1>1, <2>1 DEF CandInv, Candidates, Optional
    <3>2. CheckpointFile(cand.dir) \in Optional
      BY <3>1, FilesAreCheckpoints
    <3>3. \A m \in Models : JudgedContent(m) \in Optional
      BY <3>1, <3>2, RolesAre DEF JudgedContent, Candidates
    <3>4. /\ run.total \in Nat /\ run.next - 1 \in Nat /\ cand.status \in [Models -> Statuses]
      BY <1>1, <3>1 DEF RunStates, Candidates
    <3> DEFINE judged == IF args.mode = "progressive-train" THEN [m \in Models |-> JudgedContent(m)]
                         ELSE [m \in Models |-> None]
    <3>5. judged \in [Models -> Optional]
      BY <3>1, <3>3
    <3>6. JournalEntry = [total |-> run.total, rows |-> run.next - 1, status |-> cand.status,
                          judged |-> judged]
      BY Zenon DEF JournalEntry
    <3> HIDE DEF judged
    <3> QED
      BY <3>4, <3>5, <3>6 DEF JournalEntries
  <2>3. cycles \in Seq(JournalEntries)
    BY <1>1, <2>2, AppendProperties DEF RunStates
  <2>4. lot = {} \/ lot = run.lot
    BY DEF NextLot
  <2> HIDE DEF cycles, where, lot
  <2>5. run' \in RunStates
    BY <1>1, <2>1, <2>3, <2>4 DEF RunStates, Watermark
  <2>6. run'.next = run.next /\ run'.lot = lot /\ run'.lots = run.lots /\ Rows' = Rows
    BY <1>1, <2>1 DEF RunStates, Rows
  <2> QED
    BY <1>1, <2>4, <2>5, <2>6 DEF RunInv
<1>8. CASE ProcessEnds /\ args' = args
  <2>1. Len(Rows) \in Nat /\ Rows' = Rows
    BY <1>1, <1>8, RowsAre DEF Rows
  <2> QED
    BY <1>1, <1>8, <2>1, ProcessEnded DEF RunInv
<1> QED
  <2>1. CASE Replay
    BY <1>2, <1>4, <1>5, <1>6, <2>1 DEF Replay, LeaveLoop
  <2>2. CASE Cycle
    BY <1>2, <1>7, <2>2
    DEF Cycle, StartCycle, TrainEpoch, LogTraining, SelectClassification, Gate, PublishCheckpoint,
        RegisterModel, RegisteringDone
  <2>3. CASE Finish \/ UploadTrained \/ Abort
    BY <1>2, <1>8, <2>3 DEF Finish, UploadTrained, Abort
  <2> QED
    BY <1>3, <2>1, <2>2, <2>3 DEF Next

-----------------------------------------------------------------------------
(* Types are kept: the candidate *)

(* What a cycle trains on are images of rows and of anchors. *)
LEMMA ManifestTypes ==
  ASSUME RunInv, args \in Options
  PROVE  TrainingImages \subseteq Pieces
<1>1. run.next \in Nat /\ run.next <= Len(Rows) + 1 /\ Len(Rows) \in Nat
  BY RowsAre DEF RunInv, RunStates
<1>2. Conforming(1 .. run.next - 1) \subseteq DOMAIN Rows
  BY <1>1, RowsAre DEF Conforming
<1>3. SeenGood \subseteq Pieces
  BY <1>2, RowsAre DEF SeenGood
<1>4. CappedAnchors \subseteq DOMAIN Anchors
  BY DEF CappedAnchors
<1> QED
  BY <1>3, <1>4 DEF TrainingImages, Pieces

(* No cycle, and an empty directory. *)
LEMMA NoCycleType ==
  /\ EmptyDir \in Dirs /\ Filled(EmptyDir) /\ EmptyDir.epochs = <<>>
  /\ NoCycle \in Candidates /\ Filled(NoCycle.dir)
  /\ \A m \in Models : NoCycle.status[m] = "simulated"
<1>1. <<>> \in Seq(Checkpoints)
  BY EmptySeq
<1>2. <<>> \in UNION {[ms -> Nat] : ms \in SUBSET EpochMetrics}
  <2>1. {} \in SUBSET EpochMetrics /\ <<>> \in [{} -> Nat]
    OBVIOUS
  <2> QED
    BY <2>1
<1>3. EmptyDir \in Dirs /\ Filled(EmptyDir) /\ EmptyDir.epochs = <<>>
  <2> DEFINE none == <<>>
  <2>1. none \in [DOMAIN none -> DOMAIN none] /\ EmptyDir = [epochs |-> none, best |-> none]
    BY DEF EmptyDir
  <2> HIDE DEF none
  <2>2. EmptyDir.epochs = none /\ EmptyDir.best = none
    BY <2>1
  <2> QED
    BY <1>1, <1>2, <2>1, <2>2 DEF none, Dirs, Filled
<1>4. /\ [m \in Models |-> "simulated"] \in [Models -> Statuses]
      /\ [m \in Models |-> None] \in [Models -> Optional] /\ None \in Optional
  BY DEF Statuses, Optional
<1> HIDE DEF EmptyDir
<1>5. NoCycle \in Candidates /\ NoCycle.dir = EmptyDir
  BY <1>3, <1>4 DEF NoCycle, Candidates
<1>6. \A m \in Models : NoCycle.status[m] = "simulated"
  BY DEF NoCycle
<1> QED
  BY <1>3, <1>5, <1>6

(* select_classification_candidate_checkpoint chooses with what it measured of the files. *)
LEMMA SelectionAnswers ==
  ASSUME TypeInv, SelectClassification, args.selection_manifest
  PROVE  /\ Truthful(cache')
         /\ cand'.classification \in Checkpoints
         /\ cand' = [cand EXCEPT !.classification = cand'.classification]
         /\ \A n \in DOMAIN cand.dir.epochs :
              GoodRedOk(args, active.classification.content, cand.dir.epochs[n], Selection) =>
                FalseNegatives(cand'.classification, Selection)
                  <= FalseNegatives(cand.dir.epochs[n], Selection)
<1> DEFINE File == [name : FileNames, content : Checkpoints]
           JudgedFile == [name : FileNames, content : Checkpoints, measured : Checkpoints]
           files == SelectionFiles(cand.dir)
           candidates == [n \in DOMAIN files |-> Candidate(files[n].content)]
           requests == <<active.classification>> \o candidates
           entries == Evaluated(cache, requests, SelectionPath)
           measured(request) == Measured(entries, request, SelectionPath)
           file(n) == [name |-> files[n].name, content |-> files[n].content,
                       measured |-> measured(Candidate(files[n].content))]
           judged == [n \in DOMAIN files |-> file(n)]
           chosen == SelectClassificationFile(args, judged, measured(active.classification), Selection)
<1>1. /\ cand \in Candidates /\ Filled(cand.dir) /\ cand.dir \in Dirs /\ cand.dir.epochs # <<>>
      /\ active.classification \in RuntimeType /\ Truthful(cache)
  BY RolesAre DEF SelectClassification, TypeInv, CandInv, ActiveInv, Candidates
<1>2. /\ files \in Seq(File) /\ DOMAIN cand.dir.epochs \subseteq DOMAIN files
      /\ \A n \in DOMAIN cand.dir.epochs : files[n].content = cand.dir.epochs[n]
  BY <1>1, OfferedFiles
<1>3. /\ DOMAIN files = 1 .. Len(files) /\ Len(files) \in Nat /\ Len(files) # 0
      /\ \A n \in DOMAIN files : files[n] \in File
  <2> HIDE DEF File, files
  <2>1. DOMAIN files = 1 .. Len(files) /\ Len(files) \in Nat /\ \A n \in DOMAIN files : files[n] \in File
    BY <1>2, LenProperties, ElementOfSeq
  <2>2. cand.dir.epochs \in Seq(Checkpoints)
    BY <1>1 DEF Dirs
  <2>3. DOMAIN cand.dir.epochs # {}
    <3>1. Len(cand.dir.epochs) \in Nat \ {0} /\ DOMAIN cand.dir.epochs = 1 .. Len(cand.dir.epochs)
      BY <1>1, <2>2, LenProperties, EmptySeq
    <3> QED
      BY <3>1, SMTT(30)
  <2> QED
    BY <1>2, <2>1, <2>3
<1> HIDE DEF files
<1>4. \A n \in DOMAIN files :
        /\ files[n].content \in Checkpoints /\ files[n].name \in FileNames
        /\ Candidate(files[n].content) \in RuntimeType
        /\ Candidate(files[n].content).content = files[n].content
  BY <1>1, <1>3 DEF Candidate, Runtime, RuntimeType, Candidates
<1>5. candidates \in [1 .. Len(files) -> RuntimeType]
  <2> HIDE DEF File
  <2> QED
    BY <1>3, <1>4
<1>6. \A n \in DOMAIN files : candidates[n] = Candidate(files[n].content)
  OBVIOUS
<1> HIDE DEF candidates
<1>7. candidates \in Seq(RuntimeType) /\ DOMAIN candidates = DOMAIN files /\ Len(candidates) = Len(files)
  <2>1. candidates \in Seq(RuntimeType) /\ DOMAIN candidates = DOMAIN files
    BY <1>3, <1>5
  <2> QED
    BY <1>3, <2>1, LenProperties
<1>8. <<active.classification>> \in Seq(RuntimeType) /\ Len(<<active.classification>>) = 1
      /\ <<active.classification>>[1] = active.classification
  BY <1>1, OneElement
<1>9. /\ requests \in Seq(RuntimeType) /\ DOMAIN requests = 1 .. Len(files) + 1
      /\ requests[1] = active.classification
      /\ \A n \in DOMAIN files : requests[n + 1] = candidates[n]
  <2> DEFINE first == <<active.classification>>
  <2>1. first \in Seq(RuntimeType) /\ Len(first) = 1 /\ first[1] = active.classification
    BY <1>8
  <2> HIDE DEF first
  <2>2. /\ first \o candidates \in Seq(RuntimeType) /\ Len(first \o candidates) = 1 + Len(files)
        /\ \A n \in 1 .. 1 + Len(files) :
             (first \o candidates)[n] = IF n <= 1 THEN first[n] ELSE candidates[n - 1]
    <3> DEFINE both == first \o candidates
    <3>1. /\ both \in Seq(RuntimeType) /\ Len(both) = Len(first) + Len(candidates)
          /\ \A n \in 1 .. Len(first) + Len(candidates) :
               both[n] = IF n <= Len(first) THEN first[n] ELSE candidates[n - Len(first)]
      <4>1. candidates \in Seq(RuntimeType) /\ first \in Seq(RuntimeType)
        BY <1>7, <2>1
      <4> QED
        BY <4>1, ConcatProperties, Zenon
    <3> HIDE DEF both
    <3>2. /\ both \in Seq(RuntimeType) /\ Len(both) = 1 + Len(files)
          /\ \A n \in 1 .. 1 + Len(files) : both[n] = IF n <= 1 THEN first[n] ELSE candidates[n - 1]
      BY <1>7, <2>1, <3>1
    <3> QED
      BY <3>2 DEF both
  <2>3. requests = first \o candidates
    BY DEF first
  <2>4. DOMAIN requests = 1 .. Len(files) + 1
    BY <1>3, <2>2, <2>3, LenProperties
  <2> QED
    BY <1>3, <2>1, <2>2, <2>3, <2>4
<1>10. SelectionPath \in Paths
  BY RunnerAssumption DEF SelectionPath, Paths
<1> HIDE DEF requests
<1>11. /\ Truthful(entries)
       /\ \A n \in DOMAIN requests : Measured(entries, requests[n], SelectionPath) = requests[n].content
  BY <1>1, <1>9, <1>10, CacheAnswers
<1> HIDE DEF entries
<1>12. measured(active.classification) = active.classification.content
  BY <1>3, <1>9, <1>11
<1>13. \A n \in DOMAIN files : measured(Candidate(files[n].content)) = files[n].content
  BY <1>3, <1>4, <1>6, <1>9, <1>11
<1> HIDE DEF measured
<1>14. \A n \in DOMAIN files :
         file(n) \in JudgedFile /\ file(n).measured = files[n].content /\ file(n).content = files[n].content
  BY <1>4, <1>13
<1>15. /\ judged \in [1 .. Len(files) -> JudgedFile] /\ DOMAIN judged = DOMAIN files
       /\ \A n \in DOMAIN files : judged[n] = file(n)
  <2> HIDE DEF JudgedFile, file
  <2> QED
    BY <1>3, <1>14
<1>16. judged \in Seq(JudgedFile) /\ judged # <<>>
  <2> HIDE DEF JudgedFile, judged
  <2>1. judged \in Seq(JudgedFile)
    BY <1>3, <1>15
  <2> QED
    BY <1>3, <1>15, <2>1
<1>17. cache' = entries /\ cand' = [cand EXCEPT !.classification = chosen.content]
  BY Zenon DEF SelectClassification, entries, requests, candidates, files, measured
<1> HIDE DEF judged, file
<1>18. /\ chosen.content \in Checkpoints
       /\ \A n \in DOMAIN judged :
            GoodRedOk(args, active.classification.content, judged[n].content, Selection) =>
              FalseNegatives(chosen.content, Selection) <= FalseNegatives(judged[n].content, Selection)
  <2> DEFINE served == measured(active.classification)
             file_chosen == SelectClassificationFile(args, judged, served, Selection)
  <2>1. \A n \in DOMAIN judged : judged[n].measured = judged[n].content
    BY <1>14, <1>15
  <2> HIDE DEF served
  <2>2. /\ file_chosen.content \in Checkpoints
        /\ \A n \in DOMAIN judged :
             GoodRedOk(args, served, judged[n].content, Selection) =>
               FalseNegatives(file_chosen.content, Selection)
                 <= FalseNegatives(judged[n].content, Selection)
    BY <1>16, <2>1, SelectionAssumption, ChosenFile, Zenon
  <2>3. served = active.classification.content /\ chosen = file_chosen
    BY <1>12 DEF served
  <2> HIDE DEF chosen, file_chosen
  <2> QED
    BY <2>2, <2>3
<1> HIDE DEF chosen
<1>19. cand'.classification = chosen.content
  BY <1>1, <1>17 DEF Candidates
<1>20. \A n \in DOMAIN cand.dir.epochs :
         n \in DOMAIN judged /\ judged[n].content = cand.dir.epochs[n]
  BY <1>2, <1>14, <1>15
<1> QED
  BY <1>11, <1>17, <1>18, <1>19, <1>20

(* The directory of a training after one more epoch, also of one that fails. *)
LEMMA EpochTypes ==
  ASSUME NEW dir \in Dirs, Filled(dir), NEW content \in Checkpoints
  PROVE  SaveEpoch(dir, content) \in Dirs
<1>1. CASE EpochMetrics # {}
  BY <1>1, EpochSaved
<1>2. CASE EpochMetrics = {}
  <2> DEFINE epochs == Append(dir.epochs, content)
             best == UpdateBest(dir, content)
  <2>1. epochs \in Seq(Checkpoints)
    BY AppendProperties DEF Dirs
  <2>2. best \in [EpochMetrics -> Nat] /\ best \in [DOMAIN best -> DOMAIN epochs]
    BY <1>2 DEF UpdateBest
  <2>3. SaveEpoch(dir, content) = [epochs |-> epochs, best |-> best]
    BY DEF SaveEpoch
  <2> HIDE DEF epochs, best
  <2>4. best \in UNION {[ms -> Nat] : ms \in SUBSET EpochMetrics}
    BY <2>2
  <2> QED
    BY <2>1, <2>2, <2>3, <2>4 DEF Dirs
<1> QED
  BY <1>1, <1>2

(* A model that is still to be published or registered is one that was promoted. *)
LEMMA NextIsPromoted ==
  ASSUME NEW done
  PROVE  /\ NextPromoted(done) # None =>
              NextPromoted(done) \in Models /\ Promoted(NextPromoted(done)) /\ NextPromoted(done) \notin done
         /\ NextPromoted(done) = None => \A m \in Models : Promoted(m) => m \in done
BY RolesAre DEF NextPromoted

(* What was judged stays as it was until the cycle is closed. *)
LEMMA JudgedStays ==
  ASSUME cand \in Candidates, args' = args, cand' \in Candidates,
         cand'.number = cand.number, cand'.dir = cand.dir,
         cand'.localization = cand.localization, cand'.classification = cand.classification,
         cand'.status = cand.status, cand'.calibrated = cand.calibrated
  PROVE  \A m \in Models :
           /\ JudgedContent(m)' = JudgedContent(m) /\ IsJudged(m)' = IsJudged(m)
           /\ Promoted(m)' = Promoted(m) /\ Calibrated(m)' = Calibrated(m)
<1>1. ASSUME NEW m \in Models
      PROVE  /\ JudgedContent(m)' = JudgedContent(m) /\ IsJudged(m)' = IsJudged(m)
             /\ Promoted(m)' = Promoted(m)
  BY <1>1 DEF JudgedContent, IsJudged, Promoted
<1> QED
  BY <1>1 DEF Calibrated

(* Nothing is asked of a candidate when there is none. *)
LEMMA NoCandidate ==
  ASSUME cand' = NoCycle, pc' \notin {"training", "selecting", "uploading_trained", "closing"} \cup Selected
  PROVE  CandInv'
BY NoCycleType DEF CandInv, Selected, Judged

LEMMA GateSteps ==
  ASSUME TypeInv, Gate
  PROVE  CandInv' /\ Truthful(cache')
<1> DEFINE path == IF args.dual THEN GatePath ELSE ReferencePath
           entries == Evaluated(cache, Compared, path)
           measure == [r \in ToSet(Compared) |-> Measured(entries, r, path)]
           status == GateStatus(measure)
           calibrated == ContractThresholds(measure)
<1>1. /\ pc = "gate" /\ args' = args /\ cache' = entries
      /\ cand' = [cand EXCEPT !.status = status, !.calibrated = calibrated]
      /\ pc' \in {"publishing", "registering"}
  BY Zenon DEF Gate
<1>2. /\ CandInv /\ cand \in Candidates /\ Filled(cand.dir) /\ cand.dir.epochs # <<>> /\ cand.number # 0
      /\ {cand.localization, cand.classification} \subseteq Checkpoints
      /\ args.mode = "progressive-train" /\ args.dual \in BOOLEAN
  BY <1>1, OptionsAssumption DEF TypeInv, CandInv, ControlInv, Selected
<1>3. /\ Truthful(entries)
      /\ measure = [r \in ToSet(Compared) |-> r.content]
      /\ \A m \in Models :
           IsJudged(m) => /\ JudgedContent(m) \in Checkpoints
                          /\ Candidate(JudgedContent(m)) \in ToSet(Compared)
                          /\ Candidate(JudgedContent(m)).content = JudgedContent(m)
  BY <1>1, GateMeasures
<1>4. status \in [Models -> Statuses]
  BY StatusTypes
<1>5. \A m \in Models : calibrated[m] = IF IsJudged(m) THEN JudgedContent(m) ELSE None
  <2> HIDE DEF measure
  <2>1. ASSUME NEW m \in Models, IsJudged(m)
        PROVE  calibrated[m] = JudgedContent(m)
    <3>1. measure[Candidate(JudgedContent(m))] = JudgedContent(m)
      BY <1>3, <2>1
    <3> QED
      BY <2>1, <3>1 DEF ContractThresholds, IsJudged
  <2>2. ASSUME NEW m \in Models, ~IsJudged(m)
        PROVE  calibrated[m] = None
    BY <1>2, <2>2 DEF ContractThresholds, IsJudged
  <2> QED
    BY <2>1, <2>2
<1>6. calibrated \in [Models -> Optional]
  <2>1. DOMAIN calibrated = Models /\ calibrated = [m \in Models |-> calibrated[m]]
    BY DEF ContractThresholds
  <2>2. \A m \in Models : calibrated[m] \in Optional
    BY <1>3, <1>5 DEF Optional
  <2> HIDE DEF calibrated
  <2> QED
    BY <2>1, <2>2
<1>7. \A m \in Models : status[m] = "promoted" => IsJudged(m)
  BY <1>2, RolesAre DEF GateStatus, DualStatus, SingleGateStatus, IsJudged
<1> HIDE DEF measure, entries, status, calibrated
<1>8. /\ cand' \in Candidates /\ cand'.status = status /\ cand'.calibrated = calibrated
      /\ cand'.dir = cand.dir /\ cand'.number = cand.number
      /\ cand'.localization = cand.localization /\ cand'.classification = cand.classification
  BY <1>1, <1>2, <1>4, <1>6 DEF Candidates
<1>9. ASSUME NEW m \in Models
      PROVE  /\ IsJudged(m)' = IsJudged(m) /\ JudgedContent(m)' = JudgedContent(m)
             /\ Promoted(m)' => IsJudged(m)'
             /\ IsJudged(m)' => Calibrated(m)'
  <2>1. IsJudged(m)' = IsJudged(m) /\ JudgedContent(m)' = JudgedContent(m)
    BY <1>1, <1>8 DEF IsJudged, JudgedContent
  <2>2. Promoted(m)' => IsJudged(m)'
    BY <1>7, <1>8, <2>1 DEF Promoted
  <2>3. IsJudged(m)' => Calibrated(m)'
    BY <1>3, <1>5, <1>8, <2>1 DEF Calibrated
  <2> QED
    BY <2>1, <2>2, <2>3
<1>10. Filled(cand.dir)' /\ {cand.localization, cand.classification}' \subseteq Checkpoints
  BY <1>2, <1>8 DEF Filled
<1> QED
  BY <1>1, <1>2, <1>3, <1>8, <1>9, <1>10 DEF CandInv, Selected, Judged

LEMMA CandSteps ==
  ASSUME TypeInv, Next
  PROVE  CandInv'
<1>1. /\ CandInv /\ cand \in Candidates /\ cand.dir \in Dirs /\ RunInv /\ ControlInv
      /\ run \in RunStates /\ args \in Options
  BY DEF TypeInv, CandInv, RunInv, ControlInv, Candidates
<1>2. CASE StartRun
  BY <1>2, NoCandidate DEF StartRun, Selected
<1>3. CASE Replay
  <2>1. /\ cand' = cand /\ pc \in {"replaying", "left", "last_lot"}
        /\ pc' \in {"replaying", "left", "last_lot", "cycle", "finishing"}
    BY <1>3, LoopSteps
  <2>2. cand' = NoCycle
    BY <1>1, <2>1 DEF CandInv
  <2> QED
    BY <2>1, <2>2, NoCandidate DEF Selected
<1>4. CASE StartCycle
  <2> DEFINE number == Len(run.cycles) + 1
  <2>1. /\ cand' = [NoCycle EXCEPT !.number = number, !.manifest = TrainingImages, !.dir = EmptyDir]
        /\ pc' \in {"closing", "failed", "training"}
    BY <1>4 DEF StartCycle, CandidateRunDir
  <2>2. number \in Nat \ {0}
    BY <1>1, LenProperties DEF RunStates
  <2>3. TrainingImages \in SUBSET Pieces
    BY <1>1, ManifestTypes
  <2> HIDE DEF number
  <2>4. cand' \in Candidates
    BY <2>1, <2>2, <2>3, NoCycleType DEF Candidates
  <2>5. /\ cand'.number = number /\ cand'.dir = EmptyDir /\ cand'.status = NoCycle.status
    BY <2>1, NoCycleType DEF Candidates
  <2>6. \A m \in Models : ~Promoted(m)'
    BY <2>5, NoCycleType DEF Promoted
  <2>7. Filled(cand.dir)'
    BY <2>5, NoCycleType DEF Filled
  <2> QED
    BY <2>1, <2>2, <2>4, <2>5, <2>6, <2>7 DEF CandInv, Selected, Judged
<1>5. CASE TrainEpoch
  <2>1. PICK content \in Checkpoints : cand' = [cand EXCEPT !.dir = SaveEpoch(cand.dir, content)]
    BY <1>5 DEF TrainEpoch
  <2>2. /\ pc = "training" /\ args' = args
        /\ pc' = IF EpochMetrics = {} THEN "failed" ELSE "training"
    BY <1>5 DEF TrainEpoch
  <2>3. Filled(cand.dir)
    BY <1>1, <2>2 DEF CandInv
  <2>4. SaveEpoch(cand.dir, content) \in Dirs
    BY <1>1, <2>3, EpochTypes
  <2>5. EpochMetrics # {} => Filled(SaveEpoch(cand.dir, content))
    BY <1>1, <2>3, EpochSaved
  <2>6. /\ cand' \in Candidates /\ cand'.dir = SaveEpoch(cand.dir, content)
        /\ cand'.number = cand.number
    BY <1>1, <2>1, <2>4 DEF Candidates
  <2>7. EpochMetrics # {} => Filled(cand.dir)'
    BY <2>5, <2>6 DEF Filled
  <2> QED
    BY <1>1, <2>2, <2>6, <2>7 DEF CandInv, Selected, Judged
<1>6. CASE LogTraining
  <2> DEFINE localization == SpecializedFile(cand.dir, "localization")
             classification == SpecializedFile(cand.dir, "classification")
  <2>1. /\ pc = "training" /\ args' = args /\ cand.dir.epochs # <<>>
        /\ cand' = [cand EXCEPT !.localization = localization, !.classification = classification]
        /\ pc' = IF args.mode = "train-on-trigger" THEN "uploading_trained" ELSE "selecting"
    BY <1>6 DEF LogTraining, TrainingOver
  <2>2. Filled(cand.dir)
    BY <1>1, <2>1 DEF CandInv
  <2>3. {localization, classification} \subseteq Checkpoints
    BY <1>1, <2>1, <2>2, FilesAreCheckpoints
  <2> HIDE DEF localization, classification
  <2>4. cand' \in Candidates
    BY <1>1, <2>1, <2>3 DEF Candidates, Optional
  <2>5. /\ cand'.dir = cand.dir /\ cand'.number = cand.number
        /\ cand'.localization = localization /\ cand'.classification = classification
    BY <1>1, <2>1 DEF Candidates
  <2>6. Filled(cand.dir)'
    BY <2>2, <2>5 DEF Filled
  <2>7. args.mode # "train-on-trigger" => cand.number # 0
    BY <1>1, <2>1 DEF CandInv, ControlInv
  <2> QED
    BY <2>1, <2>3, <2>4, <2>5, <2>6, <2>7 DEF CandInv, Selected, Judged
<1>7. CASE SelectClassification
  <2>1. pc = "selecting" /\ pc' = "gate" /\ args' = args
    BY <1>7 DEF SelectClassification
  <2>2. /\ cand' \in Candidates /\ cand'.dir = cand.dir /\ cand'.number = cand.number
        /\ cand'.localization = cand.localization
        /\ cand'.classification = cand.classification \/ cand'.classification \in Checkpoints
    <3>1. CASE args.selection_manifest
      <4>1. /\ cand'.classification \in Checkpoints
            /\ cand' = [cand EXCEPT !.classification = cand'.classification]
        BY <1>7, <3>1, SelectionAnswers
      <4> QED
        BY <1>1, <4>1 DEF Candidates, Optional
    <3>2. CASE ~args.selection_manifest
      BY <1>1, <1>7, <3>2 DEF SelectClassification
    <3> QED
      BY <3>1, <3>2
  <2>3. /\ Filled(cand.dir) /\ cand.dir.epochs # <<>> /\ cand.number # 0
        /\ {cand.localization, cand.classification} \subseteq Checkpoints
    BY <1>1, <2>1 DEF CandInv, ControlInv
  <2>4. Filled(cand.dir)'
    BY <2>2, <2>3 DEF Filled
  <2> QED
    BY <2>1, <2>2, <2>3, <2>4 DEF CandInv, Selected, Judged
<1>8. CASE Gate
  BY <1>8, GateSteps
<1>9. CASE PublishCheckpoint \/ RegisterModel \/ RegisteringDone
  <2>1. /\ pc \in {"publishing", "registering"} /\ args' = args
        /\ pc' \in {"publishing", "registering", "closing", "failed"}
    BY <1>9 DEF PublishCheckpoint, RegisterModel, RegisteringDone
  <2>2. /\ cand' \in Candidates /\ cand'.number = cand.number /\ cand'.dir = cand.dir
        /\ cand'.localization = cand.localization /\ cand'.classification = cand.classification
        /\ cand'.status = cand.status /\ cand'.calibrated = cand.calibrated
    <3>1. CASE UNCHANGED cand
      BY <1>1, <3>1
    <3>2. CASE cand' = [cand EXCEPT !.uploaded = @ \cup {PromotedToUpload}] /\ PromotedToUpload # None
      <4>1. PromotedToUpload \in Models
        BY <3>2, NextIsPromoted DEF PromotedToUpload
      <4> QED
        BY <1>1, <3>2, <4>1 DEF Candidates
    <3>3. CASE /\ cand' = [cand EXCEPT !.tried = @ \cup {NextPromoted(cand.tried)}]
               /\ NextPromoted(cand.tried) # None
      <4>1. NextPromoted(cand.tried) \in Models
        BY <3>3, NextIsPromoted
      <4> QED
        BY <1>1, <3>3, <4>1 DEF Candidates
    <3> QED
      BY <1>9, <3>1, <3>2, <3>3 DEF PublishCheckpoint, RegisterModel, RegisteringDone
  <2>3. \A m \in Models :
          /\ IsJudged(m)' = IsJudged(m) /\ Promoted(m)' = Promoted(m) /\ Calibrated(m)' = Calibrated(m)
    BY <1>1, <2>1, <2>2, JudgedStays
  <2>4. /\ Filled(cand.dir) /\ cand.dir.epochs # <<>>
        /\ {cand.localization, cand.classification} \subseteq Checkpoints
        /\ args.mode = "progressive-train" => cand.number # 0
        /\ \A m \in Models : Promoted(m) => IsJudged(m) /\ Calibrated(m)
        /\ \A m \in Models : IsJudged(m) => Calibrated(m)
    BY <1>1, <2>1 DEF CandInv, Selected, Judged
  <2>5. Filled(cand.dir)'
    BY <2>2, <2>4 DEF Filled
  <2>6. /\ \A m \in Models : Promoted(m)' => IsJudged(m)' /\ Calibrated(m)'
        /\ \A m \in Models : IsJudged(m)' => Calibrated(m)'
    BY <2>3, <2>4
  <2> QED
    BY <2>1, <2>2, <2>4, <2>5, <2>6 DEF CandInv, Selected, Judged
<1>10. CASE CloseCycle
  BY <1>10, LotFollows, NoCandidate DEF CloseCycle, Selected
<1>11. CASE Finish
  <2>1. cand = NoCycle /\ pc = "finishing" /\ args' = args
    BY <1>1, <1>11 DEF Finish, CandInv
  <2>2. CASE pc' = "completed"
    BY <1>1, <1>11, <2>2, ProcessEnded, NoCandidate DEF Finish, Selected
  <2>3. CASE pc' = "training" /\ cand' = cand /\ args.mode = "train-on-trigger"
    <3>1. Filled(cand.dir)'
      BY <2>1, <2>3, NoCycleType DEF Filled
    <3> QED
      BY <1>1, <2>1, <2>3, <3>1 DEF CandInv, Selected, Judged
  <2> QED
    BY <1>11, <2>2, <2>3 DEF Finish
<1>12. CASE UploadTrained \/ Abort
  BY <1>1, <1>12, ProcessEnded, NoCandidate DEF UploadTrained, Abort, Selected
<1> QED
  BY <1>2, <1>3, <1>4, <1>5, <1>6, <1>7, <1>8, <1>9, <1>10, <1>11, <1>12 DEF Next, Cycle

-----------------------------------------------------------------------------
(* Types are kept: runtimes, registry, bucket and cache *)

LEMMA StableIsARuntime == StableRuntime \in RuntimeType
BY RunnerAssumption DEF StableRuntime, Runtime, RuntimeType

(* The runtime of a registered version. *)
LEMMA RegisteredTypes ==
  ASSUME RegistryInv, NEW role \in Roles, alias[role] # 0, NEW fallback \in RuntimeType
  PROVE  RegisteredRuntime(role, fallback) \in RuntimeType
<1> DEFINE v == registry[role][alias[role]]
           logged == {c \in contracts : c.run = v.run /\ c.cycle = v.cycle /\ c.role = role}
           calibrated == IF logged = {} THEN fallback.calibrated
                         ELSE (CHOOSE c \in logged : TRUE).calibrated
<1>1. v \in Versions
  <2>1. registry[role] \in Seq(Versions) /\ alias[role] \in 1 .. Len(registry[role])
    BY DEF RegistryInv, Models
  <2> QED
    BY <2>1, ElementOfSeq
<1>2. calibrated \in Checkpoints
  <2>1. CASE logged = {}
    BY <2>1 DEF RuntimeType
  <2>2. CASE logged # {}
    <3>1. (CHOOSE c \in logged : TRUE) \in Contracts
      BY <2>2 DEF RegistryInv
    <3> QED
      BY <2>2, <3>1 DEF Contracts
  <2> QED
    BY <2>1, <2>2
<1>3. RegisteredRuntime(role, fallback) = Runtime(v.cycle, v.content, calibrated)
  BY Zenon DEF RegisteredRuntime
<1> HIDE DEF v, calibrated
<1> QED
  BY <1>1, <1>2, <1>3 DEF Runtime, RuntimeType, Versions

LEMMA InitialTypes ==
  ASSUME RegistryInv, NEW found, \A role \in found \cap Roles : alias[role] # 0
  PROVE  InitialRuntimes(found) \in [Roles -> RuntimeType]
<1> DEFINE classification ==
             IF "classification" \in found THEN RegisteredRuntime("classification", StableRuntime)
             ELSE StableRuntime
           localization ==
             IF "localization" \in found THEN RegisteredRuntime("localization", classification)
             ELSE classification
<1>1. classification \in RuntimeType
  BY StableIsARuntime, RegisteredTypes DEF Roles
<1> HIDE DEF classification
<1>2. localization \in RuntimeType
  BY <1>1, RegisteredTypes DEF Roles
<1>3. InitialRuntimes(found) = [classification |-> classification, localization |-> localization]
  BY DEF InitialRuntimes, classification
<1> HIDE DEF localization
<1> QED
  BY <1>1, <1>2, <1>3 DEF Roles

(* The runtime of a role after a cycle. *)
LEMMA ActivatedTypes ==
  ASSUME TypeInv, pc = "closing", NEW role \in Roles
  PROVE  Activated(role) \in RuntimeType
<1>1. /\ cand \in Candidates /\ active[role] \in RuntimeType
      /\ \A m \in Models : Promoted(m) => JudgedContent(m) \in Checkpoints
                                          /\ cand.calibrated[m] = JudgedContent(m)
  BY DEF TypeInv, CandInv, ActiveInv, Judged, Calibrated
<1>2. cand.number \in Nat
  BY <1>1 DEF Candidates
<1>3. \A m \in Models : Promoted(m) =>
        Runtime(cand.number, JudgedContent(m), cand.calibrated[m]) \in RuntimeType
  BY <1>1, <1>2 DEF Runtime, RuntimeType
<1> QED
  BY <1>1, <1>3 DEF Activated, Models

LEMMA ActiveSteps ==
  ASSUME TypeInv, Next
  PROVE  ActiveInv'
<1>1. ActiveInv /\ RegistryInv
  BY DEF TypeInv
<1>2. CASE StartRun
  <2>1. PICK found \in SUBSET Roles : /\ \A role \in found : alias[role] # 0
                                      /\ active' = InitialRuntimes(found)
    BY <1>2 DEF StartRun
  <2> QED
    BY <1>1, <2>1, InitialTypes DEF ActiveInv
<1>3. CASE UNCHANGED active
  BY <1>1, <1>3 DEF ActiveInv
<1>4. CASE CloseCycle
  <2>1. pc = "closing" /\ active' = [role \in Roles |-> Activated(role)]
    BY <1>4 DEF CloseCycle
  <2> QED
    BY <2>1, ActivatedTypes DEF ActiveInv
<1>5. CASE ProcessEnds
  BY <1>5, StableIsARuntime DEF ProcessEnds, ActiveInv
<1>6. CASE Replay
  BY <1>3, <1>6, LoopSteps
<1>7. CASE Cycle
  BY <1>3, <1>4, <1>7
  DEF Cycle, StartCycle, TrainEpoch, LogTraining, SelectClassification, Gate, PublishCheckpoint,
      RegisterModel, RegisteringDone
<1>8. CASE Finish \/ UploadTrained \/ Abort
  BY <1>3, <1>5, <1>8 DEF Finish, UploadTrained, Abort
<1> QED
  BY <1>2, <1>6, <1>7, <1>8 DEF Next

(* What a cycle logs are contracts. *)
LEMMA EvidenceTypes ==
  ASSUME TypeInv, pc = "registering", NEW logged \in EvidenceOutcomes
  PROVE  /\ logged \subseteq Contracts /\ contracts \subseteq logged
         /\ logged \subseteq contracts \cup CycleContracts
<1>1. /\ cand \in Candidates /\ cand.number # 0 /\ run.number \in 1 .. MaxRuns
      /\ contracts \subseteq Contracts /\ args.dual \in BOOLEAN
      /\ \A m \in Models : IsJudged(m) => JudgedContent(m) \in Checkpoints
                                          /\ cand.calibrated[m] = JudgedContent(m)
  BY OptionsAssumption, RunnerAssumption
  DEF TypeInv, CandInv, ControlInv, RunInv, RunStates, RegistryInv, Selected, Calibrated, Idle
<1>2. /\ cand.number \in Nat \ {0}
      /\ \A m \in Models : IsJudged(m) => cand.calibrated[m] \in Checkpoints
  BY <1>1 DEF Candidates
<1>3. CycleContracts \subseteq Contracts
  BY <1>1, <1>2, RolesAre DEF CycleContracts, Contracts, IsJudged
<1>4. logged \subseteq contracts \cup CycleContracts /\ contracts \subseteq logged
  BY DEF EvidenceOutcomes
<1> QED
  BY <1>1, <1>3, <1>4

(* The alias is only set to a version that was created, and of a model that was logged. *)
LEMMA RegisterOutcome ==
  ASSUME NEW m, NEW o \in RegisterOutcomes(m)
  PROVE  /\ o.aliased => o.version
         /\ o.version => LoggedModels(cand.dir)[m] # None
<1> DEFINE failed == [raises |-> TRUE, version |-> FALSE, aliased |-> FALSE]
           done == [raises |-> FALSE, version |-> TRUE, aliased |-> TRUE]
           unaliased == [raises |-> FALSE, version |-> TRUE, aliased |-> FALSE]
           raised == [raises : {TRUE}, version : BOOLEAN, aliased : {FALSE}]
<1>1. RegisterOutcomes(m) =
        IF LoggedModels(cand.dir)[m] = None THEN {failed}
        ELSE {done} \cup (IF "alias" \in Faults THEN {unaliased} ELSE {})
                    \cup (IF "mlflow" \in Faults THEN raised ELSE {})
  BY Zenon DEF RegisterOutcomes
<1>2. /\ ~failed.version /\ ~failed.aliased /\ done.version /\ done.aliased
      /\ unaliased.version /\ ~unaliased.aliased
      /\ \A x \in raised : x.aliased = FALSE
  OBVIOUS
<1> HIDE DEF failed, done, unaliased, raised
<1> QED
  BY <1>1, <1>2

LEMMA RegistrySteps ==
  ASSUME TypeInv, Next
  PROVE  RegistryInv'
<1>1. RegistryInv /\ cand \in Candidates
  BY DEF TypeInv, CandInv
<1>2. CASE UNCHANGED <<registry, alias, contracts>>
  BY <1>1, <1>2 DEF RegistryInv
<1>3. CASE RegisteringDone
  <2>1. /\ pc = "registering" /\ contracts' \in EvidenceOutcomes
        /\ UNCHANGED <<registry, alias>>
    BY <1>3 DEF RegisteringDone
  <2>2. contracts' \subseteq Contracts
    BY <2>1, EvidenceTypes
  <2> QED
    BY <1>1, <2>1, <2>2 DEF RegistryInv
<1>4. CASE RegisterModel
  <2> DEFINE m == NextPromoted(cand.tried)
             version == NewVersion(m)
             more == Append(registry[m], version)
             last == Len(registry[m]) + 1
  <2>1. PICK o \in RegisterOutcomes(m) :
          /\ registry' = IF o.version THEN [registry EXCEPT ![m] = more] ELSE registry
          /\ alias' = IF o.aliased THEN [alias EXCEPT ![m] = last] ELSE alias
          /\ contracts' \in EvidenceOutcomes \/ UNCHANGED contracts
    BY <1>4 DEF RegisterModel
  <2>2. pc = "registering" /\ m # None
    BY <1>4 DEF RegisterModel
  <2>3. m \in Models /\ Promoted(m)
    BY <2>2, NextIsPromoted
  <2>4. contracts' \subseteq Contracts
    BY <1>1, <2>1, <2>2, EvidenceTypes DEF RegistryInv
  <2>5. /\ o.aliased => o.version
        /\ o.version => LoggedModels(cand.dir)[m] # None
    BY <2>1, RegisterOutcome
  <2>6. ASSUME o.version
        PROVE  version \in Versions
    <3>1. /\ Filled(cand.dir) /\ cand.number \in Nat \ {0} /\ run.number \in 1 .. MaxRuns
          /\ JudgedContent(m) \in Checkpoints /\ cand.dir \in Dirs
      BY <2>2, <2>3, RunnerAssumption
      DEF TypeInv, CandInv, ControlInv, RunInv, RunStates, Selected, Judged, Calibrated, Idle, Candidates
    <3>2. LoggedModels(cand.dir)[m] \in Optional
      BY <2>3, <3>1, RolesAre, FilesAreCheckpoints DEF LoggedModels
    <3>3. LoggedModels(cand.dir)[m] \in Checkpoints
      BY <2>5, <2>6, <3>2 DEF Optional
    <3> QED
      BY <3>1, <3>3 DEF NewVersion, Versions
  <2> HIDE DEF m, version
  <2>7. registry[m] \in Seq(Versions) /\ alias[m] \in Nat /\ alias[m] <= Len(registry[m])
    BY <1>1, <2>3 DEF RegistryInv
  <2>8. Len(registry[m]) \in Nat
    BY <2>7, LenProperties
  <2>9. o.version => more \in Seq(Versions) /\ Len(more) = last
    BY <2>6, <2>7, AppendProperties
  <2> HIDE DEF more
  <2>10. registry' \in [Models -> Seq(Versions)]
    BY <1>1, <2>1, <2>3, <2>9 DEF RegistryInv
  <2>11. alias' \in [Models -> Nat]
    BY <1>1, <2>1, <2>3, <2>8 DEF RegistryInv
  <2>12. ASSUME NEW k \in Models
         PROVE  alias'[k] <= Len(registry'[k])
    <3>1. CASE k # m
      BY <1>1, <2>1, <3>1 DEF RegistryInv
    <3>2. CASE k = m
      <4>1. registry'[m] = IF o.version THEN more ELSE registry[m]
        BY <1>1, <2>1, <2>3 DEF RegistryInv
      <4>2. alias'[m] = IF o.aliased THEN last ELSE alias[m]
        BY <1>1, <2>1, <2>3 DEF RegistryInv
      <4> QED
        BY <2>5, <2>7, <2>8, <2>9, <3>2, <4>1, <4>2
    <3> QED
      BY <3>1, <3>2
  <2> QED
    BY <2>4, <2>10, <2>11, <2>12 DEF RegistryInv
<1>5. CASE Replay
  BY <1>2, <1>5, LoopSteps
<1>6. CASE Cycle
  BY <1>2, <1>3, <1>4, <1>6
  DEF Cycle, StartCycle, TrainEpoch, LogTraining, SelectClassification, Gate, PublishCheckpoint, CloseCycle
<1>7. CASE StartRun \/ Finish \/ UploadTrained \/ Abort
  BY <1>2, <1>7 DEF StartRun, Finish, UploadTrained, Abort
<1> QED
  BY <1>5, <1>6, <1>7 DEF Next

LEMMA StoreSteps ==
  ASSUME TypeInv, Next
  PROVE  (bucket \subseteq Uploads)' /\ Truthful(cache)'
<1>1. bucket \subseteq Uploads /\ Truthful(cache) /\ run.number \in 0 .. MaxRuns
  BY DEF TypeInv, RunInv, RunStates
<1>2. bucket' \subseteq Uploads
  <2>1. CASE UNCHANGED bucket
    BY <1>1, <2>1
  <2>2. CASE PublishCheckpoint /\ ~UNCHANGED bucket
    <3>1. /\ pc = "publishing" /\ PromotedToUpload # None
          /\ bucket' = bucket \cup {[run |-> run.number, cycle |-> cand.number,
                                     model |-> PromotedToUpload,
                                     content |-> JudgedContent(PromotedToUpload)]}
      BY <2>2 DEF PublishCheckpoint
    <3>2. PromotedToUpload \in Models /\ Promoted(PromotedToUpload)
      BY <3>1, NextIsPromoted DEF PromotedToUpload
    <3>3. cand.number \in Nat /\ JudgedContent(PromotedToUpload) \in Checkpoints
      BY <3>1, <3>2 DEF TypeInv, CandInv, Candidates, Judged, Calibrated
    <3> QED
      BY <1>1, <3>1, <3>2, <3>3 DEF Uploads
  <2>3. CASE UploadTrained
    <3>1. Filled(cand.dir) /\ cand.dir \in Dirs /\ cand.dir.epochs # <<>>
      BY <2>3 DEF UploadTrained, TypeInv, CandInv, Candidates
    <3>2. CheckpointFile(cand.dir) \in Checkpoints /\ 0 \in 0 .. MaxRuns
      BY <3>1, FilesAreCheckpoints, RunnerAssumption
    <3> QED
      BY <1>1, <2>3, <3>2 DEF UploadTrained, Uploads
  <2>4. CASE Cycle
    BY <2>1, <2>2, <2>4
    DEF Cycle, StartCycle, TrainEpoch, LogTraining, SelectClassification, Gate, RegisterModel,
        RegisteringDone, CloseCycle
  <2>5. CASE Replay \/ StartRun \/ Finish \/ Abort
    BY <2>1, <2>5, LoopSteps DEF StartRun, Finish, Abort
  <2> QED
    BY <2>3, <2>4, <2>5 DEF Next
<1>3. Truthful(cache')
  <2>1. CASE cache' \subseteq cache
    BY <1>1, <2>1 DEF Truthful
  <2>2. CASE SelectClassification
    BY <1>1, <2>1, <2>2, SelectionAnswers DEF SelectClassification
  <2>3. CASE Gate
    BY <2>3, GateSteps
  <2>4. CASE Cycle
    BY <2>1, <2>2, <2>3, <2>4
    DEF Cycle, StartCycle, TrainEpoch, LogTraining, PublishCheckpoint, RegisterModel,
        RegisteringDone, CloseCycle
  <2>5. CASE Replay \/ StartRun \/ Finish \/ UploadTrained \/ Abort
    BY <2>1, <2>5, LoopSteps DEF StartRun, Finish, UploadTrained, Abort
  <2> QED
    BY <2>4, <2>5 DEF Next
<1> QED
  BY <1>2, <1>3 DEF Truthful

(* The invariant holds of the initial states. *)
LEMMA TypeInit ==
  ASSUME Init
  PROVE  TypeInv
<1>1. args \in Options
  BY OptionsAssumption DEF Init
<1>2. pc = "idle" /\ run = [NoRun EXCEPT !.number = 0] /\ run = NoRun
  BY DEF Init, NoRun
<1>3. /\ run \in RunStates /\ run.next = 1 /\ run.lot = {} /\ run.lots = <<>>
  BY <1>2, FreshRun, RunnerAssumption
<1>4. ControlInv
  BY <1>1, <1>2 DEF ControlInv, Idle, Selected
<1>5. RunInv
  BY <1>1, <1>3, RowsAre DEF RunInv
<1>6. CandInv
  BY <1>2, NoCycleType DEF Init, CandInv, Selected, Judged
<1>7. ActiveInv
  BY StableIsARuntime DEF Init, ActiveInv
<1>8. RegistryInv
  <2>1. <<>> \in Seq(Versions) /\ Len(<<>>) = 0
    BY EmptySeq
  <2> QED
    BY <2>1 DEF Init, RegistryInv
<1>9. bucket \subseteq Uploads /\ Truthful(cache)
  BY DEF Init, Truthful
<1> QED
  BY <1>4, <1>5, <1>6, <1>7, <1>8, <1>9 DEF TypeInv

LEMMA TypeSteps ==
  ASSUME TypeInv, [Next]_vars
  PROVE  TypeInv'
<1>1. CASE Next
  BY <1>1, ControlSteps, RunSteps, CandSteps, ActiveSteps, RegistrySteps, StoreSteps DEF TypeInv
<1>2. CASE UNCHANGED vars
  <2>1. /\ UNCHANGED <<args, pc, run, active, cand>>
        /\ UNCHANGED <<registry, alias, contracts, bucket, cache>>
    BY <1>2 DEF vars
  <2>2. ControlInv' /\ RunInv'
    BY <2>1 DEF TypeInv, ControlInv, RunInv, Progressive, Idle, Rows
  <2>3. \A m \in Models : /\ IsJudged(m)' = IsJudged(m) /\ Promoted(m)' = Promoted(m)
                          /\ Calibrated(m)' = Calibrated(m)
    BY <2>1 DEF IsJudged, Promoted, Calibrated, JudgedContent
  <2>4. CandInv'
    BY <2>1, <2>3 DEF TypeInv, CandInv, Filled
  <2>5. ActiveInv' /\ RegistryInv' /\ (bucket \subseteq Uploads)' /\ Truthful(cache)'
    BY <2>1 DEF TypeInv, ActiveInv, RegistryInv, Truthful
  <2> QED
    BY <2>2, <2>4, <2>5 DEF TypeInv
<1> QED
  BY <1>1, <1>2

LEMMA TypeAlways == Spec => []TypeInv
BY TypeInit, TypeSteps, PTL DEF Spec

(* The types of the variables, whatever fails: a run that ends at any step leaves the next one *)
(* what it needs, and no version or upload is without a checkpoint.                            *)
THEOREM TypesAreCorrect == Spec => []TypeOK
<1>1. ASSUME TypeInv
      PROVE  TypeOK
  <2>1. /\ ControlInv /\ RunInv /\ CandInv /\ ActiveInv /\ RegistryInv
        /\ bucket \subseteq Uploads /\ Truthful(cache)
        /\ run \in RunStates /\ cand \in Candidates /\ args \in Options
    BY <1>1 DEF TypeInv, ControlInv, RunInv, CandInv
  <2>2. /\ Len(Rows) \in Nat /\ DOMAIN Rows = 1 .. Len(Rows)
    BY <2>1, RowsAre
  <2>3. /\ run.number \in 0 .. MaxRuns /\ run.next \in 1 .. Len(Rows) + 1
        /\ run.total \in Nat /\ run.last \in Nat
        /\ run.triggered \in BOOLEAN /\ run.last_lot \in BOOLEAN
    BY <2>1, <2>2 DEF RunInv, RunStates
  <2>4. 1 .. run.next - 1 \subseteq DOMAIN Rows
    BY <2>2, <2>3
  <2>5. run.lot \subseteq DOMAIN Rows /\ run.lots \in Seq(SUBSET DOMAIN Rows)
    <3>1. run.lots \in Seq(SUBSET Nat) /\ DOMAIN run.lots = 1 .. Len(run.lots) /\ Len(run.lots) \in Nat
      BY <2>1, LenProperties DEF RunStates
    <3>2. run.lots \in [1 .. Len(run.lots) -> SUBSET DOMAIN Rows]
      BY <2>1, <2>4, <3>1, LenProperties DEF RunInv
    <3> QED
      BY <2>1, <2>4, <3>1, <3>2 DEF RunInv
  <2>6. /\ cand.number \in Nat /\ cand.dir.epochs \in Seq(Checkpoints)
        /\ {cand.localization, cand.classification} \subseteq Checkpoints \cup {None}
        /\ cand.dir \in Dirs
    BY <2>1 DEF Candidates, Dirs, Optional
  <2>7. cand.dir.best \in [DOMAIN cand.dir.best -> DOMAIN cand.dir.epochs]
    BY <2>6 DEF Dirs
  <2>8. \A m \in Models : /\ alias[m] \in 0 .. Len(registry[m])
                          /\ \A v \in ToSet(registry[m]) : {v.content, v.judged} \subseteq Checkpoints
    <3>1. ASSUME NEW m \in Models
          PROVE  /\ alias[m] \in 0 .. Len(registry[m])
                 /\ \A v \in ToSet(registry[m]) : {v.content, v.judged} \subseteq Checkpoints
      <4>1. registry[m] \in Seq(Versions) /\ alias[m] \in Nat /\ alias[m] <= Len(registry[m])
        BY <2>1 DEF RegistryInv
      <4>2. Len(registry[m]) \in Nat /\ \A n \in DOMAIN registry[m] : registry[m][n] \in Versions
        BY <4>1, LenProperties, ElementOfSeq
      <4> QED
        BY <4>1, <4>2 DEF ToSet, Versions
    <3> QED
      BY <3>1
  <2>9. \A e \in bucket \cup cache : DOMAIN e \in {{"run", "cycle", "model", "content"},
                                                   {"key", "measured", "path"}}
    BY <2>1 DEF Truthful, Uploads, CacheEntries
  <2> QED
    BY <2>1, <2>3, <2>5, <2>6, <2>7, <2>8, <2>9 DEF TypeOK, ControlInv, ActiveInv, RegistryInv, Contracts
<1> QED
  BY <1>1, TypeAlways, PTL

-----------------------------------------------------------------------------
(* The gate judges the files *)

(* The steps of a cycle that judge nothing and change nothing of what was judged. *)
LEMMA AfterTheGate ==
  ASSUME TypeInv, PublishCheckpoint \/ RegisterModel \/ RegisteringDone
  PROVE  /\ args' = args /\ active' = active /\ run' = run
         /\ pc \in {"publishing", "registering"}
         /\ pc' \in {"publishing", "registering", "closing", "failed"}
         /\ cand'.number = cand.number /\ cand'.dir = cand.dir /\ cand'.manifest = cand.manifest
         /\ cand'.localization = cand.localization /\ cand'.classification = cand.classification
         /\ cand'.status = cand.status /\ cand'.calibrated = cand.calibrated
         /\ \A m \in Models : /\ JudgedContent(m)' = JudgedContent(m)
                              /\ IsJudged(m)' = IsJudged(m) /\ Promoted(m)' = Promoted(m)
<1>1. cand \in Candidates
  BY DEF TypeInv, CandInv
<1>2. /\ args' = args /\ active' = active /\ run' = run
      /\ pc \in {"publishing", "registering"}
      /\ pc' \in {"publishing", "registering", "closing", "failed"}
  BY DEF PublishCheckpoint, RegisterModel, RegisteringDone
<1>3. /\ cand'.number = cand.number /\ cand'.dir = cand.dir /\ cand'.manifest = cand.manifest
      /\ cand'.localization = cand.localization /\ cand'.classification = cand.classification
      /\ cand'.status = cand.status /\ cand'.calibrated = cand.calibrated
  <2>1. \/ UNCHANGED cand
        \/ cand' = [cand EXCEPT !.uploaded = @ \cup {PromotedToUpload}]
        \/ cand' = [cand EXCEPT !.tried = @ \cup {NextPromoted(cand.tried)}]
    BY DEF PublishCheckpoint, RegisterModel, RegisteringDone
  <2> QED
    BY <1>1, <2>1 DEF Candidates
<1> QED
  BY <1>2, <1>3 DEF JudgedContent, IsJudged, Promoted

(* The decision depends on the files and on the active runtimes. *)
LEMMA GateStays ==
  ASSUME args' = args, active' = active, cand'.number = cand.number, cand'.dir = cand.dir,
         cand'.localization = cand.localization, cand'.classification = cand.classification
  PROVE  /\ Compared' = Compared
         /\ GateStatus([r \in ToSet(Compared) |-> r.content])'
              = GateStatus([r \in ToSet(Compared) |-> r.content])
<1>1. /\ active.localization' = active.localization
      /\ active.classification' = active.classification
      /\ \A content : Candidate(content)' = Candidate(content)
  BY DEF Candidate
<1>2. Compared' = Compared
  BY <1>1 DEF Compared, Candidate
<1> DEFINE files == [r \in ToSet(Compared) |-> r.content]
<1>3. files' = files
  BY <1>2
<1>4. GateStatus(files)' = GateStatus(files)
  BY <1>3 DEF GateStatus, DualStatus, SingleGateStatus, GatePanel, Candidate
<1> QED
  BY <1>2, <1>4

(* What the gate decides, with metrics from a cache that cycles and runs share, is what the *)
(* files themselves would get: no entry of the cache is mistaken for another.               *)
THEOREM GateIsFaithful == Spec => []GateJudgesTheFiles
<1>1. Init => GateJudgesTheFiles
  BY DEF Init, GateJudgesTheFiles
<1>2. ASSUME TypeInv, GateJudgesTheFiles, [Next]_vars
      PROVE  GateJudgesTheFiles'
  <2> SUFFICES ASSUME (pc \in Judged)', (args.mode = "progressive-train")'
               PROVE  (cand.status = GateStatus([r \in ToSet(Compared) |-> r.content]))'
    BY DEF GateJudgesTheFiles, Judged
  <2>1. CASE Gate
    <3> DEFINE path == IF args.dual THEN GatePath ELSE ReferencePath
               entries == Evaluated(cache, Compared, path)
               measure == [r \in ToSet(Compared) |-> Measured(entries, r, path)]
               files == [r \in ToSet(Compared) |-> r.content]
    <3>1. /\ pc = "gate" /\ args' = args /\ active' = active
          /\ cand' = [cand EXCEPT !.status = GateStatus(measure), !.calibrated = ContractThresholds(measure)]
      BY <2>1, Zenon DEF Gate
    <3>2. measure = files
      BY <1>2, <3>1, GateMeasures
    <3> HIDE DEF measure
    <3>3. cand \in Candidates
      BY <1>2 DEF TypeInv, CandInv
    <3>4. /\ cand'.status = GateStatus(files)
          /\ cand'.number = cand.number /\ cand'.dir = cand.dir
          /\ cand'.localization = cand.localization /\ cand'.classification = cand.classification
      BY <3>1, <3>2, <3>3 DEF Candidates
    <3> QED
      BY <3>1, <3>4, GateStays
  <2>2. CASE PublishCheckpoint \/ RegisterModel \/ RegisteringDone
    <3>1. cand.status = GateStatus([r \in ToSet(Compared) |-> r.content])
      BY <1>2, <2>2, AfterTheGate DEF GateJudgesTheFiles
    <3> QED
      BY <1>2, <2>2, <3>1, AfterTheGate, GateStays
  <2>3. CASE UNCHANGED vars
    <3>1. UNCHANGED <<args, active, cand, pc>>
      BY <2>3 DEF vars
    <3>2. cand.status = GateStatus([r \in ToSet(Compared) |-> r.content])
      BY <1>2, <3>1 DEF GateJudgesTheFiles, Judged
    <3> QED
      BY <3>1, <3>2, GateStays
  <2>4. CASE StartCycle
    BY <2>4 DEF StartCycle, Judged
  <2>5. CASE TrainEpoch \/ LogTraining \/ SelectClassification
    BY <2>5 DEF TrainEpoch, LogTraining, SelectClassification, Judged
  <2>6. CASE CloseCycle
    BY <2>6, LotFollows DEF CloseCycle, Judged
  <2>7. CASE Replay
    BY <1>2, <2>7, LoopSteps DEF Judged
  <2>8. CASE StartRun \/ Finish \/ UploadTrained \/ Abort
    BY <2>8 DEF StartRun, Finish, UploadTrained, Abort, Judged
  <2> QED
    BY <1>2, <2>1, <2>2, <2>3, <2>4, <2>5, <2>6, <2>7, <2>8 DEF Next, Cycle
<1> QED
  BY <1>1, <1>2, TypeAlways, PTL DEF Spec

-----------------------------------------------------------------------------
(* What is registered was published *)

Uploaded(m) ==
  [run |-> run.number, cycle |-> cand.number, model |-> m, content |-> JudgedContent(m)]

(* Where the uploads and the versions of a cycle are: each is made once, in their order. *)
PublishInv ==
  /\ \A m \in Models : \A v \in ToSet(registry[m]) : v.run <= run.number
  /\ pc \in {"training", "selecting", "gate"} => cand.uploaded = {}
  /\ pc \in {"publishing", "registering"} => \A m \in cand.uploaded : Uploaded(m) \in bucket
  /\ pc = "registering" /\ args.publish => \A m \in Models : Promoted(m) => m \in cand.uploaded
  /\ RegisteredArePublished

(* The registry after a model was registered. *)
LEMMA ModelRegistered ==
  ASSUME TypeInv, RegisterModel
  PROVE  /\ pc = "registering" /\ NextPromoted(cand.tried) \in Models
         /\ Promoted(NextPromoted(cand.tried)) /\ NextPromoted(cand.tried) \notin cand.tried
         /\ cand'.tried = cand.tried \cup {NextPromoted(cand.tried)} /\ cand'.uploaded = cand.uploaded
         /\ registry' \in [Models -> Seq(Versions)]
         /\ \A m \in Models : /\ ToSet(registry'[m]) \subseteq ToSet(registry[m]) \cup {NewVersion(m)}
                              /\ ToSet(registry[m]) \subseteq ToSet(registry'[m])
         /\ \A m \in Models : m # NextPromoted(cand.tried) =>
              registry'[m] = registry[m] /\ alias'[m] = alias[m]
         /\ \A m \in Models : alias'[m] # alias[m] =>
              /\ alias'[m] \in 1 .. Len(registry'[m]) /\ registry'[m][alias'[m]] = NewVersion(m)
              /\ LoggedModels(cand.dir)[m] # None
         /\ \A m \in Models : alias'[m] = alias[m] /\ alias[m] # 0 =>
              registry'[m][alias'[m]] = registry[m][alias[m]]
<1> DEFINE m == NextPromoted(cand.tried)
           version == NewVersion(m)
           more == Append(registry[m], version)
           last == Len(registry[m]) + 1
<1>1. PICK o \in RegisterOutcomes(m) :
        /\ registry' = IF o.version THEN [registry EXCEPT ![m] = more] ELSE registry
        /\ alias' = IF o.aliased THEN [alias EXCEPT ![m] = last] ELSE alias
  BY DEF RegisterModel
<1>2. pc = "registering" /\ m # None /\ cand' = [cand EXCEPT !.tried = @ \cup {m}]
  BY DEF RegisterModel
<1>3. m \in Models /\ Promoted(m) /\ m \notin cand.tried
  BY <1>2, NextIsPromoted
<1>4. RegistryInv /\ RegistryInv' /\ cand \in Candidates
  BY RegistrySteps DEF TypeInv, CandInv, Next, Cycle
<1>5. /\ o.aliased => o.version
      /\ o.version => LoggedModels(cand.dir)[m] # None
  BY <1>1, RegisterOutcome
<1>6. cand'.tried = cand.tried \cup {m} /\ cand'.uploaded = cand.uploaded
  BY <1>2, <1>4 DEF Candidates
<1>7. /\ registry[m] \in Seq(Versions) /\ Len(registry[m]) \in Nat
      /\ DOMAIN registry[m] = 1 .. Len(registry[m])
      /\ alias[m] \in Nat /\ alias[m] <= Len(registry[m])
  <2>1. registry[m] \in Seq(Versions) /\ alias[m] \in Nat /\ alias[m] <= Len(registry[m])
    BY <1>3, <1>4 DEF RegistryInv
  <2> QED
    BY <2>1, LenProperties
<1> HIDE DEF m, version
<1>8. /\ DOMAIN more = 1 .. last /\ more[last] = version /\ Len(more) = last
      /\ \A n \in 1 .. Len(registry[m]) : more[n] = registry[m][n]
  BY <1>7
<1> HIDE DEF more
<1>9. /\ registry'[m] = IF o.version THEN more ELSE registry[m]
      /\ alias'[m] = IF o.aliased THEN last ELSE alias[m]
      /\ \A k \in Models : k # m => registry'[k] = registry[k] /\ alias'[k] = alias[k]
  BY <1>1, <1>3, <1>4 DEF RegistryInv
<1>10. ToSet(more) \subseteq ToSet(registry[m]) \cup {version} /\ ToSet(registry[m]) \subseteq ToSet(more)
  BY <1>7, <1>8 DEF ToSet
<1>11. \A k \in Models : /\ ToSet(registry'[k]) \subseteq ToSet(registry[k]) \cup {NewVersion(k)}
                         /\ ToSet(registry[k]) \subseteq ToSet(registry'[k])
  BY <1>9, <1>10 DEF version
<1>12. alias'[m] # alias[m] =>
         /\ alias'[m] \in 1 .. Len(registry'[m]) /\ registry'[m][alias'[m]] = version
         /\ LoggedModels(cand.dir)[m] # None
  BY <1>5, <1>7, <1>8, <1>9
<1>13. alias'[m] = alias[m] /\ alias[m] # 0 => registry'[m][alias'[m]] = registry[m][alias[m]]
  BY <1>7, <1>8, <1>9
<1> QED
  BY <1>2, <1>3, <1>4, <1>6, <1>9, <1>11, <1>12, <1>13 DEF RegistryInv, m, version

LEMMA PublishSteps ==
  ASSUME TypeInv, PublishInv, [Next]_vars
  PROVE  PublishInv'
<1>1. /\ cand \in Candidates /\ run.number \in Nat
      /\ \A m \in Models : \A v \in ToSet(registry[m]) : v.run <= run.number
      /\ \A m \in Models : \A v \in ToSet(registry[m]) : v.run \in Nat
  <2>1. cand \in Candidates /\ run.number \in Nat /\ registry \in [Models -> Seq(Versions)]
    BY RunnerAssumption DEF TypeInv, CandInv, RunInv, RunStates, RegistryInv
  <2>2. \A m \in Models : \A v \in ToSet(registry[m]) : v \in Versions
    BY <2>1, ElementOfSeq, LenProperties DEF ToSet
  <2> QED
    BY <2>1, <2>2, RunnerAssumption DEF PublishInv, Versions
<1>2. CASE /\ UNCHANGED <<args, registry>> /\ run'.number = run.number
           /\ \A m \in Models, e \in bucket : e.model = m => e \in bucket'
           /\ pc' \notin {"training", "selecting", "gate", "publishing", "registering"}
  <2>1. ASSUME NEW m \in Models, NEW v \in ToSet(registry[m]), v.run = run.number, args.publish
        PROVE  [run |-> v.run, cycle |-> v.cycle, model |-> m, content |-> v.judged] \in bucket'
    <3> DEFINE e == [run |-> v.run, cycle |-> v.cycle, model |-> m, content |-> v.judged]
    <3>1. e \in bucket /\ e.model = m
      BY <2>1 DEF PublishInv, RegisteredArePublished
    <3> HIDE DEF e
    <3>2. e \in bucket'
      BY <1>2, <2>1, <3>1
    <3> QED
      BY <3>2 DEF e
  <2>2. RegisteredArePublished'
    BY <1>2, <2>1 DEF RegisteredArePublished
  <2> QED
    BY <1>1, <1>2, <2>2 DEF PublishInv
<1>3. CASE UNCHANGED <<args, registry, bucket, cand, pc, run>>
  <2>1. RegisteredArePublished'
    BY <1>3 DEF PublishInv, RegisteredArePublished
  <2>2. \A m \in Models : Uploaded(m)' = Uploaded(m) /\ Promoted(m)' = Promoted(m)
    BY <1>3 DEF Uploaded, Promoted, JudgedContent
  <2>3. cand.uploaded \subseteq Models
    BY <1>1 DEF Candidates
  <2> QED
    BY <1>3, <2>1, <2>2, <2>3 DEF PublishInv
<1>4. CASE StartRun
  <2>1. /\ registry' = registry /\ run'.number = run.number + 1 /\ pc' \in {"failed", "replaying"}
    BY <1>4 DEF StartRun, NoRun
  <2>2. \A m \in Models : \A v \in ToSet(registry[m]) : v.run <= run'.number /\ v.run # run'.number
    BY <1>1, <2>1
  <2> QED
    BY <2>1, <2>2 DEF PublishInv, RegisteredArePublished
<1>5. CASE StartCycle \/ TrainEpoch \/ LogTraining \/ SelectClassification
  <2>1. UNCHANGED <<args, registry, bucket, run>>
    BY <1>5 DEF StartCycle, TrainEpoch, LogTraining, SelectClassification
  <2>2. pc' \notin {"publishing", "registering"}
    BY <1>5 DEF StartCycle, TrainEpoch, LogTraining, SelectClassification
  <2>3. cand'.uploaded = {}
    <3>1. CASE StartCycle
      BY <3>1, NoCycleType DEF StartCycle, NoCycle
    <3>2. CASE TrainEpoch
      BY <1>1, <3>2 DEF TrainEpoch, PublishInv, Candidates
    <3>3. CASE LogTraining
      BY <1>1, <3>3 DEF LogTraining, PublishInv, Candidates
    <3>4. CASE SelectClassification
      <4>1. cand.uploaded = {}
        BY <3>4 DEF SelectClassification, PublishInv
      <4>2. cand' = cand \/ cand' = [cand EXCEPT !.classification = cand'.classification]
        BY <3>4, SelectionAnswers DEF SelectClassification
      <4> QED
        BY <1>1, <4>1, <4>2 DEF Candidates
    <3> QED
      BY <1>5, <3>1, <3>2, <3>3, <3>4
  <2> QED
    BY <2>1, <2>2, <2>3 DEF PublishInv, RegisteredArePublished
<1>6. CASE Gate
  <2>1. /\ UNCHANGED <<args, registry, bucket, run>> /\ pc = "gate"
        /\ pc' = IF args.publish THEN "publishing" ELSE "registering"
    BY <1>6 DEF Gate
  <2>2. cand'.uploaded = {}
    BY <1>1, <1>6, <2>1 DEF Gate, PublishInv, Candidates
  <2> QED
    BY <2>1, <2>2 DEF PublishInv, RegisteredArePublished
<1>7. CASE PublishCheckpoint
  <2>1. /\ UNCHANGED <<args, registry, run>> /\ pc = "publishing"
        /\ cand'.number = cand.number
        /\ \A m \in Models : JudgedContent(m)' = JudgedContent(m) /\ Promoted(m)' = Promoted(m)
        /\ cand.uploaded \subseteq Models
    BY <1>1, <1>7, AfterTheGate DEF PublishCheckpoint, Candidates
  <2>2. \A m \in Models : Uploaded(m)' = Uploaded(m)
    BY <2>1 DEF Uploaded
  <2>3. CASE PromotedToUpload = None
    <3>1. pc' = "registering" /\ UNCHANGED <<bucket, cand>>
      BY <1>7, <2>3 DEF PublishCheckpoint
    <3>2. \A m \in Models : Promoted(m) => m \in cand.uploaded
      BY <2>3, NextIsPromoted DEF PromotedToUpload
    <3> QED
      BY <2>1, <2>2, <3>1, <3>2 DEF PublishInv, RegisteredArePublished
  <2>4. CASE PromotedToUpload # None
    <3>1. /\ bucket' = bucket \cup {Uploaded(PromotedToUpload)} /\ pc' = "publishing"
          /\ cand' = [cand EXCEPT !.uploaded = @ \cup {PromotedToUpload}]
      BY <1>7, <2>1, <2>4 DEF PublishCheckpoint, Uploaded
    <3>2. PromotedToUpload \in Models
      BY <2>4, NextIsPromoted DEF PromotedToUpload
    <3>3. cand'.uploaded = cand.uploaded \cup {PromotedToUpload}
      BY <1>1, <3>1 DEF Candidates
    <3>4. \A m \in cand'.uploaded : Uploaded(m)' \in bucket'
      BY <2>1, <2>2, <3>1, <3>2, <3>3 DEF PublishInv
    <3> QED
      BY <2>1, <3>1, <3>4 DEF PublishInv, RegisteredArePublished
  <2> QED
    BY <2>3, <2>4
<1>8. CASE RegisterModel
  <2> DEFINE n == NextPromoted(cand.tried)
  <2>1. /\ UNCHANGED <<args, bucket, run>> /\ pc = "registering" /\ pc' \in {"registering", "failed"}
        /\ cand'.uploaded = cand.uploaded /\ cand'.number = cand.number
        /\ \A m \in Models : JudgedContent(m)' = JudgedContent(m) /\ Promoted(m)' = Promoted(m)
        /\ cand.uploaded \subseteq Models
    BY <1>1, <1>8, AfterTheGate, ModelRegistered DEF RegisterModel, Candidates
  <2>2. /\ n \in Models /\ Promoted(n)
        /\ \A m \in Models : ToSet(registry'[m]) \subseteq ToSet(registry[m]) \cup {NewVersion(m)}
        /\ \A m \in Models : m # n => registry'[m] = registry[m]
    BY <1>8, ModelRegistered
  <2> HIDE DEF n
  <2>3. \A m \in Models : Uploaded(m)' = Uploaded(m)
    BY <2>1 DEF Uploaded
  <2>4. args.publish => Uploaded(n) \in bucket
    BY <2>1, <2>2 DEF PublishInv
  <2>5. /\ NewVersion(n).run = run.number /\ NewVersion(n).cycle = cand.number
        /\ NewVersion(n).judged = JudgedContent(n)
    BY DEF NewVersion
  <2>6. RegisteredArePublished'
    <3>1. ASSUME NEW m \in Models, NEW v \in ToSet(registry'[m]), v.run = run.number, args.publish
          PROVE  [run |-> v.run, cycle |-> v.cycle, model |-> m, content |-> v.judged] \in bucket
      <4>1. CASE v \in ToSet(registry[m])
        BY <3>1, <4>1 DEF PublishInv, RegisteredArePublished
      <4>2. CASE v \notin ToSet(registry[m])
        <5>1. m = n /\ v = NewVersion(n)
          BY <2>2, <3>1, <4>2
        <5> QED
          BY <2>4, <2>5, <3>1, <5>1 DEF Uploaded
      <4> QED
        BY <4>1, <4>2
    <3> QED
      BY <2>1, <3>1 DEF RegisteredArePublished
  <2>7. \A m \in Models : \A v \in ToSet(registry'[m]) : v.run <= run'.number
    <3>1. ASSUME NEW m \in Models, NEW v \in ToSet(registry'[m])
          PROVE  v.run <= run'.number
      <4>1. v \in ToSet(registry[m]) \/ v.run = run.number
        BY <2>2, <2>5, <3>1
      <4> QED
        BY <1>1, <2>1, <4>1
    <3> QED
      BY <3>1
  <2> QED
    BY <2>1, <2>3, <2>6, <2>7 DEF PublishInv
<1>9. CASE RegisteringDone \/ CloseCycle
  <2>1. run \in RunStates
    BY DEF TypeInv, RunInv
  <2>2. /\ UNCHANGED <<args, registry, bucket>>
        /\ pc' \notin {"training", "selecting", "gate", "publishing", "registering"}
    BY <1>9, LotFollows DEF RegisteringDone, CloseCycle
  <2>3. run'.number = run.number
    BY <1>9, <2>1 DEF RegisteringDone, CloseCycle, RunStates
  <2> QED
    BY <1>2, <2>2, <2>3
<1>10. CASE Replay
  BY <1>2, <1>10, LoopSteps
<1>11. CASE Finish
  <2>1. /\ UNCHANGED <<args, registry, bucket>> /\ run'.number = run.number /\ pc = "finishing"
        /\ pc' \in {"training", "completed"}
        /\ cand' = NoCycle
    BY <1>11, ProcessEnded DEF Finish, TypeInv, RunInv, CandInv
  <2>2. cand'.uploaded = {}
    BY <2>1 DEF NoCycle
  <2> QED
    BY <1>1, <2>1, <2>2 DEF PublishInv, RegisteredArePublished
<1>12. CASE UploadTrained \/ Abort
  <2>1. "trained" \notin Models
    BY RolesAre
  <2>2. /\ UNCHANGED <<args, registry>> /\ run'.number = run.number
        /\ pc' \in {"completed", "failed"}
        /\ \A e \in bucket : e.model # "trained" => e \in bucket'
    BY <1>12, ProcessEnded DEF UploadTrained, Abort, TypeInv, RunInv
  <2> QED
    BY <1>2, <2>1, <2>2
<1> QED
  BY <1>3, <1>4, <1>5, <1>6, <1>7, <1>8, <1>9, <1>10, <1>11, <1>12 DEF Next, Cycle, vars

(* A registered version was uploaded first, whatever call failed and wherever the run ended. *)
THEOREM RegisteredWerePublished == Spec => []RegisteredArePublished
<1>1. Init => PublishInv
  <2>1. ASSUME Init
        PROVE  \A m \in Models : ToSet(registry[m]) = {}
    BY <2>1 DEF Init, ToSet
  <2> QED
    BY <2>1 DEF Init, PublishInv, RegisteredArePublished
<1>2. PublishInv => RegisteredArePublished
  BY DEF PublishInv
<1> QED
  BY <1>1, <1>2, TypeAlways, PublishSteps, PTL DEF Spec

-----------------------------------------------------------------------------
(* What is counted *)

(* The runs the theorems on counts are about: with --max-lots the last lot is counted twice. *)
NoMaxLots == \A a \in Options : a.max_lots = None

CycleSteps == {"cycle", "training", "selecting"} \cup Selected \cup {"closing"}

Seen == 1 .. run.next - 1

Done == UNION ToSet(run.lots)

(* The current lot was not finalized yet: it is what was replayed since. *)
LotIsOpen == Done \cup run.lot = Seen /\ Done \cap run.lot = {}

PiecesInv ==
  /\ \A i, j \in DOMAIN run.lots : i # j => run.lots[i] \cap run.lots[j] = {}
  /\ run.total = Cardinality(Conforming(Done))
  /\ pc \in {"replaying", "last_lot"} => LotIsOpen
  /\ pc = "left" => LotIsOpen \/ ~ShouldFinalizeLastLot
  /\ pc \in CycleSteps /\ Progressive => Done = Seen /\ run.triggered
  /\ pc = "training" /\ Progressive =>
       /\ SeenGood \subseteq cand.manifest
       /\ cand.manifest \ SeenGood \subseteq {Anchors[n].image : n \in CappedAnchors}

LEMMA MoreLots ==
  ASSUME NEW lots \in Seq(SUBSET Nat), NEW lot \in SUBSET Nat
  PROVE  /\ DOMAIN Append(lots, lot) = 1 .. Len(lots) + 1 /\ Len(lots) \in Nat
         /\ DOMAIN lots = 1 .. Len(lots)
         /\ \A i \in DOMAIN lots : Append(lots, lot)[i] = lots[i]
         /\ Append(lots, lot)[Len(lots) + 1] = lot
         /\ UNION ToSet(Append(lots, lot)) = (UNION ToSet(lots)) \cup lot
<1> DEFINE more == Append(lots, lot)
<1>1. /\ DOMAIN lots = 1 .. Len(lots) /\ Len(lots) \in Nat
      /\ DOMAIN more = 1 .. Len(lots) + 1
      /\ \A i \in DOMAIN lots : more[i] = lots[i]
      /\ more[Len(lots) + 1] = lot
  BY LenProperties
<1> HIDE DEF more
<1>2. UNION ToSet(more) = (UNION ToSet(lots)) \cup lot
  <2>1. ASSUME NEW x \in UNION ToSet(more)
        PROVE  x \in (UNION ToSet(lots)) \cup lot
    <3>1. PICK i \in DOMAIN more : x \in more[i]
      BY <2>1 DEF ToSet
    <3>2. i \in DOMAIN lots \/ i = Len(lots) + 1
      BY <1>1
    <3> QED
      BY <1>1, <3>1, <3>2 DEF ToSet
  <2>2. ASSUME NEW x \in (UNION ToSet(lots)) \cup lot
        PROVE  x \in UNION ToSet(more)
    <3>1. CASE x \in lot
      <4>1. Len(lots) + 1 \in DOMAIN more
        BY <1>1
      <4> QED
        BY <1>1, <3>1, <4>1 DEF ToSet
    <3>2. CASE x \in UNION ToSet(lots)
      <4>1. PICK i \in DOMAIN lots : x \in lots[i]
        BY <3>2 DEF ToSet
      <4>2. i \in DOMAIN more /\ x \in more[i]
        BY <1>1, <4>1
      <4> QED
        BY <4>2 DEF ToSet
    <3> QED
      BY <2>2, <3>1, <3>2
  <2> QED
    BY <2>1, <2>2
<1> QED
  BY <1>1, <1>2 DEF more

(* The count of two lots that do not overlap. *)
LEMMA CountsAdd ==
  ASSUME NEW S, NEW T, IsFiniteSet(S), IsFiniteSet(T), S \cap T = {}
  PROVE  Cardinality(Conforming(S \cup T)) = Cardinality(Conforming(S)) + Cardinality(Conforming(T))
<1> DEFINE A == Conforming(S)
           B == Conforming(T)
<1>1. /\ IsFiniteSet(A) /\ IsFiniteSet(B) /\ A \cap B = {}
      /\ Conforming(S \cup T) = A \cup B
  BY FS_Subset DEF Conforming
<1> HIDE DEF A, B
<1>2. /\ Cardinality(A \cup B) = Cardinality(A) + Cardinality(B) - Cardinality(A \cap B)
      /\ Cardinality(A) \in Nat /\ Cardinality(B) \in Nat
  BY <1>1, FS_Union, FS_CardinalityType
<1>3. Cardinality(A \cap B) = 0
  BY <1>1, FS_EmptySet
<1>4. Cardinality(A \cup B) = Cardinality(A) + Cardinality(B)
  BY <1>2, <1>3
<1> QED
  BY <1>1, <1>4 DEF A, B

(* The lots that were finalized are rows that were replayed. *)
LEMMA DoneIsSeen ==
  ASSUME RunInv
  PROVE  Done \subseteq Seen /\ run.lot \subseteq Seen /\ IsFiniteSet(Seen)
<1>1. run.next - 1 \in Int
  BY DEF RunInv, RunStates
<1> QED
  BY <1>1, FS_Interval DEF RunInv, Done, Seen, ToSet

(* Rows count alike as long as the plan is the same. *)
LEMMA SamePlan ==
  ASSUME args' = args
  PROVE  Rows' = Rows /\ \A S : Conforming(S)' = Conforming(S)
BY DEF Rows, Conforming

(* A lot is counted when it is finalized, once. *)
LEMMA LotIsCounted ==
  ASSUME NoMaxLots, TypeInv, PiecesInv, FinalizeLot \/ FinalizeLastLot
  PROVE  /\ PiecesInv'
         /\ run.total' = Cardinality(Conforming(Seen)) /\ run'.last = run.last
         /\ run'.next = run.next /\ run'.cycles = run.cycles
<1> DEFINE total == run.total + Cardinality(Conforming(run.lot))
           lots == Append(run.lots, run.lot)
           triggers == LotTriggers(total)
           where == IF triggers /\ Progressive THEN "cycle" ELSE AfterLot(triggers, lots)
           triggered == run.triggered \/ triggers
           lot == NextLot(where)
<1>1. run \in RunStates /\ RunInv /\ args \in Options
  BY DEF TypeInv, RunInv, ControlInv
<1>2. /\ run' = [run EXCEPT !.total = total, !.lots = lots, !.triggered = triggered, !.lot = lot]
      /\ pc' = where /\ args' = args /\ cand' = cand
  BY Zenon DEF FinalizeLot, FinalizeLastLot, Finalize
<1>3. LotIsOpen
  BY DEF FinalizeLot, FinalizeLastLot, PiecesInv
<1>4. total = Cardinality(Conforming(Seen))
  <2>1. IsFiniteSet(Done) /\ IsFiniteSet(run.lot)
    BY <1>1, DoneIsSeen, FS_Subset
  <2> QED
    BY <1>3, <2>1, CountsAdd DEF PiecesInv, LotIsOpen
<1>5. /\ run.lots \in Seq(SUBSET Nat) /\ run.lot \in SUBSET Nat
      /\ DOMAIN lots = 1 .. Len(run.lots) + 1 /\ Len(run.lots) \in Nat
      /\ DOMAIN run.lots = 1 .. Len(run.lots)
      /\ \A i \in DOMAIN run.lots : lots[i] = run.lots[i]
      /\ lots[Len(run.lots) + 1] = run.lot
      /\ UNION ToSet(lots) = Done \cup run.lot
  <2>1. run.lots \in Seq(SUBSET Nat) /\ run.lot \in SUBSET Nat
    BY <1>1 DEF RunStates
  <2> QED
    BY <2>1, MoreLots DEF Done
<1>6. /\ where \in {"cycle", "finishing", "left", "replaying"}
      /\ where = "cycle" => triggered
      /\ where = "replaying" => lot = {}
      /\ where = "left" => triggered /\ ~Progressive
  <2>1. ~ReachedMaxLots(lots)
    BY <1>1 DEF NoMaxLots, ReachedMaxLots
  <2> QED
    BY <2>1 DEF AfterLot, NextLot
<1> HIDE DEF total, lots, triggers, where, triggered, lot
<1>7. /\ run'.lots = lots /\ run'.total = total /\ run'.triggered = triggered /\ run'.lot = lot
      /\ run'.next = run.next /\ run'.last = run.last /\ run'.cycles = run.cycles
  BY <1>1, <1>2 DEF RunStates
<1>8. Done' = Seen /\ Seen' = Seen
  BY <1>3, <1>5, <1>7 DEF Done, Seen, LotIsOpen
<1>9. \A i, j \in DOMAIN run'.lots : i # j => run'.lots[i] \cap run'.lots[j] = {}
  <2>1. \A i \in DOMAIN run.lots : run.lots[i] \cap run.lot = {}
    BY <1>3 DEF LotIsOpen, Done, ToSet
  <2>2. ASSUME NEW i \in DOMAIN lots, NEW j \in DOMAIN lots, i # j
        PROVE  lots[i] \cap lots[j] = {}
    <3>1. /\ i \in DOMAIN run.lots \/ i = Len(run.lots) + 1
          /\ j \in DOMAIN run.lots \/ j = Len(run.lots) + 1
      BY <1>5, <2>2
    <3> QED
      BY <1>5, <2>1, <2>2, <3>1 DEF PiecesInv
  <2> QED
    BY <1>7, <2>2
<1>10. run'.total = Cardinality(Conforming(Done))'
  <2>1. Conforming(Done)' = Conforming(Seen)
    BY <1>2, <1>8 DEF Conforming, Rows
  <2> QED
    BY <1>4, <1>7, <2>1
<1>11. where = "replaying" => LotIsOpen'
  BY <1>6, <1>7, <1>8 DEF LotIsOpen
<1>12. where = "left" => ~ShouldFinalizeLastLot'
  BY <1>2, <1>6, <1>7 DEF ShouldFinalizeLastLot, Progressive
<1> QED
  BY <1>2, <1>4, <1>6, <1>7, <1>8, <1>9, <1>10, <1>11, <1>12 DEF PiecesInv, CycleSteps, Selected

LEMMA PiecesSteps ==
  ASSUME NoMaxLots, TypeInv, PiecesInv, [Next]_vars
  PROVE  PiecesInv'
<1>1. /\ run \in RunStates /\ RunInv /\ args \in Options /\ ControlInv
      /\ cand \in Candidates
  BY DEF TypeInv, RunInv, ControlInv, CandInv
<1>2. CASE UNCHANGED vars
  <2>1. UNCHANGED <<args, pc, run, cand>>
    BY <1>2 DEF vars
  <2> QED
    BY <2>1 DEF PiecesInv, LotIsOpen, Done, Seen, ShouldFinalizeLastLot, Progressive, Conforming, Rows,
                SeenGood, CappedAnchors, ReachedMaxCycles
<1>3. ASSUME run'.next = 1, run'.lot = {}, run'.lots = <<>>, run'.total = 0,
             pc' \in {"failed", "completed", "replaying"}
      PROVE  PiecesInv'
  <2>1. ToSet(run.lots)' = {} /\ DOMAIN run'.lots = {}
    BY <1>3 DEF ToSet
  <2>2. Done' = {} /\ Seen' = {}
    BY <1>3, <2>1 DEF Done, Seen
  <2>3. Conforming(Done)' = {} /\ Cardinality({}) = 0
    BY <2>2, FS_EmptySet DEF Conforming
  <2>4. LotIsOpen'
    BY <1>3, <2>2 DEF LotIsOpen
  <2> QED
    BY <1>3, <2>1, <2>3, <2>4 DEF PiecesInv, CycleSteps, Selected
<1>4. CASE StartRun
  <2>1. /\ run' = [NoRun EXCEPT !.number = run.number + 1] /\ run.number < MaxRuns
        /\ pc' \in {"failed", "replaying"}
    BY <1>4 DEF StartRun
  <2>2. run.number + 1 \in 0 .. MaxRuns
    BY <1>1, <2>1, RunnerAssumption DEF RunStates
  <2> QED
    BY <1>3, <2>1, <2>2, FreshRun
<1>5. CASE ProcessEnds /\ pc' \in {"failed", "completed"}
  BY <1>1, <1>3, <1>5, ProcessEnded
<1>6. CASE ProcessEvent
  <2>1. /\ run' = [run EXCEPT !.lot = run.lot \cup {run.next}, !.next = run.next + 1]
        /\ pc = "replaying" /\ pc' = pc /\ args' = args
    BY <1>6 DEF ProcessEvent
  <2>2. /\ run'.lot = run.lot \cup {run.next} /\ run'.next = run.next + 1
        /\ run'.lots = run.lots /\ run'.total = run.total /\ run.next \in Nat \ {0}
    BY <1>1, <2>1 DEF RunStates
  <2>3. Seen' = Seen \cup {run.next} /\ run.next \notin Seen /\ Done' = Done
    BY <2>2 DEF Seen, Done
  <2>4. LotIsOpen'
    BY <1>1, <2>1, <2>2, <2>3, DoneIsSeen DEF LotIsOpen, PiecesInv
  <2>5. Conforming(Done)' = Conforming(Done)
    BY <2>1, <2>3 DEF Conforming, Rows
  <2> QED
    BY <2>1, <2>2, <2>4, <2>5 DEF PiecesInv, CycleSteps, Selected
<1>7. CASE FinalizeLot \/ FinalizeLastLot
  BY <1>7, LotIsCounted
<1>8. ASSUME run'.lots = run.lots, run'.total = run.total, run'.next = run.next, args' = args
      PROVE  /\ Done' = Done /\ Seen' = Seen /\ Progressive' = Progressive
             /\ SeenGood' = SeenGood /\ CappedAnchors' = CappedAnchors
             /\ \A i, j \in DOMAIN run'.lots : i # j => run'.lots[i] \cap run'.lots[j] = {}
             /\ run'.total = Cardinality(Conforming(Done))'
             /\ run'.lot = run.lot => LotIsOpen' = LotIsOpen
  BY <1>8 DEF Done, Seen, Progressive, SeenGood, CappedAnchors, Conforming, Rows, PiecesInv, LotIsOpen
<1>9. CASE LeaveLoop \/ AfterLoop
  <2>1. /\ run'.lots = run.lots /\ run'.total = run.total /\ run'.next = run.next /\ args' = args
        /\ run'.lot = run.lot
    BY <1>1, <1>9 DEF LeaveLoop, AfterLoop, RunStates
  <2>2. \/ pc = "replaying" /\ pc' = "left"
        \/ pc = "left" /\ pc' = IF ShouldFinalizeLastLot THEN "last_lot" ELSE "finishing"
    BY <1>9 DEF LeaveLoop, AfterLoop
  <2> QED
    BY <1>8, <2>1, <2>2 DEF PiecesInv, CycleSteps, Selected
<1>10. CASE CloseCycle
  <2> DEFINE cycles == Append(run.cycles, JournalEntry)
             where == AfterLot(ReachedMaxCycles(cycles), run.lots)
             lot == NextLot(where)
  <2>1. /\ run' = [run EXCEPT !.last = Watermark, !.cycles = cycles, !.lot = lot]
        /\ pc = "closing" /\ pc' = where /\ args' = args
    BY <1>10, Zenon DEF CloseCycle
  <2>2. /\ where \in {"finishing", "left", "replaying"}
        /\ where = "left" => ReachedMaxCycles(cycles)
        /\ where = "replaying" => lot = {}
    <3>1. ~ReachedMaxLots(run.lots)
      BY <1>1 DEF NoMaxLots, ReachedMaxLots
    <3> QED
      BY <3>1 DEF AfterLot, NextLot
  <2>3. Done = Seen /\ run.triggered /\ Progressive
    BY <1>1, <2>1 DEF PiecesInv, CycleSteps, ControlInv
  <2> HIDE DEF cycles, where, lot
  <2>4. /\ run'.lots = run.lots /\ run'.total = run.total /\ run'.next = run.next
        /\ run'.lot = lot /\ run'.cycles = cycles /\ run'.triggered = run.triggered
    BY <1>1, <2>1 DEF RunStates
  <2>5. where = "left" => ~ShouldFinalizeLastLot'
    BY <2>1, <2>2, <2>3, <2>4 DEF ShouldFinalizeLastLot, ReachedMaxCycles
  <2>6. where = "replaying" => LotIsOpen'
    BY <1>8, <2>1, <2>2, <2>3, <2>4 DEF LotIsOpen
  <2> QED
    BY <1>8, <2>1, <2>2, <2>4, <2>5, <2>6 DEF PiecesInv, CycleSteps, Selected
<1>11. CASE StartCycle
  <2>1. /\ run' = run /\ args' = args /\ pc = "cycle" /\ pc' \in {"closing", "failed", "training"}
        /\ cand'.manifest = TrainingImages
    BY <1>11, NoCycleType DEF StartCycle, Candidates
  <2>2. /\ SeenGood \subseteq TrainingImages
        /\ TrainingImages \ SeenGood \subseteq {Anchors[n].image : n \in CappedAnchors}
    BY DEF TrainingImages
  <2> QED
    BY <1>8, <2>1, <2>2 DEF PiecesInv, CycleSteps, Selected
<1>12. CASE TrainEpoch
  <2>1. /\ run' = run /\ args' = args /\ pc = "training" /\ pc' \in {"failed", "training"}
        /\ cand'.manifest = cand.manifest
    BY <1>1, <1>12 DEF TrainEpoch, Candidates
  <2> QED
    BY <1>8, <2>1 DEF PiecesInv, CycleSteps, Selected
<1>13. CASE \/ LogTraining \/ SelectClassification \/ Gate
            \/ PublishCheckpoint \/ RegisterModel \/ RegisteringDone
  <2>1. /\ run' = run /\ args' = args /\ pc \in CycleSteps
        /\ pc' \in CycleSteps \cup {"uploading_trained", "failed"} /\ pc' # "training"
    BY <1>13
    DEF LogTraining, SelectClassification, Gate, PublishCheckpoint, RegisterModel, RegisteringDone,
        CycleSteps, Selected
  <2>2. pc' \notin {"replaying", "last_lot", "left"}
    BY <2>1 DEF CycleSteps, Selected
  <2> QED
    BY <1>8, <2>1, <2>2 DEF PiecesInv
<1>14. CASE Finish
  <2>1. CASE pc' = "training"
    <3>1. run' = run /\ args' = args /\ args.mode = "train-on-trigger"
      BY <1>14, <2>1 DEF Finish
    <3>2. ~Progressive
      BY <3>1 DEF Progressive
    <3> QED
      BY <1>8, <2>1, <3>1, <3>2 DEF PiecesInv
  <2> QED
    BY <1>5, <1>14, <2>1 DEF Finish
<1>15. CASE UploadTrained \/ Abort
  BY <1>5, <1>15 DEF UploadTrained, Abort
<1> QED
  BY <1>2, <1>4, <1>6, <1>7, <1>9, <1>10, <1>11, <1>12, <1>13, <1>14, <1>15 DEF Next, Replay, Cycle

LEMMA PiecesInit ==
  ASSUME Init
  PROVE  PiecesInv
<1>1. pc = "idle" /\ run.lots = <<>> /\ run.total = 0
  BY DEF Init, NoRun
<1>2. DOMAIN run.lots = {} /\ Done = {}
  BY <1>1 DEF Done, ToSet
<1>3. Conforming(Done) = {} /\ Cardinality({}) = 0
  BY <1>2, FS_EmptySet DEF Conforming
<1> QED
  BY <1>1, <1>2, <1>3 DEF PiecesInv, CycleSteps, Selected

(* Without --max-lots the count the rule reads is that of the pieces in the finalized lots,  *)
(* whatever ended the loop, and a candidate trains on each of them.                          *)
THEOREM CountedOnce ==
  ASSUME NoMaxLots
  PROVE  Spec => []PiecesCountedOnce
<1>1. ASSUME TypeInv, PiecesInv
      PROVE  PiecesCountedOnce
  <2>1. pc = "training" /\ Progressive => {Rows[n].image : n \in Conforming(Done)} = SeenGood
    BY <1>1 DEF PiecesInv, CycleSteps, SeenGood, Seen
  <2> QED
    BY <1>1, <2>1 DEF PiecesInv, PiecesCountedOnce, Done
<1>2. Init => PiecesInv
  BY PiecesInit
<1>3. TypeInv /\ PiecesInv /\ [Next]_vars => PiecesInv'
  BY PiecesSteps
<1> QED
  BY <1>1, <1>2, <1>3, TypeAlways, PTL DEF Spec

-----------------------------------------------------------------------------
(* Cycles are earned *)

(* The rows replayed when the last cycle of the run was decided. *)
LastRows == IF run.cycles = <<>> THEN 0 ELSE run.cycles[Len(run.cycles)].rows

EarnedInv ==
  /\ LastRows \in Nat /\ LastRows <= run.next - 1
  /\ run.last = Cardinality(Conforming(1 .. LastRows))
  /\ pc \in CycleSteps /\ Progressive /\ args.scenario = "natural" =>
       run.total - run.last >= args.interval
  /\ CyclesAreEarned

LEMMA EarnedSteps ==
  ASSUME NoMaxLots, TypeInv, PiecesInv, EarnedInv, [Next]_vars
  PROVE  EarnedInv'
<1>1. /\ run \in RunStates /\ RunInv /\ args \in Options /\ ControlInv /\ run.next \in Nat \ {0}
  BY DEF TypeInv, RunInv, RunStates, ControlInv
<1>2. ASSUME run'.last = run.last, run'.cycles = run.cycles, run'.next \in {run.next, run.next + 1},
             args' = args,
             (pc \in CycleSteps)' /\ Progressive /\ args.scenario = "natural" =>
               run'.total - run.last >= args.interval
      PROVE  EarnedInv'
  <2>1. LastRows' = LastRows /\ Rows' = Rows /\ \A S : Conforming(S)' = Conforming(S)
    BY <1>2, SamePlan DEF LastRows
  <2>2. Conforming(1 .. LastRows)' = Conforming(1 .. LastRows)
    BY <2>1 DEF Conforming
  <2>3. CyclesAreEarned'
    BY <1>2, <2>1 DEF EarnedInv, CyclesAreEarned, Conforming
  <2> QED
    BY <1>1, <1>2, <2>1, <2>2, <2>3 DEF EarnedInv, Progressive
<1>3. ASSUME run'.cycles = <<>>, run'.last = 0, run'.next = 1, pc' \in {"failed", "completed", "replaying"}
      PROVE  EarnedInv'
  <2>1. LastRows' = 0 /\ 1 .. 0 = {} /\ DOMAIN run'.cycles = {}
    BY <1>3 DEF LastRows
  <2>2. Conforming(1 .. LastRows)' = {} /\ Cardinality({}) = 0
    BY <2>1, FS_EmptySet DEF Conforming
  <2>3. CyclesAreEarned' /\ (pc \notin CycleSteps)'
    BY <1>3, <2>1 DEF CyclesAreEarned, CycleSteps, Selected
  <2>4. run'.last = Cardinality(Conforming(1 .. LastRows))'
    BY <1>3, <2>2
  <2>5. LastRows' \in Nat /\ LastRows' <= run'.next - 1
    BY <1>3, <2>1
  <2> QED
    BY <2>3, <2>4, <2>5 DEF EarnedInv
<1>4. CASE UNCHANGED vars
  BY <1>2, <1>4 DEF vars, EarnedInv
<1>5. CASE StartRun
  <2>1. /\ run' = [NoRun EXCEPT !.number = run.number + 1] /\ run.number < MaxRuns
        /\ pc' \in {"failed", "replaying"}
    BY <1>5 DEF StartRun
  <2>2. run.number + 1 \in 0 .. MaxRuns
    BY <1>1, <2>1, RunnerAssumption DEF RunStates
  <2> QED
    BY <1>3, <2>1, <2>2, FreshRun
<1>6. CASE ProcessEnds /\ pc' \in {"failed", "completed"}
  BY <1>1, <1>3, <1>6, ProcessEnded
<1>7. CASE ProcessEvent
  <2>1. /\ run'.last = run.last /\ run'.cycles = run.cycles /\ run'.next = run.next + 1
        /\ args' = args /\ pc' = "replaying"
    BY <1>1, <1>7 DEF ProcessEvent, RunStates
  <2> QED
    BY <1>2, <2>1 DEF CycleSteps, Selected
<1>8. CASE FinalizeLot \/ FinalizeLastLot
  <2> DEFINE total == run.total + Cardinality(Conforming(run.lot))
             triggers == LotTriggers(total)
             lots == Append(run.lots, run.lot)
  <2>1. /\ run'.last = run.last /\ run'.cycles = run.cycles /\ run'.next = run.next
    BY <1>8, LotIsCounted
  <2>2. /\ args' = args /\ pc' = IF triggers /\ Progressive THEN "cycle" ELSE AfterLot(triggers, lots)
    BY <1>8 DEF FinalizeLot, FinalizeLastLot, Finalize
  <2>3. run'.total = total
    BY <1>1, <1>8 DEF FinalizeLot, FinalizeLastLot, Finalize, RunStates
  <2>4. pc' \in CycleSteps => triggers
    BY <2>2, LotFollows DEF CycleSteps, Selected
  <2>5. triggers /\ args.scenario = "natural" => total - run.last >= args.interval
    BY DEF LotTriggers
  <2> HIDE DEF total, triggers, lots
  <2> QED
    BY <1>2, <2>1, <2>2, <2>3, <2>4, <2>5
<1>9. CASE LeaveLoop \/ AfterLoop
  <2>1. /\ run'.last = run.last /\ run'.cycles = run.cycles /\ run'.next = run.next /\ args' = args
        /\ pc' \in {"left", "last_lot", "finishing"}
    BY <1>1, <1>9 DEF LeaveLoop, AfterLoop, RunStates
  <2> QED
    BY <1>2, <2>1 DEF CycleSteps, Selected
<1>10. CASE CloseCycle
  <2> DEFINE cycles == Append(run.cycles, JournalEntry)
             where == AfterLot(ReachedMaxCycles(cycles), run.lots)
             lot == NextLot(where)
             rows == run.next - 1
  <2>1. /\ run' = [run EXCEPT !.last = run.total, !.cycles = cycles, !.lot = lot]
        /\ pc = "closing" /\ pc' = where /\ args' = args
    BY <1>10, Zenon DEF CloseCycle, Watermark
  <2>2. /\ where \in {"finishing", "left", "replaying"} /\ JournalEntry.rows = rows /\ rows \in Nat
        /\ Progressive
    BY <1>1, <2>1, LotFollows DEF JournalEntry, ControlInv
  <2>3. /\ DOMAIN cycles = 1 .. Len(run.cycles) + 1 /\ Len(cycles) = Len(run.cycles) + 1
        /\ Len(run.cycles) \in Nat /\ DOMAIN run.cycles = 1 .. Len(run.cycles)
        /\ \A i \in DOMAIN run.cycles : cycles[i] = run.cycles[i]
        /\ cycles[Len(run.cycles) + 1] = JournalEntry
        /\ run.cycles = <<>> <=> Len(run.cycles) = 0
    <3>1. run.cycles \in Seq(JournalEntries)
      BY <1>1 DEF RunStates
    <3> HIDE DEF JournalEntries
    <3> QED
      BY <3>1, LenProperties, EmptySeq
  <2> HIDE DEF where, lot
  <2>4. run'.cycles = cycles /\ run'.last = run.total /\ run'.next = run.next
    BY <1>1, <2>1 DEF RunStates
  <2>5. run.total = Cardinality(Conforming(1 .. rows))
    BY <2>1 , <2>2 DEF PiecesInv, CycleSteps, Seen
  <2>6. args.scenario = "natural" =>
          Cardinality(Conforming(LastRows + 1 .. rows)) >= args.interval
    <3>1. /\ 1 .. rows = (1 .. LastRows) \cup (LastRows + 1 .. rows)
          /\ (1 .. LastRows) \cap (LastRows + 1 .. rows) = {}
          /\ IsFiniteSet(1 .. LastRows) /\ IsFiniteSet(LastRows + 1 .. rows)
      <4>1. LastRows \in Nat /\ LastRows <= rows /\ rows \in Nat
        BY <2>2 DEF EarnedInv
      <4> HIDE DEF rows
      <4>2. IsFiniteSet(1 .. LastRows) /\ IsFiniteSet(LastRows + 1 .. rows)
        BY <4>1, FS_Interval
      <4> QED
        BY <4>1, <4>2
    <3>2. run.total = run.last + Cardinality(Conforming(LastRows + 1 .. rows))
      BY <2>5, <3>1, CountsAdd DEF EarnedInv
    <3>3. Cardinality(Conforming(LastRows + 1 .. rows)) \in Nat /\ run.last \in Nat
      BY <1>1, <3>1, FS_Subset, FS_CardinalityType DEF Conforming, RunStates
    <3>4. args.scenario = "natural" => run.total - run.last >= args.interval
      BY <2>1, <2>2 DEF EarnedInv, CycleSteps
    <3> QED
      BY <3>2, <3>3, <3>4
  <2> HIDE DEF cycles
  <2>7. LastRows' = rows
    <3>1. run'.cycles # <<>>
      BY <2>3, <2>4
    <3> QED
      BY <2>2, <2>3, <2>4, <3>1 DEF LastRows
  <2>8. Rows' = Rows /\ Conforming(1 .. LastRows)' = Conforming(1 .. rows)
    BY <2>1, <2>7 DEF Conforming, Rows
  <2>9. ASSUME args.scenario = "natural", NEW i \in DOMAIN cycles
        PROVE  LET before == IF i = 1 THEN 0 ELSE cycles[i - 1].rows
               IN Cardinality(Conforming(before + 1 .. cycles[i].rows)) >= args.interval
    <3>1. CASE i \in DOMAIN run.cycles
      <4>1. cycles[i] = run.cycles[i] /\ i # 1 => cycles[i - 1] = run.cycles[i - 1]
        BY <2>3, <3>1
      <4> QED
        BY <2>3, <2>9, <3>1, <4>1 DEF EarnedInv, CyclesAreEarned
    <3>2. CASE i = Len(run.cycles) + 1
      <4>1. (IF i = 1 THEN 0 ELSE cycles[i - 1].rows) = LastRows
        BY <2>3, <3>2 DEF LastRows
      <4>2. cycles[i].rows = rows
        BY <2>2, <2>3, <3>2
      <4> HIDE DEF rows
      <4> QED
        BY <2>6, <2>9, <4>1, <4>2
    <3> QED
      BY <2>3, <2>9, <3>1, <3>2
  <2>10. CyclesAreEarned'
    BY <2>1, <2>4, <2>8, <2>9 DEF CyclesAreEarned, Conforming
  <2> QED
    BY <2>1, <2>2, <2>4, <2>5, <2>7, <2>8, <2>10 DEF EarnedInv, CycleSteps, Selected
<1>11. CASE StartCycle \/ TrainEpoch \/ LogTraining \/ SelectClassification \/ Gate
            \/ PublishCheckpoint \/ RegisterModel \/ RegisteringDone
  <2>1. run' = run /\ args' = args /\ pc \in CycleSteps
    BY <1>11
    DEF StartCycle, TrainEpoch, LogTraining, SelectClassification, Gate, PublishCheckpoint, RegisterModel,
        RegisteringDone, CycleSteps, Selected
  <2> QED
    BY <1>2, <2>1 DEF EarnedInv
<1>12. CASE Finish
  <2>1. CASE pc' = "training"
    <3>1. run' = run /\ args' = args /\ args.mode = "train-on-trigger"
      BY <1>12, <2>1 DEF Finish
    <3>2. ~Progressive
      BY <3>1 DEF Progressive
    <3> QED
      BY <1>2, <3>1, <3>2
  <2> QED
    BY <1>6, <1>12, <2>1 DEF Finish
<1>13. CASE UploadTrained \/ Abort
  BY <1>6, <1>13 DEF UploadTrained, Abort
<1> QED
  BY <1>4, <1>5, <1>7, <1>8, <1>9, <1>10, <1>11, <1>12, <1>13 DEF Next, Replay, Cycle

(* Without --max-lots, each cycle of a natural scenario was earned by interval pieces that no *)
(* cycle before it had counted.                                                               *)
THEOREM EveryCycleIsEarned ==
  ASSUME NoMaxLots
  PROVE  Spec => []CyclesAreEarned
<1>1. Init => EarnedInv
  <2>1. ASSUME Init
        PROVE  EarnedInv
    <3>1. run.cycles = <<>> /\ run.last = 0 /\ run.next = 1 /\ pc = "idle"
      BY <2>1 DEF Init, NoRun
    <3>2. LastRows = 0 /\ 1 .. 0 = {} /\ DOMAIN run.cycles = {}
      BY <3>1 DEF LastRows
    <3>3. Conforming(1 .. LastRows) = {} /\ Cardinality({}) = 0
      BY <3>2, FS_EmptySet DEF Conforming
    <3>4. CyclesAreEarned /\ pc \notin CycleSteps
      BY <3>1, <3>2 DEF CyclesAreEarned, CycleSteps, Selected
    <3> QED
      BY <3>1, <3>2, <3>3, <3>4 DEF EarnedInv
  <2> QED
    BY <2>1
<1>2. Init => PiecesInv
  BY PiecesInit
<1>3. TypeInv /\ PiecesInv /\ [Next]_vars => PiecesInv'
  BY PiecesSteps
<1>4. TypeInv /\ PiecesInv /\ EarnedInv /\ [Next]_vars => EarnedInv'
  BY EarnedSteps
<1>5. EarnedInv => CyclesAreEarned
  BY DEF EarnedInv
<1> QED
  BY <1>1, <1>2, <1>3, <1>4, <1>5, TypeAlways, PTL DEF Spec

-----------------------------------------------------------------------------
(* The files of the two roles are the best ones *)

BestSoFar(dir) ==
  \A m \in DOMAIN dir.best : \A n \in DOMAIN dir.epochs :
    Reference.value[dir.epochs[n]][m] <= Reference.value[BestContent(dir, m)][m]

FilesInv ==
  /\ pc \in {"training", "selecting"} \cup Selected => BestSoFar(cand.dir)
  /\ pc \in {"selecting"} \cup Selected =>
       cand.localization = SpecializedFile(cand.dir, "localization")
  /\ pc = "selecting" \/ (pc \in Selected /\ ~args.selection_manifest) =>
       cand.classification = SpecializedFile(cand.dir, "classification")
  /\ pc = "gate" /\ args.selection_manifest =>
       \A n \in DOMAIN cand.dir.epochs :
         GoodRedOk(args, active.classification.content, cand.dir.epochs[n], Selection) =>
           FalseNegatives(cand.classification, Selection)
             <= FalseNegatives(cand.dir.epochs[n], Selection)

(* The copies of the best files are replaced when a later epoch is better, and only then. *)
LEMMA BestIsKept ==
  ASSUME NEW dir \in Dirs, Filled(dir), BestSoFar(dir), NEW content \in Checkpoints, EpochMetrics # {}
  PROVE  BestSoFar(SaveEpoch(dir, content))
<1> DEFINE epochs == Append(dir.epochs, content)
           best == UpdateBest(dir, content)
           next == SaveEpoch(dir, content)
           last == Len(dir.epochs) + 1
           value(c, m) == Reference.value[c][m]
<1>1. /\ dir.epochs \in Seq(Checkpoints) /\ Len(dir.epochs) \in Nat
      /\ DOMAIN dir.epochs = 1 .. Len(dir.epochs)
      /\ \A n \in DOMAIN dir.epochs : dir.epochs[n] \in Checkpoints
  <2>1. dir.epochs \in Seq(Checkpoints)
    BY DEF Dirs
  <2> QED
    BY <2>1, LenProperties, ElementOfSeq
<1>2. /\ DOMAIN epochs = 1 .. last /\ epochs[last] = content
      /\ \A n \in DOMAIN dir.epochs : epochs[n] = dir.epochs[n]
  BY <1>1
<1>3. \A c \in Checkpoints, m \in EpochMetrics : value(c, m) \in Int
  BY ReferenceAssumption DEF IsPanel, EpochMetrics
<1>4. next.epochs = epochs /\ next.best = best /\ DOMAIN best = EpochMetrics
  BY DEF SaveEpoch, UpdateBest
<1> HIDE DEF epochs, next, value
<1>5. ASSUME NEW m \in EpochMetrics, NEW n \in 1 .. last
      PROVE  value(epochs[n], m) <= value(epochs[best[m]], m)
  <2>1. CASE m \in DOMAIN dir.best
    <3>1. /\ dir.best[m] \in DOMAIN dir.epochs /\ BestContent(dir, m) = dir.epochs[dir.best[m]]
          /\ BestContent(dir, m) \in Checkpoints
      BY <2>1, BestIsAnEpoch DEF BestContent
    <3>2. \A k \in DOMAIN dir.epochs : value(dir.epochs[k], m) <= value(BestContent(dir, m), m)
      BY <2>1 DEF BestSoFar, value
    <3>3. CASE value(content, m) <= value(BestContent(dir, m), m)
      <4>1. best[m] = dir.best[m]
        BY <1>5, <2>1, <3>3 DEF UpdateBest, value
      <4>2. epochs[best[m]] = BestContent(dir, m)
        BY <1>2, <3>1, <4>1
      <4> HIDE DEF best
      <4> QED
        BY <1>1, <1>2, <1>5, <3>2, <3>3, <4>2
    <3>4. CASE ~(value(content, m) <= value(BestContent(dir, m), m))
      <4>1. best[m] = last
        BY <1>5, <2>1, <3>4 DEF UpdateBest, value
      <4>2. epochs[best[m]] = content
        BY <1>2, <4>1
      <4>3. /\ value(content, m) \in Int /\ value(BestContent(dir, m), m) \in Int
            /\ \A k \in DOMAIN dir.epochs : value(dir.epochs[k], m) \in Int
        BY <1>1, <1>3, <3>1
      <4> HIDE DEF best
      <4>4. n = last \/ n \in DOMAIN dir.epochs
        BY <1>1, <1>5
      <4> QED
        BY <1>2, <3>2, <3>4, <4>2, <4>3, <4>4
    <3> QED
      BY <3>3, <3>4
  <2>2. CASE m \notin DOMAIN dir.best
    <3>1. dir.epochs = <<>>
      BY <1>5, <2>2 DEF Filled
    <3>2. Len(dir.epochs) = 0 /\ best[m] = last
      BY <1>5, <2>2, <3>1 DEF UpdateBest
    <3>3. n = last /\ epochs[n] = content
      BY <1>2, <1>5, <3>2
    <3> HIDE DEF best
    <3> QED
      BY <1>3, <3>2, <3>3
  <2> QED
    BY <2>1, <2>2
<1> HIDE DEF best
<1>6. BestSoFar(next)
  BY <1>2, <1>4, <1>5 DEF BestSoFar, BestContent, value
<1> QED
  BY <1>6 DEF next

(* The file of a role is the best one for the metric that comes first. *)
LEMMA BestFiles ==
  ASSUME NEW dir \in Dirs, Filled(dir), BestSoFar(dir), NEW n \in DOMAIN dir.epochs
  PROVE  LET value(c, m) == IF m \in Reference.metrics THEN Reference.value[c][m] ELSE 0
         IN /\ value(SpecializedFile(dir, "localization"), "pixel_aupimo")
                 >= value(dir.epochs[n], "pixel_aupimo")
            /\ value(SpecializedFile(dir, "classification"), "image_ap")
                 >= value(dir.epochs[n], "image_ap")
<1>1. dir.epochs # <<>>
  OBVIOUS
<1>2. /\ DOMAIN <<"pixel_aupimo", "pixel_ap">> = 1 .. 2 /\ DOMAIN ClassificationMetrics = 1 .. 2
      /\ ClassificationMetrics[1] = "image_ap" /\ <<"pixel_aupimo", "pixel_ap">>[1] = "pixel_aupimo"
  BY DEF ClassificationMetrics
<1>3. {"pixel_aupimo", "image_ap"} \subseteq BusinessMetricSet
  <2>1. /\ DOMAIN BusinessMetrics = 1 .. 4
        /\ BusinessMetrics[1] = "pixel_aupimo" /\ BusinessMetrics[3] = "image_ap"
    BY DEF BusinessMetrics
  <2> QED
    BY <2>1 DEF BusinessMetricSet
<1>4. DOMAIN dir.best = EpochMetrics
  BY <1>1 DEF Filled
<1>5. ASSUME NEW metric \in BusinessMetricSet \cap Reference.metrics,
             NEW priority, DOMAIN priority = 1 .. 2, priority[1] = metric
      PROVE  /\ FirstBest(dir, priority) # None
             /\ Reference.value[FirstBest(dir, priority)][metric] >= Reference.value[dir.epochs[n]][metric]
  <2>1. metric \in DOMAIN dir.best /\ 1 \in DOMAIN priority
    BY <1>4, <1>5 DEF EpochMetrics
  <2>2. FirstBest(dir, priority) \in Checkpoints /\ FirstBest(dir, priority) = BestContent(dir, metric)
    <3>1. DOMAIN priority \subseteq Nat
      BY <1>5
    <3>2. /\ FirstBest(dir, priority) \in Checkpoints
          /\ \E k \in DOMAIN priority :
               /\ FirstBest(dir, priority) = BestContent(dir, priority[k])
               /\ \A m \in DOMAIN priority : priority[m] \in DOMAIN dir.best => k <= m
      BY <1>5, <2>1, <3>1, FirstBestIs
    <3>3. PICK k \in DOMAIN priority :
            /\ FirstBest(dir, priority) = BestContent(dir, priority[k])
            /\ \A m \in DOMAIN priority : priority[m] \in DOMAIN dir.best => k <= m
      BY <3>2
    <3>4. k = 1
      BY <1>5, <2>1, <3>3
    <3> QED
      BY <1>5, <3>2, <3>3, <3>4
  <2>3. /\ Reference.value[dir.epochs[n]][metric] <= Reference.value[BestContent(dir, metric)][metric]
    BY <2>1 DEF BestSoFar
  <2>4. dir.epochs[n] \in Checkpoints
    <3>1. dir.epochs \in Seq(Checkpoints)
      BY DEF Dirs
    <3> QED
      BY <3>1, LenProperties, ElementOfSeq
  <2>5. \A c \in Checkpoints : Reference.value[c][metric] \in Int
    BY <1>5, ReferenceAssumption DEF IsPanel
  <2> QED
    BY <2>2, <2>3, <2>4, <2>5, NoneAssumption
<1>6. "pixel_aupimo" \in Reference.metrics =>
        Reference.value[SpecializedFile(dir, "localization")]["pixel_aupimo"]
          >= Reference.value[dir.epochs[n]]["pixel_aupimo"]
  BY <1>2, <1>3, <1>5 DEF SpecializedFile, BestLocalizationFile
<1>7. "image_ap" \in Reference.metrics =>
        Reference.value[SpecializedFile(dir, "classification")]["image_ap"]
          >= Reference.value[dir.epochs[n]]["image_ap"]
  BY <1>2, <1>3, <1>5 DEF SpecializedFile, BestImageFile
<1> QED
  BY <1>6, <1>7

LEMMA FilesSteps ==
  ASSUME TypeInv, FilesInv, [Next]_vars
  PROVE  FilesInv'
<1>1. /\ cand \in Candidates /\ CandInv /\ cand.dir \in Dirs /\ ControlInv
  BY DEF TypeInv, CandInv, Candidates
<1>2. CASE UNCHANGED vars
  <2>1. UNCHANGED <<args, pc, active, cand>>
    BY <1>2 DEF vars
  <2> QED
    BY <2>1 DEF FilesInv
<1>3. CASE pc' \notin {"training", "selecting"} \cup Selected
  BY <1>3 DEF FilesInv, Selected
<1>4. CASE StartCycle
  <2>1. cand'.dir = EmptyDir /\ pc' \in {"closing", "failed", "training"}
    BY <1>4, NoCycleType DEF StartCycle, CandidateRunDir, Candidates
  <2>2. BestSoFar(EmptyDir)
    BY DEF BestSoFar, EmptyDir
  <2>3. BestSoFar(cand.dir)'
    BY <2>1, <2>2
  <2> QED
    BY <2>1, <2>3 DEF FilesInv, Selected
<1>5. CASE TrainEpoch
  <2>1. PICK content \in Checkpoints : cand' = [cand EXCEPT !.dir = SaveEpoch(cand.dir, content)]
    BY <1>5 DEF TrainEpoch
  <2>2. pc = "training" /\ pc' = IF EpochMetrics = {} THEN "failed" ELSE "training"
    BY <1>5 DEF TrainEpoch
  <2>3. cand'.dir = SaveEpoch(cand.dir, content)
    BY <1>1, <2>1 DEF Candidates
  <2>4. Filled(cand.dir) /\ BestSoFar(cand.dir)
    BY <1>1, <2>2 DEF CandInv, FilesInv
  <2>5. EpochMetrics # {} => BestSoFar(SaveEpoch(cand.dir, content))
    BY <1>1, <2>4, BestIsKept
  <2>6. EpochMetrics # {} => BestSoFar(cand.dir)'
    BY <2>3, <2>5
  <2> QED
    BY <2>2, <2>6 DEF FilesInv, Selected
<1>6. CASE LogTraining
  <2>1. /\ pc = "training" /\ pc' \in {"uploading_trained", "selecting"}
        /\ cand' = [cand EXCEPT !.localization = SpecializedFile(cand.dir, "localization"),
                                !.classification = SpecializedFile(cand.dir, "classification")]
    BY <1>6 DEF LogTraining
  <2>2. /\ cand'.dir = cand.dir
        /\ cand'.localization = SpecializedFile(cand.dir, "localization")
        /\ cand'.classification = SpecializedFile(cand.dir, "classification")
    BY <1>1, <2>1 DEF Candidates
  <2>3. BestSoFar(cand.dir)'
    BY <2>1, <2>2 DEF FilesInv
  <2> QED
    BY <2>1, <2>2, <2>3 DEF FilesInv, Selected
<1>7. CASE SelectClassification
  <2>1. pc = "selecting" /\ pc' = "gate" /\ args' = args /\ active' = active
    BY <1>7 DEF SelectClassification
  <2>2. /\ cand'.dir = cand.dir /\ cand'.localization = cand.localization
        /\ ~args.selection_manifest => cand' = cand
    <3>1. CASE args.selection_manifest
      <4>1. cand' = [cand EXCEPT !.classification = cand'.classification]
        BY <1>7, <3>1, SelectionAnswers
      <4> QED
        BY <1>1, <3>1, <4>1 DEF Candidates
    <3>2. CASE ~args.selection_manifest
      BY <1>7, <3>2 DEF SelectClassification
    <3> QED
      BY <3>1, <3>2
  <2>3. args.selection_manifest =>
          \A n \in DOMAIN cand.dir.epochs :
            GoodRedOk(args, active.classification.content, cand.dir.epochs[n], Selection) =>
              FalseNegatives(cand'.classification, Selection)
                <= FalseNegatives(cand.dir.epochs[n], Selection)
    BY <1>7, SelectionAnswers
  <2>4. BestSoFar(cand.dir)'
    BY <2>1, <2>2 DEF FilesInv
  <2> QED
    BY <2>1, <2>2, <2>3, <2>4 DEF FilesInv, Selected
<1>8. CASE Gate
  <2>1. /\ pc = "gate" /\ pc' \in {"publishing", "registering"} /\ args' = args
        /\ cand'.dir = cand.dir /\ cand'.localization = cand.localization
        /\ cand'.classification = cand.classification
    BY <1>1, <1>8 DEF Gate, Candidates
  <2>2. BestSoFar(cand.dir)'
    BY <2>1 DEF FilesInv, Selected
  <2> QED
    BY <2>1, <2>2 DEF FilesInv, Selected
<1>9. CASE PublishCheckpoint \/ RegisterModel \/ RegisteringDone
  <2>1. /\ pc \in {"publishing", "registering"} /\ args' = args
        /\ pc' \in {"publishing", "registering", "closing", "failed"}
        /\ cand'.dir = cand.dir /\ cand'.localization = cand.localization
        /\ cand'.classification = cand.classification
    BY <1>9, AfterTheGate
  <2>2. BestSoFar(cand.dir)'
    BY <2>1 DEF FilesInv, Selected
  <2> QED
    BY <2>1, <2>2 DEF FilesInv, Selected
<1>10. CASE Finish
  <2>1. CASE pc' = "training"
    <3>1. cand' = NoCycle
      BY <1>1, <1>10, <2>1 DEF Finish, CandInv
    <3>2. BestSoFar(cand.dir)'
      BY <3>1 DEF BestSoFar, NoCycle, EmptyDir
    <3> QED
      BY <2>1, <3>2 DEF FilesInv, Selected
  <2> QED
    BY <1>3, <1>10, <2>1 DEF Finish, Selected
<1>11. CASE CloseCycle
  BY <1>3, <1>11, LotFollows DEF CloseCycle, Selected
<1>12. CASE Replay
  BY <1>3, <1>12, LoopSteps DEF Selected
<1>13. CASE StartRun \/ UploadTrained \/ Abort
  BY <1>3, <1>13 DEF StartRun, UploadTrained, Abort, Selected
<1> QED
  BY <1>2, <1>4, <1>5, <1>6, <1>7, <1>8, <1>9, <1>10, <1>11, <1>12, <1>13 DEF Next, Cycle

LEMMA FilesInit ==
  ASSUME Init
  PROVE  FilesInv
BY DEF Init, FilesInv, Selected

(* The files of the two roles are the best epochs, and a file chosen on the selection manifest *)
(* misses no more defects than an epoch the guard allows, whatever the panels and the scores.  *)
THEOREM FilesAreBest == Spec => []CandidatesAreBest
<1>1. ASSUME TypeInv, FilesInv
      PROVE  CandidatesAreBest
  <2>1. ASSUME pc \in {"selecting", "gate"}, NEW n \in DOMAIN cand.dir.epochs
        PROVE  LET value(c, m) == IF m \in Reference.metrics THEN Reference.value[c][m] ELSE 0
               IN /\ value(cand.localization, "pixel_aupimo") >= value(cand.dir.epochs[n], "pixel_aupimo")
                  /\ pc = "selecting" =>
                       value(cand.classification, "image_ap") >= value(cand.dir.epochs[n], "image_ap")
    <3>1. cand.dir \in Dirs /\ Filled(cand.dir) /\ BestSoFar(cand.dir)
      BY <1>1, <2>1 DEF TypeInv, CandInv, Candidates, FilesInv, Selected
    <3>2. /\ cand.localization = SpecializedFile(cand.dir, "localization")
          /\ pc = "selecting" => cand.classification = SpecializedFile(cand.dir, "classification")
      BY <1>1, <2>1 DEF FilesInv, Selected
    <3> QED
      BY <2>1, <3>1, <3>2, BestFiles
  <2> QED
    BY <1>1, <2>1 DEF CandidatesAreBest, FilesInv
<1>2. TypeInv /\ FilesInv /\ [Next]_vars => FilesInv'
  BY FilesSteps
<1> QED
  BY <1>1, <1>2, FilesInit, TypeAlways, PTL DEF Spec

-----------------------------------------------------------------------------
(* The runtime is the one the journal promoted last *)

(* The models whose promotion changes the runtime of a role. *)
ModelsOf(role) == IF role = "classification" THEN {role, "model"} ELSE {role}

(* The promotions of the run that changed the runtime of a role: a cycle, a model. *)
Promotions(role) ==
  {b \in (DOMAIN run.cycles) \X ModelsOf(role) : run.cycles[b[1]].status[b[2]] = "promoted"}

(* The contracts logged for a version of a role. *)
ContractsOf(v, role) == {c \in contracts : c.run = v.run /\ c.cycle = v.cycle /\ c.role = role}

(* The run started with v, whose thresholds are not those of its file. *)
LoadedUncalibrated(runtime, v, role) ==
  /\ v.run < run.number
  /\ v.cycle = runtime.version /\ v.content = runtime.content
  /\ v.content # v.judged \/ ContractsOf(v, role) = {}

RuntimeInv ==
  \A role \in Roles :
    /\ \A b \in Promotions(role) :
         (\A c \in Promotions(role) : c[1] <= b[1]) =>
           active[role] = Runtime(b[1], run.cycles[b[1]].judged[b[2]], run.cycles[b[1]].judged[b[2]])
    /\ active[role].calibrated # active[role].content =>
         /\ Promotions(role) = {}
         /\ \E r \in Roles : \E v \in ToSet(registry[r]) : LoadedUncalibrated(active[role], v, r)

(* A cycle has the number of its entry in the journal, and promotes what it judged. *)
CycleInv ==
  /\ pc \in {"training", "selecting", "closing"} \cup Selected /\ Progressive =>
       cand.number = Len(run.cycles) + 1
  /\ pc = "closing" /\ args.mode # "progressive-train" => \A m \in Models : ~Promoted(m)
  /\ \A i \in DOMAIN run.cycles, m \in Models :
       run.cycles[i].status[m] = "promoted" => IsJudged(m)

(* Of a run that is not over: it is of a cycle that is, or of the one that is being registered. *)
OfThisRun(cycle, judged) ==
  \/ cycle <= Len(run.cycles)
  \/ pc \in {"registering", "closing"} /\ cycle = cand.number /\ judged

(* What ties the versions and the contracts of a cycle together, by the names of both. *)
EvidenceInv ==
  /\ \A m \in Models : \A v \in ToSet(registry[m]) :
       /\ v.run <= run.number
       /\ v.run = run.number => IsJudged(m)
       /\ v.run = run.number /\ ~Idle => OfThisRun(v.cycle, v.judged = JudgedContent(m))
  /\ \A c \in contracts :
       /\ c.run <= run.number
       /\ c.run = run.number /\ ~Idle =>
            OfThisRun(c.cycle, args.dual => c.calibrated = JudgedContent(c.role))
  /\ \A role \in Roles : \A v \in ToSet(registry[role]) :
       \A c \in ContractsOf(v, role) : c.calibrated = v.judged

(* The journal after a cycle. *)
LEMMA ClosedCycle ==
  ASSUME TypeInv, CloseCycle
  PROVE  /\ pc = "closing" /\ pc' \in {"finishing", "left", "replaying"} /\ Progressive
         /\ args' = args /\ run'.number = run.number /\ cand' = NoCycle
         /\ UNCHANGED <<registry, alias, contracts>>
         /\ active' = [role \in Roles |-> Activated(role)]
         /\ Len(run.cycles) \in Nat /\ Len(run'.cycles) = Len(run.cycles) + 1
         /\ DOMAIN run.cycles = 1 .. Len(run.cycles) /\ DOMAIN run'.cycles = 1 .. Len(run.cycles) + 1
         /\ \A i \in DOMAIN run.cycles : run'.cycles[i] = run.cycles[i]
         /\ run'.cycles[Len(run.cycles) + 1] = JournalEntry
<1> DEFINE cycles == Append(run.cycles, JournalEntry)
           where == AfterLot(ReachedMaxCycles(cycles), run.lots)
           lot == NextLot(where)
<1>1. /\ run' = [run EXCEPT !.last = Watermark, !.cycles = cycles, !.lot = lot]
      /\ pc = "closing" /\ pc' = where /\ args' = args /\ cand' = NoCycle
      /\ UNCHANGED <<registry, alias, contracts>>
      /\ active' = [role \in Roles |-> Activated(role)]
  BY Zenon DEF CloseCycle
<1>2. where \in {"finishing", "left", "replaying"} /\ Progressive
  BY <1>1, LotFollows DEF TypeInv, ControlInv
<1>3. run \in RunStates /\ run.cycles \in Seq(JournalEntries)
  BY DEF TypeInv, RunInv, RunStates
<1>4. /\ DOMAIN cycles = 1 .. Len(run.cycles) + 1 /\ Len(cycles) = Len(run.cycles) + 1
      /\ Len(run.cycles) \in Nat /\ DOMAIN run.cycles = 1 .. Len(run.cycles)
      /\ \A i \in DOMAIN run.cycles : cycles[i] = run.cycles[i]
      /\ cycles[Len(run.cycles) + 1] = JournalEntry
  <2> HIDE DEF JournalEntries
  <2> QED
    BY <1>3, LenProperties
<1> HIDE DEF cycles, where, lot
<1>5. run'.cycles = cycles /\ run'.number = run.number
  BY <1>1, <1>3 DEF RunStates
<1> QED
  BY <1>1, <1>2, <1>4, <1>5

(* What a cycle logs, and when: nothing is taken back. *)
LEMMA EvidenceLogged ==
  ASSUME TypeInv, RegisterModel \/ RegisteringDone
  PROVE  /\ pc = "registering" /\ pc' \in {"registering", "closing", "failed"}
         /\ contracts \subseteq contracts'
         /\ \A c \in contracts' \ contracts :
              /\ c.run = run.number /\ c.cycle = cand.number
              /\ args.dual => c.calibrated = JudgedContent(c.role)
<1>1. /\ pc = "registering" /\ pc' \in {"registering", "closing", "failed"}
      /\ contracts' = contracts \/ contracts' \in EvidenceOutcomes
  BY DEF RegisterModel, RegisteringDone
<1>2. CASE contracts' \in EvidenceOutcomes
  <2>1. contracts \subseteq contracts' /\ contracts' \subseteq contracts \cup CycleContracts
    BY <1>1, <1>2, EvidenceTypes
  <2>2. \A m \in Models : IsJudged(m) => cand.calibrated[m] = JudgedContent(m)
    BY <1>1 DEF TypeInv, CandInv, Calibrated
  <2>3. \A c \in CycleContracts :
          /\ c.run = run.number /\ c.cycle = cand.number
          /\ args.dual => c.role \in Roles /\ c.calibrated = cand.calibrated[c.role]
    BY DEF CycleContracts
  <2>4. args.dual => \A role \in Roles : IsJudged(role) /\ role \in Models
    BY OptionsAssumption DEF TypeInv, ControlInv, IsJudged, Models, Roles
  <2> QED
    BY <1>1, <2>1, <2>2, <2>3, <2>4
<1> QED
  BY <1>1, <1>2

LEMMA CycleInvSteps ==
  ASSUME TypeInv, CycleInv, [Next]_vars
  PROVE  CycleInv'
<1>1. /\ cand \in Candidates /\ run \in RunStates /\ ControlInv /\ CandInv
      /\ \A m \in Models : NoCycle.status[m] = "simulated"
  BY NoCycleType DEF TypeInv, CandInv, RunInv
<1>2. ASSUME args' = args, run'.cycles = run.cycles,
             (pc \in {"training", "selecting", "closing"} \cup Selected)' /\ Progressive =>
               cand'.number = Len(run.cycles) + 1,
             pc' = "closing" /\ args.mode # "progressive-train" => \A m \in Models : ~Promoted(m)'
      PROVE  CycleInv'
  <2>1. \A m \in Models : IsJudged(m)' = IsJudged(m)
    BY <1>2 DEF IsJudged
  <2> QED
    BY <1>2, <2>1 DEF CycleInv, Progressive
<1>3. ASSUME run'.cycles = <<>>, pc' \notin {"training", "selecting", "closing"} \cup Selected
      PROVE  CycleInv'
  BY <1>3 DEF CycleInv
<1>4. CASE UNCHANGED vars
  <2>1. UNCHANGED <<args, pc, run, cand>>
    BY <1>4 DEF vars
  <2> QED
    BY <1>2, <2>1 DEF CycleInv, Promoted
<1>5. CASE StartRun
  <2>1. /\ run' = [NoRun EXCEPT !.number = run.number + 1] /\ pc' \in {"failed", "replaying"}
    BY <1>5 DEF StartRun
  <2> QED
    BY <1>3, <2>1 DEF NoRun, Selected
<1>6. CASE ProcessEnds /\ pc' \in {"failed", "completed"}
  BY <1>1, <1>3, <1>6, ProcessEnded DEF Selected
<1>7. CASE Replay
  BY <1>2, <1>7, LoopSteps DEF Selected
<1>8. CASE StartCycle
  <2>1. /\ args' = args /\ run' = run /\ pc' \in {"closing", "failed", "training"}
        /\ pc' = "closing" <=> args.mode = "progressive-decision"
        /\ cand'.number = Len(run.cycles) + 1 /\ cand'.status = NoCycle.status
    BY <1>8, NoCycleType DEF StartCycle, Candidates
  <2> QED
    BY <1>1, <1>2, <2>1 DEF Promoted
<1>9. CASE TrainEpoch \/ LogTraining \/ SelectClassification \/ Gate
  <2>1. /\ args' = args /\ run' = run
        /\ pc \in {"training", "selecting"} \cup Selected /\ pc' # "closing"
    BY <1>9 DEF TrainEpoch, LogTraining, SelectClassification, Gate, Selected
  <2>2. cand'.number = cand.number
    <3>1. CASE TrainEpoch
      BY <1>1, <3>1 DEF TrainEpoch, Candidates
    <3>2. CASE LogTraining
      BY <1>1, <3>2 DEF LogTraining, Candidates
    <3>3. CASE SelectClassification
      <4>1. cand' = cand \/ cand' = [cand EXCEPT !.classification = cand'.classification]
        BY <3>3, SelectionAnswers DEF SelectClassification
      <4> QED
        BY <1>1, <4>1 DEF Candidates
    <3>4. CASE Gate
      BY <1>1, <3>4 DEF Gate, Candidates
    <3> QED
      BY <1>9, <3>1, <3>2, <3>3, <3>4
  <2> QED
    BY <1>2, <2>1, <2>2 DEF CycleInv
<1>10. CASE PublishCheckpoint \/ RegisterModel \/ RegisteringDone
  <2>1. args' = args /\ run' = run /\ cand'.number = cand.number /\ pc \in Selected
    BY <1>10, AfterTheGate DEF Selected
  <2>2. args.mode = "progressive-train"
    BY <1>1, <2>1 DEF ControlInv
  <2> QED
    BY <1>2, <2>1, <2>2 DEF CycleInv
<1>11. CASE CloseCycle
  <2>1. ASSUME NEW i \in DOMAIN run'.cycles, NEW m \in Models, run'.cycles[i].status[m] = "promoted"
        PROVE  IsJudged(m)
    <3>1. CASE i \in DOMAIN run.cycles
      BY <1>11, <2>1, <3>1, ClosedCycle DEF CycleInv
    <3>2. CASE i \notin DOMAIN run.cycles
      <4>1. i = Len(run.cycles) + 1
        BY <1>11, <2>1, <3>2, ClosedCycle
      <4>2. run'.cycles[i] = JournalEntry /\ pc = "closing"
        BY <1>11, <4>1, ClosedCycle
      <4>3. Promoted(m)
        BY <2>1, <4>2 DEF JournalEntry, Promoted
      <4> QED
        BY <1>1, <4>2, <4>3 DEF CandInv, Judged
    <3> QED
      BY <3>1, <3>2
  <2>2. \A m \in Models : IsJudged(m)' = IsJudged(m)
    BY <1>11, ClosedCycle DEF IsJudged
  <2>3. pc' \notin {"training", "selecting", "closing"} \cup Selected
    BY <1>11, ClosedCycle DEF Selected
  <2> QED
    BY <2>1, <2>2, <2>3 DEF CycleInv
<1>12. CASE Finish
  <2>1. CASE pc' = "training"
    <3>1. run' = run /\ args' = args /\ args.mode = "train-on-trigger"
      BY <1>12, <2>1 DEF Finish
    <3>2. ~Progressive
      BY <3>1 DEF Progressive
    <3> QED
      BY <1>2, <2>1, <3>1, <3>2
  <2> QED
    BY <1>6, <1>12, <2>1 DEF Finish
<1>13. CASE UploadTrained \/ Abort
  BY <1>6, <1>13 DEF UploadTrained, Abort
<1> QED
  BY <1>4, <1>5, <1>7, <1>8, <1>9, <1>10, <1>11, <1>12, <1>13 DEF Next, Cycle

LEMMA EvidenceSteps ==
  ASSUME TypeInv, CycleInv, EvidenceInv, [Next]_vars
  PROVE  EvidenceInv'
<1>1. /\ cand \in Candidates /\ run \in RunStates /\ ControlInv /\ CandInv /\ run.number \in Nat
      /\ Len(run.cycles) \in Nat
      /\ \A c \in contracts : c.run \in Nat /\ c.cycle \in Nat
      /\ \A m \in Models : \A v \in ToSet(registry[m]) : v.run \in Nat /\ v.cycle \in Nat
  <2>1. /\ cand \in Candidates /\ run \in RunStates /\ ControlInv /\ CandInv /\ run.number \in Nat
        /\ registry \in [Models -> Seq(Versions)] /\ contracts \subseteq Contracts
    BY RunnerAssumption DEF TypeInv, CandInv, RunInv, RunStates, RegistryInv
  <2>2. Len(run.cycles) \in Nat
    <3>1. run.cycles \in Seq(JournalEntries)
      BY <2>1 DEF RunStates
    <3> QED
      BY <3>1, LenProperties
  <2>3. \A m \in Models : \A v \in ToSet(registry[m]) : v \in Versions
    BY <2>1, ElementOfSeq, LenProperties DEF ToSet
  <2> QED
    BY <2>1, <2>2, <2>3, RunnerAssumption DEF Versions, Contracts
<1>2. ASSUME UNCHANGED <<args, registry, contracts>>, run'.number = run.number,
             ~Idle' =>
               /\ ~Idle /\ run'.cycles = run.cycles
               /\ \/ pc \notin {"registering", "closing"}
                  \/ /\ pc' = pc /\ cand'.number = cand.number
                     /\ \A m \in Models : JudgedContent(m)' = JudgedContent(m)
      PROVE  EvidenceInv'
  <2>1. \A m \in Models : IsJudged(m)' = IsJudged(m)
    BY <1>2 DEF IsJudged
  <2>2. \A v, role : ContractsOf(v, role)' = ContractsOf(v, role)
    BY <1>2 DEF ContractsOf
  <2>3. \A c \in contracts : c.role \in Models
    BY DEF TypeInv, RegistryInv, Contracts, Models
  <2>4. ASSUME NEW m \in Models, NEW v \in ToSet(registry[m])
        PROVE  /\ v.run <= run.number /\ (v.run = run.number => IsJudged(m))
               /\ v.run = run.number /\ ~Idle' => OfThisRun(v.cycle, v.judged = JudgedContent(m))'
    BY <1>2, <2>4 DEF EvidenceInv, OfThisRun
  <2>5. ASSUME NEW c \in contracts
        PROVE  /\ c.run <= run.number
               /\ c.run = run.number /\ ~Idle' =>
                    OfThisRun(c.cycle, args.dual => c.calibrated = JudgedContent(c.role))'
    BY <1>2, <2>3, <2>5 DEF EvidenceInv, OfThisRun
  <2> QED
    BY <1>2, <2>1, <2>2, <2>4, <2>5 DEF EvidenceInv
<1>3. CASE UNCHANGED vars
  <2>1. UNCHANGED <<args, pc, run, cand, registry, contracts>>
    BY <1>3 DEF vars
  <2>2. \A m \in Models : JudgedContent(m)' = JudgedContent(m)
    BY <2>1 DEF JudgedContent
  <2> QED
    BY <1>2, <2>1, <2>2 DEF Idle
<1>4. CASE StartRun
  <2>1. /\ run' = [NoRun EXCEPT !.number = run.number + 1] /\ UNCHANGED <<registry, contracts>>
    BY <1>4 DEF StartRun
  <2>2. run'.number = run.number + 1
    BY <2>1 DEF NoRun
  <2>3. /\ \A m \in Models : \A v \in ToSet(registry[m]) : v.run <= run'.number /\ v.run # run'.number
        /\ \A c \in contracts : c.run <= run'.number /\ c.run # run'.number
    BY <1>1, <2>2 DEF EvidenceInv
  <2>4. \A v, role : ContractsOf(v, role)' = ContractsOf(v, role)
    BY <2>1 DEF ContractsOf
  <2> QED
    BY <2>1, <2>3, <2>4 DEF EvidenceInv
<1>5. CASE Replay
  <2>1. UNCHANGED <<args, registry, contracts>> /\ run'.number = run.number /\ run'.cycles = run.cycles
    BY <1>5, LoopSteps
  <2>2. pc \in {"replaying", "left", "last_lot"}
    BY <1>5, LoopSteps
  <2> QED
    BY <1>2, <2>1, <2>2 DEF Idle
<1>6. CASE StartCycle \/ TrainEpoch \/ LogTraining \/ SelectClassification \/ Gate \/ PublishCheckpoint
  <2>1. /\ UNCHANGED <<args, registry, contracts>> /\ run' = run
        /\ pc \in {"cycle", "training", "selecting", "gate", "publishing"}
    BY <1>6 DEF StartCycle, TrainEpoch, LogTraining, SelectClassification, Gate, PublishCheckpoint
  <2> QED
    BY <1>2, <2>1 DEF Idle
<1>7. CASE RegisterModel \/ RegisteringDone
  <2>1. /\ args' = args /\ run' = run /\ cand'.number = cand.number
        /\ \A m \in Models : JudgedContent(m)' = JudgedContent(m) /\ IsJudged(m)' = IsJudged(m)
    BY <1>7, AfterTheGate
  <2>2. /\ pc = "registering" /\ pc' \in {"registering", "closing", "failed"}
        /\ contracts \subseteq contracts'
        /\ \A c \in contracts' \ contracts :
              /\ c.run = run.number /\ c.cycle = cand.number
              /\ args.dual => c.calibrated = JudgedContent(c.role)
    BY <1>7, EvidenceLogged
  <2>3. cand.number = Len(run.cycles) + 1 /\ ~Idle
    BY <1>1, <2>2 DEF CycleInv, ControlInv, Selected, Progressive, Idle
  <2>4. ASSUME NEW m \in Models, NEW v \in ToSet(registry'[m]), v \notin ToSet(registry[m])
        PROVE  /\ v.run = run.number /\ v.cycle = cand.number /\ v.judged = JudgedContent(m)
               /\ IsJudged(m)
    <3>1. RegisterModel
      BY <1>7, <2>4 DEF RegisteringDone
    <3>2. v = NewVersion(m) /\ m = NextPromoted(cand.tried)
      BY <2>4, <3>1, ModelRegistered
    <3>3. Promoted(m)
      BY <3>1, <3>2, ModelRegistered
    <3> QED
      BY <1>1, <2>2, <3>2, <3>3 DEF NewVersion, CandInv, Judged
  <2>5. ASSUME NEW m \in Models, NEW v \in ToSet(registry'[m])
        PROVE  /\ v.run <= run.number /\ (v.run = run.number => IsJudged(m))
               /\ v.run = run.number =>
                    v.cycle <= Len(run.cycles) \/ (v.cycle = cand.number /\ v.judged = JudgedContent(m))
    <3>1. CASE v \in ToSet(registry[m])
      BY <2>3, <2>5, <3>1 DEF EvidenceInv, OfThisRun
    <3>2. CASE v \notin ToSet(registry[m])
      BY <1>1, <2>4, <2>5, <3>2
    <3> QED
      BY <3>1, <3>2
  <2>6. ASSUME NEW c \in contracts'
        PROVE  /\ c.run <= run.number
               /\ c.run = run.number =>
                    \/ c.cycle <= Len(run.cycles)
                    \/ c.cycle = cand.number /\ (args.dual => c.calibrated = JudgedContent(c.role))
    <3>1. CASE c \in contracts
      BY <2>3, <2>6, <3>1 DEF EvidenceInv, OfThisRun
    <3>2. CASE c \notin contracts
      BY <1>1, <2>2, <2>6, <3>2
    <3> QED
      BY <3>1, <3>2
  <2>7. ASSUME NEW role \in Roles, NEW v \in ToSet(registry'[role]), NEW c \in contracts',
               c.run = v.run, c.cycle = v.cycle, c.role = role
        PROVE  c.calibrated = v.judged
    <3>1. CASE c \in contracts /\ v \in ToSet(registry[role])
      BY <2>7, <3>1 DEF EvidenceInv, ContractsOf
    <3>2. CASE c \notin contracts \/ v \notin ToSet(registry[role])
      <4>1. role \in Models /\ role # "model"
        BY DEF Models, Roles
      <4>2. v.run = run.number /\ v.cycle = cand.number /\ ~(v.cycle <= Len(run.cycles))
        BY <1>1, <2>2, <2>3, <2>4, <2>7, <3>2, <4>1
      <4>3. IsJudged(role) /\ v.judged = JudgedContent(role)
        BY <2>5, <2>7, <4>1, <4>2
      <4>4. args.dual
        BY <1>1, <4>1, <4>3, OptionsAssumption DEF IsJudged, ControlInv
      <4> QED
        BY <2>6, <2>7, <4>2, <4>3, <4>4
    <3> QED
      BY <3>1, <3>2
  <2>8. ASSUME NEW c \in contracts'
        PROVE  c.role \in Models
    <3>1. RegistryInv'
      BY <1>7, RegistrySteps DEF Next, Cycle
    <3> QED
      BY <3>1 DEF RegistryInv, Contracts, Models
  <2>9. ~Idle' => pc' \in {"registering", "closing"}
    BY <2>2 DEF Idle
  <2>10. ASSUME NEW m \in Models, NEW v \in ToSet(registry'[m])
         PROVE  /\ (v.run = run.number => IsJudged(m))'
                /\ v.run = run.number /\ ~Idle' => OfThisRun(v.cycle, v.judged = JudgedContent(m))'
    BY <2>1, <2>5, <2>9, <2>10 DEF OfThisRun
  <2>11. ASSUME NEW c \in contracts'
         PROVE  c.run = run.number /\ ~Idle' =>
                  OfThisRun(c.cycle, args.dual => c.calibrated = JudgedContent(c.role))'
    BY <2>1, <2>6, <2>8, <2>9, <2>11 DEF OfThisRun
  <2> QED
    BY <2>1, <2>5, <2>6, <2>7, <2>10, <2>11 DEF EvidenceInv, ContractsOf
<1>8. CASE CloseCycle
  <2>1. /\ args' = args /\ run'.number = run.number /\ UNCHANGED <<registry, contracts>>
        /\ Len(run'.cycles) = Len(run.cycles) + 1 /\ pc = "closing" /\ Progressive
    BY <1>8, ClosedCycle
  <2>2. cand.number = Len(run.cycles) + 1 /\ ~Idle
    BY <2>1 DEF CycleInv, Idle
  <2>3. \A m \in Models : IsJudged(m)' = IsJudged(m)
    BY <2>1 DEF IsJudged
  <2>4. ASSUME NEW m \in Models, NEW v \in ToSet(registry[m]), v.run = run.number
        PROVE  v.cycle <= Len(run'.cycles)
    <3>1. OfThisRun(v.cycle, v.judged = JudgedContent(m))
      BY <2>2, <2>4 DEF EvidenceInv
    <3> QED
      BY <1>1, <2>1, <2>2, <3>1, <2>4 DEF OfThisRun
  <2>5. ASSUME NEW c \in contracts, c.run = run.number
        PROVE  c.cycle <= Len(run'.cycles)
    <3>1. OfThisRun(c.cycle, args.dual => c.calibrated = JudgedContent(c.role))
      BY <2>2, <2>5 DEF EvidenceInv
    <3> QED
      BY <1>1, <2>1, <2>2, <3>1, <2>5 DEF OfThisRun
  <2>6. \A v, role : ContractsOf(v, role)' = ContractsOf(v, role)
    BY <2>1 DEF ContractsOf
  <2> QED
    BY <2>1, <2>3, <2>4, <2>5, <2>6 DEF EvidenceInv, OfThisRun
<1>9. CASE Finish \/ UploadTrained \/ Abort
  <2>1. UNCHANGED <<args, registry, contracts>>
    BY <1>9 DEF Finish, UploadTrained, Abort
  <2>2. run'.number = run.number
    BY <1>1, <1>9, ProcessEnded DEF Finish, UploadTrained, Abort
  <2>3. ~Idle' => run' = run /\ pc = "finishing"
    BY <1>9 DEF Finish, UploadTrained, Abort, Idle
  <2> QED
    BY <1>2, <2>1, <2>2, <2>3 DEF Idle
<1> QED
  BY <1>3, <1>4, <1>5, <1>6, <1>7, <1>8, <1>9 DEF Next, Cycle

(* A runtime whose thresholds are not those of its file, as a run may load it. *)
Uncalibrated(runtime) ==
  \E r \in Roles : \E v \in ToSet(registry[r]) :
    /\ v.run <= run.number /\ v.cycle = runtime.version /\ v.content = runtime.content
    /\ v.content # v.judged \/ ContractsOf(v, r) = {}

(* A version of the registry gives a runtime the thresholds of its contract. *)
LEMMA RegisteredIsLoaded ==
  ASSUME TypeInv, EvidenceInv, NEW role \in Roles, alias[role] # 0, NEW fallback,
         RegisteredRuntime(role, fallback).calibrated # RegisteredRuntime(role, fallback).content
  PROVE  Uncalibrated(RegisteredRuntime(role, fallback))
<1> DEFINE v == registry[role][alias[role]]
           logged == ContractsOf(v, role)
           calibrated == IF logged = {} THEN fallback.calibrated
                         ELSE (CHOOSE c \in logged : TRUE).calibrated
<1>1. RegisteredRuntime(role, fallback) = Runtime(v.cycle, v.content, calibrated)
  BY Zenon DEF RegisteredRuntime, ContractsOf
<1>2. v \in ToSet(registry[role])
  <2>1. registry[role] \in Seq(Versions) /\ alias[role] \in 1 .. Len(registry[role])
    BY DEF TypeInv, RegistryInv, Models
  <2> QED
    BY <2>1, LenProperties DEF ToSet
<1>3. v.run <= run.number
  BY <1>2 DEF EvidenceInv, Models
<1>4. logged # {} => calibrated = v.judged
  <2>1. logged # {} => calibrated = (CHOOSE c \in logged : TRUE).calibrated /\ (CHOOSE c \in logged : TRUE) \in logged
    OBVIOUS
  <2> QED
    BY <1>2, <2>1 DEF EvidenceInv
<1> HIDE DEF v, calibrated
<1>5. calibrated # v.content
  BY <1>1 DEF Runtime
<1> QED
  BY <1>1, <1>2, <1>3, <1>4, <1>5 DEF Uncalibrated, Runtime

LEMMA RuntimeSteps ==
  ASSUME TypeInv, CycleInv, EvidenceInv, RuntimeInv, [Next]_vars
  PROVE  RuntimeInv'
<1>1. /\ cand \in Candidates /\ run \in RunStates /\ ControlInv /\ CandInv /\ RegistryInv
      /\ run.number \in Nat /\ Roles \subseteq Models
      /\ \A role \in Roles : \A v \in ToSet(registry[role]) : v.run \in Nat
  <2>1. /\ cand \in Candidates /\ run \in RunStates /\ ControlInv /\ CandInv /\ RegistryInv
        /\ run.number \in Nat /\ Roles \subseteq Models /\ registry \in [Models -> Seq(Versions)]
    BY RunnerAssumption DEF TypeInv, CandInv, RunInv, RunStates, RegistryInv, Models
  <2>2. \A role \in Roles : \A v \in ToSet(registry[role]) : v \in Versions
    BY <2>1, ElementOfSeq, LenProperties DEF ToSet
  <2> QED
    BY <2>1, <2>2, RunnerAssumption DEF Versions
<1>2. ASSUME active' = active, run'.cycles = run.cycles, run'.number = run.number,
             \A role \in Roles : ToSet(registry[role]) \subseteq ToSet(registry'[role]),
             \A c \in contracts' : c \in contracts \/ c.run = run.number
      PROVE  RuntimeInv'
  <2>1. \A role \in Roles : Promotions(role)' = Promotions(role)
    BY <1>2 DEF Promotions, ModelsOf
  <2>2. ASSUME NEW runtime, NEW r \in Roles, NEW v \in ToSet(registry[r]),
               LoadedUncalibrated(runtime, v, r)
        PROVE  LoadedUncalibrated(runtime, v, r)' /\ v \in ToSet(registry'[r])
    <3>1. v.run # run.number
      BY <1>1, <2>2 DEF LoadedUncalibrated
    <3>2. ContractsOf(v, r)' \subseteq ContractsOf(v, r)
      BY <1>2, <3>1 DEF ContractsOf
    <3> QED
      BY <1>2, <2>2, <3>2 DEF LoadedUncalibrated
  <2> QED
    BY <1>2, <2>1, <2>2 DEF RuntimeInv
<1>3. CASE UNCHANGED vars
  BY <1>2, <1>3 DEF vars
<1>4. CASE ProcessEnds
  <2>1. run'.cycles = <<>> /\ active' = [role \in Roles |-> StableRuntime]
    BY <1>1, <1>4, ProcessEnded DEF ProcessEnds
  <2>2. \A role \in Roles : Promotions(role)' = {}
    BY <2>1 DEF Promotions
  <2> QED
    BY <2>1, <2>2 DEF RuntimeInv, StableRuntime, Runtime
<1>5. CASE StartRun
  <2>1. PICK found \in SUBSET Roles :
          /\ \A role \in found : alias[role] # 0
          /\ run' = [NoRun EXCEPT !.number = run.number + 1]
          /\ active' = InitialRuntimes(found)
          /\ UNCHANGED <<registry, contracts>>
    BY <1>5 DEF StartRun
  <2>2. run'.cycles = <<>> /\ run'.number = run.number + 1
    BY <2>1 DEF NoRun
  <2>3. \A role \in Roles : Promotions(role)' = {}
    BY <2>2 DEF Promotions
  <2> DEFINE classification == IF "classification" \in found
                               THEN RegisteredRuntime("classification", StableRuntime)
                               ELSE StableRuntime
             localization == IF "localization" \in found
                             THEN RegisteredRuntime("localization", classification)
                             ELSE classification
  <2>4. active' = [classification |-> classification, localization |-> localization]
    BY <2>1, Zenon DEF InitialRuntimes
  <2>5. /\ classification.calibrated # classification.content => Uncalibrated(classification)
        /\ localization.calibrated # localization.content => Uncalibrated(localization)
    BY <2>1, RegisteredIsLoaded DEF Roles, StableRuntime, Runtime
  <2> HIDE DEF classification, localization
  <2>6. ASSUME NEW runtime, Uncalibrated(runtime)
        PROVE  (\E r \in Roles : \E v \in ToSet(registry[r]) : v.run < run.number
                  /\ v.cycle = runtime.version /\ v.content = runtime.content
                  /\ (v.content # v.judged \/ ContractsOf(v, r) = {}))'
    <3>1. \A v, r : ContractsOf(v, r)' = ContractsOf(v, r)
      BY <2>1 DEF ContractsOf
    <3> QED
      BY <1>1, <2>1, <2>2, <2>6, <3>1 DEF Uncalibrated
  <2>7. \A role \in Roles : active'[role] \in {classification, localization}
    BY <2>4 DEF Roles
  <2> QED
    BY <2>3, <2>5, <2>6, <2>7 DEF RuntimeInv, LoadedUncalibrated
<1>6. CASE CloseCycle
  <2> DEFINE n == Len(run.cycles) + 1
  <2>1. /\ pc = "closing" /\ args' = args /\ run'.number = run.number /\ Progressive
        /\ UNCHANGED <<registry, contracts>>
        /\ active' = [role \in Roles |-> Activated(role)]
        /\ n \in Nat /\ n \notin DOMAIN run.cycles /\ DOMAIN run.cycles = 1 .. n - 1
        /\ DOMAIN run'.cycles = (DOMAIN run.cycles) \cup {n}
        /\ \A i \in DOMAIN run.cycles : run'.cycles[i] = run.cycles[i] /\ i < n
        /\ run'.cycles[n] = JournalEntry
    BY <1>6, ClosedCycle
  <2>2. cand.number = n /\ (run'.cycles[n]).status = cand.status
    BY <2>1 DEF CycleInv, JournalEntry
  <2> HIDE DEF n
  <2>3. \A m \in Models : Promoted(m) =>
          /\ IsJudged(m) /\ cand.calibrated[m] = JudgedContent(m)
          /\ (run'.cycles[n]).judged[m] = JudgedContent(m)
    BY <1>1, <2>1 DEF CandInv, Judged, Calibrated, CycleInv, JournalEntry
  <2>4. ASSUME NEW role \in Roles
        PROVE  /\ \A b \in Promotions(role)' :
                    \/ b \in Promotions(role) /\ b[1] \in DOMAIN run.cycles /\ b[1] # n
                    \/ b[1] = n /\ b[2] \in ModelsOf(role) /\ Promoted(b[2])
               /\ Promotions(role) \subseteq Promotions(role)'
               /\ \A m \in ModelsOf(role) : Promoted(m) => <<n, m>> \in Promotions(role)'
    <3>1. Promotions(role)' =
            {b \in ((DOMAIN run.cycles) \cup {n}) \X ModelsOf(role) :
               (run'.cycles[b[1]]).status[b[2]] = "promoted"}
      BY <2>1 DEF Promotions, ModelsOf
    <3> QED
      BY <2>1, <2>2, <3>1 DEF Promotions, Promoted
  <2>5. ASSUME NEW role \in Roles, NEW m \in ModelsOf(role), Promoted(m)
        PROVE  /\ \A b \in Promotions(role)' :
                    (\A c \in Promotions(role)' : c[1] <= b[1]) =>
                      active'[role] = Runtime(b[1], run'.cycles[b[1]].judged[b[2]],
                                              run'.cycles[b[1]].judged[b[2]])
               /\ active'[role].calibrated = active'[role].content
    <3>1. \A k \in ModelsOf(role) : k \in Models /\ (Promoted(k) => k = m)
      <4>1. ModelsOf(role) \subseteq Models /\ ModelsOf(role) \subseteq {role, "model"}
            /\ role # "model" /\ args.dual \in BOOLEAN
        BY <1>1, OptionsAssumption DEF ModelsOf, Models, Roles, ControlInv
      <4> QED
        BY <2>3, <2>5, <4>1 DEF IsJudged
    <3>2. active'[role] = Runtime(n, JudgedContent(m), JudgedContent(m))
      <4>1. active'[role] = Activated(role)
        BY <2>1
      <4>2. m = role \/ (role = "classification" /\ m = "model" /\ ~Promoted(role))
        BY <2>5, <3>1 DEF ModelsOf, Roles
      <4>3. Activated(role) = Runtime(cand.number, JudgedContent(m), cand.calibrated[m])
        BY <2>5, <4>2 DEF Activated
      <4> QED
        BY <2>2, <2>3, <2>5, <3>1, <4>1, <4>3
    <3>3. ASSUME NEW b \in Promotions(role)', \A c \in Promotions(role)' : c[1] <= b[1]
          PROVE  b[1] = n /\ (run'.cycles[n]).judged[b[2]] = JudgedContent(m)
      <4>1. <<n, m>> \in Promotions(role)'
        BY <2>4, <2>5
      <4>2. n <= b[1]
        BY <3>3, <4>1
      <4>3. b[1] = n /\ b[2] \in ModelsOf(role) /\ Promoted(b[2])
        BY <2>1, <2>4, <3>3, <4>2
      <4> QED
        BY <2>3, <3>1, <4>3
    <3> QED
      BY <3>2, <3>3 DEF Runtime
  <2>6. ASSUME NEW role \in Roles, \A m \in ModelsOf(role) : ~Promoted(m)
        PROVE  active'[role] = active[role] /\ Promotions(role)' = Promotions(role)
    <3>1. active'[role] = active[role]
      BY <2>1, <2>6 DEF Activated, ModelsOf
    <3> QED
      BY <2>4, <2>6, <3>1
  <2>7. \A runtime, v, r : LoadedUncalibrated(runtime, v, r) => LoadedUncalibrated(runtime, v, r)'
    BY <2>1 DEF LoadedUncalibrated, ContractsOf
  <2>8. ASSUME NEW role \in Roles, \A m \in ModelsOf(role) : ~Promoted(m)
        PROVE  /\ \A b \in Promotions(role)' :
                    (\A c \in Promotions(role)' : c[1] <= b[1]) =>
                      active'[role] = Runtime(b[1], run'.cycles[b[1]].judged[b[2]],
                                              run'.cycles[b[1]].judged[b[2]])
               /\ active'[role].calibrated # active'[role].content =>
                    /\ Promotions(role)' = {}
                    /\ \E r \in Roles : \E v \in ToSet(registry[r]) :
                         LoadedUncalibrated(active[role], v, r)
    <3>1. active'[role] = active[role] /\ Promotions(role)' = Promotions(role)
      BY <2>6, <2>8
    <3>2. \A b \in Promotions(role) : run'.cycles[b[1]] = run.cycles[b[1]]
      BY <2>1 DEF Promotions
    <3> QED
      BY <3>1, <3>2 DEF RuntimeInv
  <2> QED
    BY <2>1, <2>5, <2>6, <2>7, <2>8 DEF RuntimeInv
<1>7. CASE Replay
  BY <1>2, <1>7, LoopSteps
<1>8. CASE StartCycle \/ TrainEpoch \/ LogTraining \/ SelectClassification \/ Gate \/ PublishCheckpoint
  <2>1. UNCHANGED <<run, active, registry, contracts>>
    BY <1>8 DEF StartCycle, TrainEpoch, LogTraining, SelectClassification, Gate, PublishCheckpoint
  <2> QED
    BY <1>2, <2>1
<1>9. CASE RegisterModel \/ RegisteringDone
  <2>1. run' = run /\ active' = active
    BY <1>9, AfterTheGate
  <2>2. \A role \in Roles : ToSet(registry[role]) \subseteq ToSet(registry'[role])
    BY <1>1, <1>9, ModelRegistered DEF RegisteringDone
  <2>3. \A c \in contracts' : c \in contracts \/ c.run = run.number
    BY <1>9, EvidenceLogged
  <2> QED
    BY <1>2, <2>1, <2>2, <2>3
<1>10. CASE Finish
  BY <1>2, <1>4, <1>10 DEF Finish
<1>11. CASE UploadTrained \/ Abort
  BY <1>4, <1>11 DEF UploadTrained, Abort
<1> QED
  BY <1>3, <1>5, <1>6, <1>7, <1>8, <1>9, <1>10, <1>11 DEF Next, Cycle

(* The model a run replays with is the one its journal says was promoted last, decided with  *)
(* thresholds of that very file, through any number of cycles and failed calls; only a model *)
(* loaded from the registry may decide with the thresholds of another.                       *)
THEOREM ReplaysWithThePromoted == Spec => []RuntimeIsJournaled
<1>1. ASSUME RuntimeInv
      PROVE  RuntimeIsJournaled
  <2>1. ASSUME NEW v, NEW r \in Roles, NEW runtime, LoadedUncalibrated(runtime, v, r)
        PROVE  /\ v.cycle = runtime.version /\ v.content = runtime.content
               /\ \/ v.content # v.judged
                  \/ ~\E c \in contracts : c.run = v.run /\ c.cycle = v.cycle /\ c.role = r
    BY <2>1 DEF LoadedUncalibrated, ContractsOf
  <2>2. ASSUME NEW role \in Roles
        PROVE  Promotions(role) =
                 LET models == IF role = "classification" THEN {role, "model"} ELSE {role}
                 IN {b \in (DOMAIN run.cycles) \X models : run.cycles[b[1]].status[b[2]] = "promoted"}
    BY Zenon DEF Promotions, ModelsOf
  <2>3. ASSUME NEW role \in Roles
        PROVE  LET models == IF role = "classification" THEN {role, "model"} ELSE {role}
                   by == {b \in (DOMAIN run.cycles) \X models :
                            run.cycles[b[1]].status[b[2]] = "promoted"}
               IN /\ \A b \in by : (\A c \in by : c[1] <= b[1]) =>
                       active[role] = Runtime(b[1], run.cycles[b[1]].judged[b[2]],
                                              run.cycles[b[1]].judged[b[2]])
                  /\ active[role].calibrated # active[role].content =>
                       by = {} /\ \E r \in Roles : \E v \in ToSet(registry[r]) :
                         /\ v.cycle = active[role].version /\ v.content = active[role].content
                         /\ \/ v.content # v.judged
                            \/ ~\E c \in contracts : c.run = v.run /\ c.cycle = v.cycle /\ c.role = r
    <3> DEFINE models == IF role = "classification" THEN {role, "model"} ELSE {role}
               by == {b \in (DOMAIN run.cycles) \X models :
                        run.cycles[b[1]].status[b[2]] = "promoted"}
    <3>1. by = Promotions(role)
      BY <2>2, <2>3
    <3> HIDE DEF by
    <3>2. active[role].calibrated # active[role].content =>
            \E r \in Roles : \E v \in ToSet(registry[r]) : LoadedUncalibrated(active[role], v, r)
      BY <1>1, <2>3 DEF RuntimeInv
    <3>3. active[role].calibrated # active[role].content =>
            \E r \in Roles : \E v \in ToSet(registry[r]) :
              /\ v.cycle = active[role].version /\ v.content = active[role].content
              /\ \/ v.content # v.judged
                 \/ ~\E c \in contracts : c.run = v.run /\ c.cycle = v.cycle /\ c.role = r
      <4> SUFFICES ASSUME active[role].calibrated # active[role].content
                   PROVE  \E r \in Roles : \E v \in ToSet(registry[r]) :
                            /\ v.cycle = active[role].version /\ v.content = active[role].content
                            /\ \/ v.content # v.judged
                               \/ ~\E c \in contracts :
                                     c.run = v.run /\ c.cycle = v.cycle /\ c.role = r
        OBVIOUS
      <4>0. PICK r \in Roles : \E v \in ToSet(registry[r]) : LoadedUncalibrated(active[role], v, r)
        BY <3>2, Zenon
      <4>1. PICK v \in ToSet(registry[r]) : LoadedUncalibrated(active[role], v, r)
        BY <4>0, Zenon
      <4>2. /\ v.cycle = active[role].version /\ v.content = active[role].content
            /\ \/ v.content # v.judged
               \/ ~\E c \in contracts : c.run = v.run /\ c.cycle = v.cycle /\ c.role = r
        BY <2>1, <4>1, Zenon
      <4> QED
        BY <4>1, <4>2, Zenon
    <3>4. /\ \A b \in Promotions(role) : (\A c \in Promotions(role) : c[1] <= b[1]) =>
               active[role] = Runtime(b[1], run.cycles[b[1]].judged[b[2]],
                                      run.cycles[b[1]].judged[b[2]])
          /\ active[role].calibrated # active[role].content => Promotions(role) = {}
      BY <1>1, <2>3, Zenon DEF RuntimeInv
    <3>5. /\ \A b \in by : (\A c \in by : c[1] <= b[1]) =>
               active[role] = Runtime(b[1], run.cycles[b[1]].judged[b[2]],
                                      run.cycles[b[1]].judged[b[2]])
          /\ active[role].calibrated # active[role].content => by = {}
      BY <3>1, <3>4
    <3> QED
      BY <3>3, <3>5, Zenon DEF by
  <2> QED
    BY <2>3, Zenon DEF RuntimeIsJournaled
<1>2. Init => CycleInv /\ EvidenceInv /\ RuntimeInv
  <2>1. ASSUME Init
        PROVE  CycleInv /\ EvidenceInv /\ RuntimeInv
    <3>1. /\ run.cycles = <<>> /\ pc = "idle" /\ contracts = {}
          /\ registry = [m \in Models |-> <<>>] /\ active = [role \in Roles |-> StableRuntime]
      BY <2>1 DEF Init, NoRun
    <3>2. DOMAIN run.cycles = {} /\ \A m \in Models : ToSet(registry[m]) = {}
      BY <3>1 DEF ToSet
    <3>3. \A role \in Roles : Promotions(role) = {} /\ role \in Models
      BY <3>2 DEF Promotions, Models
    <3>4. RuntimeInv
      BY <3>1, <3>3 DEF RuntimeInv, StableRuntime, Runtime
    <3> QED
      BY <3>1, <3>2, <3>3, <3>4 DEF CycleInv, EvidenceInv, Selected
  <2> QED
    BY <2>1
<1>3. TypeInv /\ CycleInv /\ [Next]_vars => CycleInv'
  BY CycleInvSteps
<1>4. TypeInv /\ CycleInv /\ EvidenceInv /\ [Next]_vars => EvidenceInv'
  BY EvidenceSteps
<1>5. TypeInv /\ CycleInv /\ EvidenceInv /\ RuntimeInv /\ [Next]_vars => RuntimeInv'
  BY RuntimeSteps
<1> QED
  BY <1>1, <1>2, <1>3, <1>4, <1>5, TypeAlways, PTL DEF Spec

-----------------------------------------------------------------------------
(* An alias never moves to a worse model *)

(* The command lines AliasImproves is about. *)
FromRequiredRegistry ==
  /\ args.from_registry /\ args.require_registry /\ args.dual
  /\ args.require_fn_improvement /\ ~args.selection_manifest

AliasContent(role) == registry[role][alias[role]].content

AtLeast(role, new, old) == new = old \/ BetterForRole(role, new, old)

(* The active model is at least as good as the one the alias names, but where the cycle has *)
(* given the alias to its candidate and not yet gone on with it.                            *)
AliasInv ==
  FromRequiredRegistry /\ ~Idle =>
    \A role \in Roles :
      /\ alias[role] # 0
      /\ \/ AtLeast(role, active[role].content, AliasContent(role))
         \/ /\ pc \in {"registering", "closing"} /\ role \in cand.tried
            /\ Promoted(role) /\ AliasContent(role) = JudgedContent(role)

LEMMA AliasedTypes ==
  ASSUME TypeInv, NEW role \in Roles, alias[role] # 0
  PROVE  AliasContent(role) \in Checkpoints
<1>1. registry[role] \in Seq(Versions) /\ alias[role] \in 1 .. Len(registry[role])
  BY DEF TypeInv, RegistryInv, Models
<1>2. registry[role][alias[role]] \in Versions
  BY <1>1, ElementOfSeq
<1> QED
  BY <1>2 DEF AliasContent, Versions

(* The pair of a comparison of localization is compared on one metric, when there is one. *)
LEMMA LocalizationDelta ==
  ASSUME NEW new \in Checkpoints, NEW old \in Checkpoints, NEW delta \in Nat
  PROVE  LET metric == SelectComparableMetric(Reference, LocalizationMetrics)
         IN /\ metric # None => /\ Reference.value[new][metric] \in Int
                                /\ Reference.value[old][metric] \in Int
            /\ Improves(MetricDelta(old, new, Reference, LocalizationMetrics), delta)
                 <=> metric # None /\ Reference.value[new][metric] - Reference.value[old][metric] > delta
<1> DEFINE metric == SelectComparableMetric(Reference, LocalizationMetrics)
           present == {n \in DOMAIN LocalizationMetrics : LocalizationMetrics[n] \in Reference.metrics}
           first == CHOOSE n \in present : \A m \in present : n <= m
<1>1. metric = IF present = {} THEN None ELSE LocalizationMetrics[first]
  BY Zenon DEF SelectComparableMetric
<1>2. present # {} => first \in present
  <2>1. present \in SUBSET Nat
    BY DEF LocalizationMetrics
  <2> QED
    BY <2>1, LeastNumber
<1>3. metric # None => metric \in Reference.metrics
  BY <1>1, <1>2
<1> HIDE DEF metric
<1>4. metric # None => /\ Reference.value[new][metric] \in Int
                       /\ Reference.value[old][metric] \in Int
  BY <1>3, ReferenceAssumption DEF IsPanel
<1>5. MetricDelta(old, new, Reference, LocalizationMetrics)
        = IF metric = None THEN None ELSE Reference.value[new][metric] - Reference.value[old][metric]
  BY DEF MetricDelta, metric
<1>6. metric # None => Reference.value[new][metric] - Reference.value[old][metric] # None
  BY <1>4, NoneAssumption
<1> QED
  BY <1>4, <1>5, <1>6 DEF Improves, metric

(* Better than one that is at least as good is better. *)
LEMMA BetterIsTransitive ==
  ASSUME NEW role \in Roles, NEW x \in Checkpoints, NEW y \in Checkpoints, NEW z \in Checkpoints,
         BetterForRole(role, x, y), AtLeast(role, y, z)
  PROVE  BetterForRole(role, x, z)
<1>1. CASE role = "classification"
  <2>1. \A c \in Checkpoints : FalseNegatives(c, Reference) \in Int
    BY ReferenceAssumption, CountsAreNumbers
  <2> QED
    BY <1>1, <2>1 DEF AtLeast, BetterForRole
<1>2. CASE role # "classification"
  <2> DEFINE metric == SelectComparableMetric(Reference, LocalizationMetrics)
             value(c) == Reference.value[c][metric]
  <2>1. \A new, old \in Checkpoints :
          /\ metric # None => value(new) \in Int /\ value(old) \in Int
          /\ BetterForRole(role, new, old) <=> metric # None /\ value(new) - value(old) > 0
    BY <1>2, LocalizationDelta DEF BetterForRole
  <2> HIDE DEF metric, value
  <2> QED
    BY <2>1 DEF AtLeast
<1> QED
  BY <1>1, <1>2

(* What the gate promotes for a role is better for it than the active model. *)
LEMMA PromotedIsBetter ==
  ASSUME TypeInv, CycleInv, GateJudgesTheFiles, FromRequiredRegistry,
         pc \in {"registering", "closing"}, NEW role \in Roles, Promoted(role)
  PROVE  /\ JudgedContent(role) \in Checkpoints
         /\ BetterForRole(role, JudgedContent(role), active[role].content)
<1> DEFINE files == [r \in ToSet(Compared) |-> r.content]
<1>1. /\ role \in Models /\ args.mode = "progressive-train" /\ args \in Options
      /\ args.localization_min_delta \in Nat
      /\ \A r \in Roles : active[r].content \in Checkpoints
  BY OptionsAssumption
  DEF TypeInv, ControlInv, ActiveInv, RuntimeType, CycleInv, Models, Selected
<1>2. JudgedContent(role) \in Checkpoints
  BY <1>1 DEF TypeInv, CandInv, Judged, Calibrated
<1>3. cand.status = GateStatus(files)
  BY <1>1 DEF GateJudgesTheFiles
<1>4. /\ active.localization \in DOMAIN files /\ Candidate(cand.localization) \in DOMAIN files
      /\ active.classification \in DOMAIN files /\ Candidate(cand.classification) \in DOMAIN files
  BY DEF FromRequiredRegistry, Compared, ToSet
<1>5. /\ files[active.localization] = active.localization.content
      /\ files[active.classification] = active.classification.content
      /\ files[Candidate(cand.localization)] = cand.localization
      /\ files[Candidate(cand.classification)] = cand.classification
  BY <1>4 DEF Candidate, Runtime
<1> HIDE DEF files
<1>6. GatePanel = Reference /\ ~P4Objective(args)
  BY DEF FromRequiredRegistry, GatePanel, P4Objective
<1>7. /\ cand.status["localization"]
           = LocalizationStatus(args, active.localization.content, cand.localization, Reference)
      /\ cand.status["classification"]
           = ClassificationStatus(args, active.classification.content, cand.classification, Reference)
  BY <1>3, <1>5, <1>6 DEF FromRequiredRegistry, GateStatus, DualStatus
<1>8. CASE role = "localization"
  <2>1. Improves(MetricDelta(active["localization"].content, cand.localization, Reference,
                             LocalizationMetrics), args.localization_min_delta)
    BY <1>6, <1>7, <1>8 DEF Promoted, LocalizationStatus, LocalizationPassed
  <2>2. JudgedContent(role) = cand.localization
    BY <1>8 DEF JudgedContent
  <2> DEFINE metric == SelectComparableMetric(Reference, LocalizationMetrics)
             value(c) == Reference.value[c][metric]
             old == active["localization"].content
  <2>3. /\ metric # None => value(cand.localization) \in Int /\ value(old) \in Int
        /\ metric # None /\ value(cand.localization) - value(old) > args.localization_min_delta
        /\ BetterForRole(role, cand.localization, old)
             <=> metric # None /\ value(cand.localization) - value(old) > 0
    BY <1>1, <1>2, <1>8, <2>1, <2>2, LocalizationDelta DEF BetterForRole, Roles
  <2> HIDE DEF metric, value
  <2> QED
    BY <1>1, <1>2, <1>8, <2>2, <2>3
<1>9. CASE role = "classification"
  <2>1. ClassificationMetricOk(args, active["classification"].content, cand.classification, Reference)
    BY <1>7, <1>9 DEF Promoted, ClassificationStatus
  <2>2. JudgedContent(role) = cand.classification
    BY <1>9 DEF JudgedContent
  <2>3. /\ FalseNegatives(cand.classification, Reference) \in Int
        /\ FalseNegatives(active["classification"].content, Reference) \in Int
    BY <1>1, <1>2, <1>9, <2>2, ReferenceAssumption, CountsAreNumbers DEF Roles
  <2>4. FalseNegatives(cand.classification, Reference)
          - FalseNegatives(active["classification"].content, Reference) < 0
    BY <1>6, <2>1 DEF ClassificationMetricOk, FromRequiredRegistry
  <2> QED
    BY <1>2, <1>9, <2>2, <2>3, <2>4 DEF BetterForRole
<1> QED
  BY <1>8, <1>9 DEF Roles

(* The alias of a role only moves to the file its cycle judged and promoted. *)
LEMMA NewAlias ==
  ASSUME TypeInv, FilesInv, FromRequiredRegistry, RegisterModel, NEW role \in Roles,
         alias'[role] # alias[role]
  PROVE  /\ role \notin cand.tried /\ role \in cand'.tried /\ Promoted(role)
         /\ AliasContent(role)' = JudgedContent(role)
<1>1. /\ role \in Models /\ pc = "registering" /\ role = NextPromoted(cand.tried)
      /\ registry'[role][alias'[role]] = NewVersion(role)
      /\ LoggedModels(cand.dir)[role] # None
  BY ModelRegistered DEF Models
<1>2. /\ cand.localization = SpecializedFile(cand.dir, "localization")
      /\ cand.classification = SpecializedFile(cand.dir, "classification")
  BY <1>1 DEF FilesInv, FromRequiredRegistry, Selected
<1>3. LoggedModels(cand.dir)[role] = JudgedContent(role)
  BY <1>1, <1>2 DEF LoggedModels, SpecializedFile, JudgedContent, Roles
<1>4. AliasContent(role)' = LoggedModels(cand.dir)[role]
  BY <1>1 DEF AliasContent, NewVersion
<1> QED
  BY <1>1, <1>3, <1>4, ModelRegistered

(* The active model of a role is at least as good as the one its alias names, until a cycle *)
(* that has given the alias to its candidate is closed.                                     *)
LEMMA AliasSteps ==
  ASSUME TypeInv, CycleInv, FilesInv, GateJudgesTheFiles, AliasInv, [Next]_vars
  PROVE  AliasInv'
<1>1. /\ ControlInv /\ CandInv /\ RegistryInv /\ Roles \subseteq Models
      /\ \A role \in Roles : active[role].content \in Checkpoints
      /\ \A role \in Roles : alias[role] # 0 => AliasContent(role) \in Checkpoints
  BY AliasedTypes DEF TypeInv, ActiveInv, RuntimeType, Models
<1>2. ASSUME UNCHANGED <<args, active, registry, alias>>,
             ~Idle' =>
               /\ ~Idle
               /\ \/ pc \notin {"registering", "closing"}
                  \/ /\ pc' \in {"registering", "closing"} /\ cand'.tried = cand.tried
                     /\ \A m \in Models : JudgedContent(m)' = JudgedContent(m)
                                          /\ Promoted(m)' = Promoted(m)
      PROVE  AliasInv'
  <2>1. FromRequiredRegistry' = FromRequiredRegistry
    BY <1>2 DEF FromRequiredRegistry
  <2>2. \A role \in Roles : AliasContent(role)' = AliasContent(role)
    BY <1>2 DEF AliasContent
  <2> QED
    BY <1>1, <1>2, <2>1, <2>2 DEF AliasInv, AtLeast, BetterForRole
<1>3. CASE UNCHANGED vars
  <2>1. UNCHANGED <<args, pc, cand, active, registry, alias>>
    BY <1>3 DEF vars
  <2>2. \A m \in Models : JudgedContent(m)' = JudgedContent(m) /\ Promoted(m)' = Promoted(m)
    BY <2>1 DEF JudgedContent, Promoted
  <2> QED
    BY <1>2, <2>1, <2>2 DEF Idle
<1>4. CASE StartRun
  <2> SUFFICES ASSUME FromRequiredRegistry', ~Idle', NEW role \in Roles
               PROVE  alias'[role] # 0 /\ active'[role].content = AliasContent(role)'
    BY DEF AliasInv, AtLeast
  <2>1. /\ UNCHANGED <<registry, alias>> /\ active' = InitialRuntimes(Roles)
        /\ \A r \in Roles : alias[r] # 0
    BY <1>4 DEF StartRun, FromRequiredRegistry, Idle
  <2>2. \A fallback : RegisteredRuntime(role, fallback).content = AliasContent(role)
    BY DEF RegisteredRuntime, Runtime, AliasContent
  <2>3. \E fallback : active'[role] = RegisteredRuntime(role, fallback)
    BY <2>1 DEF InitialRuntimes, Roles
  <2>4. AliasContent(role)' = AliasContent(role)
    BY <2>1 DEF AliasContent
  <2> QED
    BY <2>1, <2>2, <2>3, <2>4
<1>5. CASE Replay
  <2>1. /\ UNCHANGED <<args, active, registry, alias>> /\ pc \in {"replaying", "left", "last_lot"}
    BY <1>5, LoopSteps
  <2> QED
    BY <1>2, <2>1 DEF Idle
<1>6. CASE StartCycle \/ TrainEpoch \/ LogTraining \/ SelectClassification \/ Gate \/ PublishCheckpoint
  <2>1. /\ UNCHANGED <<args, active, registry, alias>>
        /\ pc \in {"cycle", "training", "selecting", "gate", "publishing"}
    BY <1>6 DEF StartCycle, TrainEpoch, LogTraining, SelectClassification, Gate, PublishCheckpoint
  <2> QED
    BY <1>2, <2>1 DEF Idle
<1>7. CASE RegisterModel
  <2> SUFFICES ASSUME FromRequiredRegistry', ~Idle', NEW role \in Roles
               PROVE  /\ alias'[role] # 0
                      /\ \/ AtLeast(role, active'[role].content, AliasContent(role)')
                         \/ /\ pc' \in {"registering", "closing"} /\ role \in cand'.tried
                            /\ Promoted(role)' /\ AliasContent(role)' = JudgedContent(role)'
    BY DEF AliasInv, AtLeast, BetterForRole
  <2>1. /\ args' = args /\ active' = active /\ pc = "registering" /\ pc' \in {"registering", "failed"}
        /\ Promoted(role)' = Promoted(role) /\ JudgedContent(role)' = JudgedContent(role)
    BY <1>1, <1>7, AfterTheGate DEF RegisterModel
  <2>2. FromRequiredRegistry /\ ~Idle /\ pc' = "registering"
    BY <2>1 DEF FromRequiredRegistry, Idle
  <2>3. CASE alias'[role] # alias[role]
    <3>1. alias'[role] # 0
      BY <1>1, <1>7, <2>3, ModelRegistered
    <3> QED
      BY <1>7, <2>1, <2>2, <2>3, <3>1, NewAlias
  <2>4. CASE alias'[role] = alias[role]
    <3>1. alias[role] # 0
      BY <2>2 DEF AliasInv
    <3>2. AliasContent(role)' = AliasContent(role) /\ cand.tried \subseteq cand'.tried
      BY <1>1, <1>7, <2>4, <3>1, ModelRegistered DEF AliasContent
    <3> QED
      BY <2>1, <2>2, <2>4, <3>1, <3>2 DEF AliasInv
  <2> QED
    BY <2>3, <2>4
<1>8. CASE RegisteringDone
  <2>1. /\ UNCHANGED <<args, active, registry, alias, cand>> /\ pc = "registering" /\ pc' = "closing"
    BY <1>8 DEF RegisteringDone
  <2>2. \A m \in Models : JudgedContent(m)' = JudgedContent(m) /\ Promoted(m)' = Promoted(m)
    BY <2>1 DEF JudgedContent, Promoted
  <2> QED
    BY <1>2, <2>1, <2>2 DEF Idle
<1>9. CASE CloseCycle
  <2> SUFFICES ASSUME FromRequiredRegistry', NEW role \in Roles
               PROVE  /\ alias'[role] # 0
                      /\ AtLeast(role, active'[role].content, AliasContent(role)')
    BY DEF AliasInv, AtLeast, BetterForRole
  <2>1. /\ args' = args /\ UNCHANGED <<registry, alias>> /\ pc = "closing"
        /\ active'[role] = Activated(role)
    BY <1>9, ClosedCycle
  <2>2. FromRequiredRegistry /\ ~Idle /\ AliasContent(role)' = AliasContent(role)
    BY <2>1 DEF FromRequiredRegistry, Idle, AliasContent
  <2>3. /\ alias[role] # 0
        /\ \/ AtLeast(role, active[role].content, AliasContent(role))
           \/ Promoted(role) /\ AliasContent(role) = JudgedContent(role)
    BY <2>2 DEF AliasInv
  <2>4. CASE Promoted(role)
    <3>1. active'[role].content = JudgedContent(role)
      BY <2>1, <2>4 DEF Activated, Runtime
    <3>2. /\ JudgedContent(role) \in Checkpoints
          /\ BetterForRole(role, JudgedContent(role), active[role].content)
      BY <2>1, <2>2, <2>4, PromotedIsBetter
    <3>3. CASE AliasContent(role) = JudgedContent(role)
      BY <2>1, <2>2, <2>3, <3>1, <3>3 DEF AtLeast
    <3>4. CASE AtLeast(role, active[role].content, AliasContent(role))
      <4>1. BetterForRole(role, JudgedContent(role), AliasContent(role))
        BY <1>1, <2>3, <3>2, <3>4, BetterIsTransitive
      <4> QED
        BY <2>1, <2>2, <2>3, <3>1, <4>1 DEF AtLeast
    <3> QED
      BY <2>3, <3>3, <3>4
  <2>5. CASE ~Promoted(role)
    <3>1. ~Promoted("model")
      BY <1>1, <2>1, <2>2 DEF CandInv, Judged, IsJudged, FromRequiredRegistry, Models
    <3>2. active'[role] = active[role]
      BY <2>1, <2>5, <3>1 DEF Activated
    <3> QED
      BY <2>1, <2>2, <2>3, <2>5, <3>2
  <2> QED
    BY <2>4, <2>5
<1>10. CASE Finish \/ UploadTrained \/ Abort
  <2>1. CASE Idle'
    BY <2>1 DEF AliasInv
  <2>2. CASE ~Idle'
    <3>1. UNCHANGED <<args, active, registry, alias>> /\ pc = "finishing"
      BY <1>10, <2>2 DEF Finish, UploadTrained, Abort, Idle
    <3> QED
      BY <1>2, <3>1 DEF Idle
  <2> QED
    BY <2>1, <2>2
<1> QED
  BY <1>3, <1>4, <1>5, <1>6, <1>7, <1>8, <1>9, <1>10 DEF Next, Cycle

(* When runs start from a registry they require, the alias of a role only moves to a better    *)
(* model: one that misses fewer defects, or localizes better, over any number of cycles and of *)
(* runs and wherever they fail.                                                                *)
THEOREM AliasOnlyImproves == Spec => AliasImproves
<1> DEFINE Improved ==
             \A role \in Roles :
               /\ alias'[role] # alias[role] /\ alias[role] # 0
               /\ args.from_registry /\ args.require_registry
               /\ args.dual /\ args.require_fn_improvement /\ ~args.selection_manifest
               => BetterForRole(role, registry'[role][alias'[role]].content,
                                registry[role][alias[role]].content)
<1>1. ASSUME TypeInv, CycleInv, FilesInv, GateJudgesTheFiles, AliasInv, [Next]_vars
      PROVE  [Improved]_vars
  <2> SUFFICES ASSUME NEW role \in Roles, FromRequiredRegistry,
                      alias'[role] # alias[role], alias[role] # 0
               PROVE  BetterForRole(role, AliasContent(role)', AliasContent(role))
    BY Zenon DEF FromRequiredRegistry, AliasContent
  <2>1. RegisterModel
    <3>1. ~(UNCHANGED alias)
      OBVIOUS
    <3>2. Next
      BY <1>1, <3>1 DEF vars
    <3>3. ~Replay
      BY <1>1, <3>1, LoopSteps
    <3> QED
      BY <3>1, <3>2, <3>3
      DEF Next, Cycle, StartRun, StartCycle, TrainEpoch, LogTraining, SelectClassification, Gate,
          PublishCheckpoint, RegisteringDone, CloseCycle, Finish, UploadTrained, Abort
  <2>2. /\ pc = "registering" /\ ~Idle
        /\ role \notin cand.tried /\ Promoted(role) /\ AliasContent(role)' = JudgedContent(role)
    BY <1>1, <2>1, NewAlias DEF RegisterModel, Idle
  <2>3. AtLeast(role, active[role].content, AliasContent(role))
    BY <1>1, <2>2 DEF AliasInv
  <2>4. /\ JudgedContent(role) \in Checkpoints
        /\ BetterForRole(role, JudgedContent(role), active[role].content)
    BY <1>1, <2>2, PromotedIsBetter
  <2>5. active[role].content \in Checkpoints /\ AliasContent(role) \in Checkpoints
    BY <1>1, AliasedTypes DEF TypeInv, ActiveInv, RuntimeType
  <2> QED
    BY <2>2, <2>3, <2>4, <2>5, BetterIsTransitive
<1>2. Init => CycleInv /\ AliasInv
  BY DEF Init, NoRun, CycleInv, AliasInv, Idle, Selected
<1>3. TypeInv /\ CycleInv /\ [Next]_vars => CycleInv'
  BY CycleInvSteps
<1>4. TypeInv /\ FilesInv /\ [Next]_vars => FilesInv'
  BY FilesSteps
<1>5. TypeInv /\ CycleInv /\ FilesInv /\ GateJudgesTheFiles /\ AliasInv /\ [Next]_vars => AliasInv'
  BY AliasSteps
<1>6. AliasImproves <=> [][Improved]_vars
  BY PTL DEF AliasImproves
<1> QED
  BY <1>1, <1>2, <1>3, <1>4, <1>5, <1>6, FilesInit, GateIsFaithful, TypeAlways, PTL DEF Spec
=============================================================================

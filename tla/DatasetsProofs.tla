--------------------------- MODULE DatasetsProofs ---------------------------
(***************************************************************************)
(* Theorems about Datasets, for every source manifest, every set of labels *)
(* and all arguments of the scripts: what is on disk is of one build of    *)
(* each script, and the panels and the drift plan are what they should be. *)
(***************************************************************************)
EXTENDS Datasets, SplitsProofs

-----------------------------------------------------------------------------
(* The files a script leaves, whatever runs before, between and after. *)

(* What each script computes in one run: the files it writes, and their rows. *)
SourceRows(name) == IF name = "natural" THEN PieceRows(Natural) ELSE FullReplay

SplitFiles(bd, a) ==
  LET rows == SourceRows(a.source)
      panel == Holdout(rows, bd, DefectTargets, a.total)
  IN {[file |-> "train", rows |-> TrainRows(rows, panel)], [file |-> "gate", rows |-> panel]}

GatePanel(bd, total) ==
  GateDefects(bd, Reserves.repr \cup Reserves.gate1)
  \cup GateGoods(PieceRows(Natural), bd,
                 Natural \cup Reserves.boot \cup Reserves.calib \cup Reserves.repr, total)

GateV2Files(bd, total) == {[file |-> "gate_v2", rows |-> PieceRows(GatePanel(bd, total))]}

MinimalFiles(bd) ==
  LET split == Minimal(bd, MinimalCounts)
  IN {[file |-> "min_boot", rows |-> PieceRows(split.boot)],
      [file |-> "min_valid", rows |-> PieceRows(split.valid)],
      [file |-> "min_replay", rows |-> PieceRows(split.replay)]}

FullFiles == {[file |-> "full_valid", rows |-> PieceRows(FullValidation)],
              [file |-> "full_masks", rows |-> <<>>], [file |-> "full", rows |-> FullReplay]}

PlanFiles(bd, a) ==
  LET plan == DriftPlan(FullReplay, bd, a)
      selection == SelectionRows(plan)
  IN {[file |-> "plan", rows |-> plan]}
     \cup (IF selection = <<>> THEN {} ELSE {[file |-> "selection", rows |-> selection]})

ObserveFiles(bd, n, plan) ==
  LET context == First(RowsOf(plan, DriftPhases), n)
  IN {[file |-> "context", rows |-> context],
      [file |-> "anchors", rows |-> Anchors(plan, bd, n)],
      [file |-> "eval", rows |-> context \o EvalStable(plan, bd, n)]}

Plans(bd) == {DriftPlan(FullReplay, bd, a) : a \in PlanArgs}

Args(script) ==
  CASE script = "split" -> [source : {"natural", "full"}, total : Totals]
    [] script = "gate_v2" -> Totals
    [] script = "minimal" -> {MinimalCounts}
    [] script = "full" -> {"full"}
    [] script = "plan" -> PlanArgs
    [] script = "observe" -> Observed

(* All that a run of a script with these arguments may compute. *)
Builds(bd, script, a) ==
  CASE script = "split" -> {SplitFiles(bd, a)}
    [] script = "gate_v2" -> {GateV2Files(bd, a)}
    [] script = "minimal" -> {MinimalFiles(bd)}
    [] script = "full" -> {FullFiles}
    [] script = "plan" -> {PlanFiles(bd, a)}
    [] script = "observe" -> {ObserveFiles(bd, a, plan) : plan \in Plans(bd)}

(* The script that writes a file. *)
Owner(file) ==
  CASE file \in {"train", "gate"} -> "split"
    [] file = "gate_v2" -> "gate_v2"
    [] file \in {"min_boot", "min_valid", "min_replay"} -> "minimal"
    [] file \in {"full_valid", "full_masks", "full"} -> "full"
    [] file \in {"plan", "selection"} -> "plan"
    [] file \in {"context", "anchors", "eval"} -> "observe"

(* The files are those of one build of the script. *)
HasBuilt(bd, fs, script, a) ==
  /\ a \in Args(script)
  /\ \E build \in Builds(bd, script, a) : \A write \in build : fs[write.file] = write.rows

(* The build is on disk or still to write. *)
IsBuilding(bd, fs, script, a, writes) ==
  /\ script \in Scripts /\ a \in Args(script)
  /\ \E build \in Builds(bd, script, a) :
       /\ writes \in Seq(build)
       /\ \A write \in build : \/ fs[write.file] = write.rows
                               \/ \E i \in 1..Len(writes) : writes[i] = write

(* A script that read a torn file writes torn files of its own, and no other. *)
TornWrites(script) == {w \in [file : Files, rows : {Torn}] : Owner(w.file) = script}

IsSpoiling(script, args, writes) == script \in Scripts /\ args = None /\ writes \in Seq(TornWrites(script))

(* The files of a script that ended, and that no later run of it has begun to overwrite, are all *)
(* from one run, whatever other scripts wrote and wherever runs were killed.                      *)
BuildsAreWhole ==
  \A script \in Scripts : made[script] # None => HasBuilt(bad, files, script, made[script])

InProgress ==
  job # None =>
    /\ DOMAIN job = {"script", "args", "writes"} /\ made[job.script] = None
    /\ \/ IsBuilding(bad, files, job.script, job.args, job.writes)
       \/ IsSpoiling(job.script, job.args, job.writes)

SourcesAreWhole == files.full \in {None, Torn, FullReplay} /\ files.plan \in {None, Torn} \cup Plans(bad)

DatasetsInv ==
  /\ bad \in Labels /\ DOMAIN files = Files /\ DOMAIN made = Scripts
  /\ SourcesAreWhole /\ BuildsAreWhole /\ InProgress

IsBuild(build, bd, script) ==
  /\ \A write \in build :
       /\ write.file \in Files /\ Owner(write.file) = script
       /\ write.file = "full" => write.rows = FullReplay
       /\ write.file = "plan" => write.rows \in Plans(bd)
  /\ \A v, w \in build : v.file = w.file => v.rows = w.rows

(* A build has its script's files and no other, each of them once. *)
LEMMA BuildsAre ==
  ASSUME NEW bd, NEW script \in Scripts, NEW a \in Args(script), NEW build \in Builds(bd, script, a)
  PROVE  IsBuild(build, bd, script)
<1>1. CASE script = "split"
  <2> DEFINE x == TrainRows(SourceRows(a.source),
                            Holdout(SourceRows(a.source), bd, DefectTargets, a.total))
             y == Holdout(SourceRows(a.source), bd, DefectTargets, a.total)
  <2>1. build = {[file |-> "train", rows |-> x], [file |-> "gate", rows |-> y]}
    BY <1>1 DEF Builds, SplitFiles
  <2> HIDE DEF x, y
  <2> QED
    BY <1>1, <2>1 DEF IsBuild, Owner, Files
<1>2. CASE script = "gate_v2"
  <2>1. build = {[file |-> "gate_v2", rows |-> PieceRows(GatePanel(bd, a))]}
    BY <1>2 DEF Builds, GateV2Files
  <2> QED
    BY <1>2, <2>1 DEF IsBuild, Owner, Files
<1>3. CASE script = "minimal"
  <2> DEFINE x == PieceRows(Minimal(bd, MinimalCounts).boot)
             y == PieceRows(Minimal(bd, MinimalCounts).valid)
             z == PieceRows(Minimal(bd, MinimalCounts).replay)
  <2>1. build = {[file |-> "min_boot", rows |-> x], [file |-> "min_valid", rows |-> y],
                 [file |-> "min_replay", rows |-> z]}
    BY <1>3 DEF Builds, MinimalFiles
  <2> HIDE DEF x, y, z
  <2> QED
    BY <1>3, <2>1 DEF IsBuild, Owner, Files
<1>4. CASE script = "full"
  <2> DEFINE x == PieceRows(FullValidation)
  <2>1. build = {[file |-> "full_valid", rows |-> x], [file |-> "full_masks", rows |-> <<>>],
                 [file |-> "full", rows |-> FullReplay]}
    BY <1>4 DEF Builds, FullFiles
  <2> HIDE DEF x
  <2> QED
    BY <1>4, <2>1 DEF IsBuild, Owner, Files
<1>5. CASE script = "plan"
  <2> DEFINE x == DriftPlan(FullReplay, bd, a)
             y == SelectionRows(x)
  <2>1. a \in PlanArgs
    BY <1>5 DEF Args
  <2>2. x \in Plans(bd)
    BY <2>1 DEF Plans
  <2>3. build = {[file |-> "plan", rows |-> x]}
                \cup (IF y = <<>> THEN {} ELSE {[file |-> "selection", rows |-> y]})
    BY <1>5 DEF Builds, PlanFiles
  <2> HIDE DEF x, y
  <2> QED
    BY <1>5, <2>2, <2>3 DEF IsBuild, Owner, Files
<1>6. CASE script = "observe"
  <2>1. PICK plan \in Plans(bd) : build = ObserveFiles(bd, a, plan)
    BY <1>6 DEF Builds
  <2> DEFINE x == First(RowsOf(plan, DriftPhases), a)
             y == Anchors(plan, bd, a)
             z == x \o EvalStable(plan, bd, a)
  <2>2. build = {[file |-> "context", rows |-> x], [file |-> "anchors", rows |-> y],
                 [file |-> "eval", rows |-> z]}
    BY <2>1 DEF ObserveFiles
  <2> HIDE DEF x, y, z
  <2> QED
    BY <1>6, <2>2 DEF IsBuild, Owner, Files
<1> QED
  BY <1>1, <1>2, <1>3, <1>4, <1>5, <1>6 DEF Scripts

(* A script that starts leaves the files as they are, and its own without a promise. *)
LEMMA BeginLeaves ==
  ASSUME DatasetsInv, NEW script \in Scripts, NEW args, NEW writes, Begin(script, args, writes),
         IsBuilding(bad, files, script, args, writes) \/ IsSpoiling(script, args, writes)
  PROVE  DatasetsInv'
<1>1. /\ job' = [script |-> script, args |-> args, writes |-> writes]
      /\ made' = [made EXCEPT ![script] = None] /\ bad' = bad /\ files' = files
  BY DEF Begin
<1>2. DOMAIN made = Scripts
  BY DEF DatasetsInv
<1>3. DOMAIN made' = Scripts /\ made'[script] = None /\ \A s \in Scripts \ {script} : made'[s] = made[s]
  BY <1>1, <1>2
<1>4. bad' \in Labels /\ DOMAIN files' = Files /\ SourcesAreWhole'
  BY <1>1 DEF DatasetsInv, SourcesAreWhole, Plans
<1>5. BuildsAreWhole'
  <2> SUFFICES ASSUME NEW s \in Scripts, made'[s] # None PROVE HasBuilt(bad', files', s, made'[s])
    BY DEF BuildsAreWhole
  <2>1. s # script /\ made'[s] = made[s]
    BY <1>3
  <2> QED
    BY <1>1, <2>1 DEF DatasetsInv, BuildsAreWhole
<1>6. InProgress'
  <2>1. /\ DOMAIN job' = {"script", "args", "writes"}
        /\ job'.script = script /\ job'.args = args /\ job'.writes = writes
    BY <1>1
  <2> QED
    BY <1>1, <1>3, <2>1 DEF InProgress
<1> QED
  BY <1>3, <1>4, <1>5, <1>6 DEF DatasetsInv

(* A script that has read its inputs still has its whole build to write. *)
LEMMA BeginKeeps ==
  ASSUME DatasetsInv, NEW script \in Scripts, NEW args \in Args(script),
         NEW build \in Builds(bad, script, args), NEW writes \in Seq(build),
         \A write \in build : \E i \in 1..Len(writes) : writes[i] = write,
         Begin(script, args, writes)
  PROVE  DatasetsInv'
<1>1. IsBuilding(bad, files, script, args, writes)
  BY Zenon DEF IsBuilding
<1> QED
  BY <1>1, BeginLeaves

(* A file that is written, or cut, is none of another script's; nothing but a replay or a plan, *)
(* whole or torn, comes under the name of one.                                                   *)
FileChanges(f, rows) ==
  /\ f \in Files /\ bad' = bad /\ files' = [files EXCEPT ![f] = rows]
  /\ f = "full" => rows \in {Torn, FullReplay}
  /\ f = "plan" => rows \in {Torn} \cup Plans(bad)

LEMMA FileKeeps ==
  ASSUME DatasetsInv, NEW f, NEW rows, FileChanges(f, rows)
  PROVE  /\ bad' \in Labels /\ DOMAIN files' = Files /\ SourcesAreWhole'
         /\ files'[f] = rows /\ \A g \in Files \ {f} : files'[g] = files[g]
         /\ \A t \in Scripts \ {Owner(f)} : made[t] # None => HasBuilt(bad, files', t, made[t])
<1>1. /\ DOMAIN files = Files /\ DOMAIN made = Scripts /\ bad \in Labels
      /\ SourcesAreWhole /\ BuildsAreWhole
  BY DEF DatasetsInv
<1>2. DOMAIN files' = Files /\ files'[f] = rows /\ \A g \in Files \ {f} : files'[g] = files[g]
  BY <1>1 DEF FileChanges
<1>3. SourcesAreWhole'
  <2>1. files'["full"] \in {None, Torn, FullReplay}
    BY <1>1, <1>2 DEF SourcesAreWhole, Files, FileChanges
  <2>2. files'["plan"] \in {None, Torn} \cup Plans(bad)
    BY <1>1, <1>2 DEF SourcesAreWhole, Files, FileChanges
  <2> QED
    BY <2>1, <2>2 DEF SourcesAreWhole, Plans, FileChanges
<1>4. ASSUME NEW t \in Scripts, t # Owner(f), made[t] # None PROVE HasBuilt(bad, files', t, made[t])
  <2>1. HasBuilt(bad, files, t, made[t])
    BY <1>1, <1>4 DEF BuildsAreWhole
  <2>2. PICK b \in Builds(bad, t, made[t]) : \A write \in b : files[write.file] = write.rows
    BY <2>1 DEF HasBuilt
  <2>3. IsBuild(b, bad, t)
    BY <2>1, <2>2, BuildsAre DEF HasBuilt
  <2>4. ASSUME NEW write \in b PROVE files'[write.file] = write.rows
    <3>1. write.file \in Files /\ Owner(write.file) = t
      BY <2>3 DEF IsBuild
    <3>2. write.file # f
      BY <1>4, <3>1
    <3> QED
      BY <1>2, <2>2, <3>1, <3>2
  <2> QED
    BY <2>1, <2>2, <2>4 DEF HasBuilt
<1> QED
  BY <1>1, <1>2, <1>3, <1>4 DEF FileChanges

(* What a running script writes next is a file of its own. *)
LEMMA NextFile ==
  ASSUME DatasetsInv, job # None, job.writes # <<>>
  PROVE  LET w == Head(job.writes) IN
         /\ w.file \in Files /\ Owner(w.file) = job.script
         /\ w.file = "full" => w.rows \in {Torn, FullReplay}
         /\ w.file = "plan" => w.rows \in {Torn} \cup Plans(bad)
<1>1. CASE IsSpoiling(job.script, job.args, job.writes)
  <2>1. Head(job.writes) \in TornWrites(job.script)
    BY <1>1 DEF IsSpoiling
  <2> QED
    BY <2>1 DEF TornWrites
<1>2. CASE IsBuilding(bad, files, job.script, job.args, job.writes)
  <2>1. PICK build \in Builds(bad, job.script, job.args) : job.writes \in Seq(build)
    BY <1>2 DEF IsBuilding
  <2>2. IsBuild(build, bad, job.script)
    BY <1>2, BuildsAre DEF IsBuilding
  <2>3. Head(job.writes) \in build
    BY <2>1
  <2> QED
    BY <2>2, <2>3 DEF IsBuild
<1> QED
  BY <1>1, <1>2 DEF DatasetsInv, InProgress

(* Of its build, what is not left to write is on disk. *)
LEMMA BuildGoesOn ==
  ASSUME NEW fs, DOMAIN fs = Files, NEW script, NEW args, NEW writes, writes # <<>>,
         IsBuilding(bad, fs, script, args, writes)
  PROVE  IsBuilding(bad, [fs EXCEPT ![Head(writes).file] = Head(writes).rows], script, args, Tail(writes))
<1> DEFINE w == Head(writes)
           rest == Tail(writes)
           gs == [fs EXCEPT ![w.file] = w.rows]
<1>1. /\ script \in Scripts /\ args \in Args(script)
      /\ \E build \in Builds(bad, script, args) :
           /\ writes \in Seq(build)
           /\ \A write \in build : \/ fs[write.file] = write.rows
                                   \/ \E i \in 1..Len(writes) : writes[i] = write
  BY DEF IsBuilding
<1>2. PICK build \in Builds(bad, script, args) :
           /\ writes \in Seq(build)
           /\ \A write \in build : \/ fs[write.file] = write.rows
                                   \/ \E i \in 1..Len(writes) : writes[i] = write
  BY <1>1
<1>3. IsBuild(build, bad, script)
  BY <1>1, <1>2, BuildsAre
<1>4. w \in build /\ rest \in Seq(build)
  BY <1>2
<1>5. w.file \in Files
  BY <1>3, <1>4 DEF IsBuild
<1>6. gs[w.file] = w.rows /\ \A f \in Files \ {w.file} : gs[f] = fs[f]
  BY <1>5
<1> HIDE DEF gs
<1>7. ASSUME NEW write \in build, gs[write.file] # write.rows
      PROVE  \E i \in 1..Len(rest) : rest[i] = write
  <2>1. write.file \in Files
    BY <1>3 DEF IsBuild
  <2>2. write.file # w.file
    BY <1>3, <1>4, <1>6, <1>7 DEF IsBuild
  <2>3. fs[write.file] # write.rows
    BY <1>6, <1>7, <2>1, <2>2
  <2>4. PICK i \in 1..Len(writes) : writes[i] = write
    BY <1>2, <2>3
  <2>5. i # 1
    BY <1>2, <2>2, <2>4
  <2>6. i - 1 \in 1..Len(rest) /\ rest[i - 1] = writes[i]
    BY <1>2, <2>5
  <2> QED
    BY <2>4, <2>6
<1> HIDE DEF w, rest
<1>8. IsBuilding(bad, gs, script, args, rest)
  BY <1>1, <1>2, <1>4, <1>7, Zenon DEF IsBuilding
<1> QED
  BY <1>8 DEF gs, w, rest

(* A script that has nothing left to write has its build on disk, or is without a promise. *)
LEMMA EndKeeps ==
  ASSUME DOMAIN made = Scripts, bad' \in Labels, DOMAIN files' = Files, SourcesAreWhole', job # None, Ends,
         \A t \in Scripts \ {job.script} : made[t] # None => HasBuilt(bad', files', t, made[t]),
         IsBuilding(bad', files', job.script, job.args, <<>>) \/ IsSpoiling(job.script, job.args, <<>>)
  PROVE  DatasetsInv'
<1> DEFINE s == job.script
<1>1. s \in Scripts
  BY DEF IsBuilding, IsSpoiling
<1>2. /\ DOMAIN made' = Scripts /\ made'[s] = job.args /\ \A t \in Scripts \ {s} : made'[t] = made[t]
  BY <1>1 DEF Ends
<1>3. job.args # None => HasBuilt(bad', files', s, job.args)
  BY DEF IsBuilding, IsSpoiling, HasBuilt
<1>4. BuildsAreWhole'
  <2> SUFFICES ASSUME NEW t \in Scripts, made'[t] # None PROVE HasBuilt(bad', files', t, made'[t])
    BY DEF BuildsAreWhole
  <2> QED
    BY <1>2, <1>3
<1>5. InProgress'
  BY DEF Ends, InProgress
<1> QED
  BY <1>2, <1>4, <1>5 DEF DatasetsInv

(* Writing the next file of a running script keeps the invariant. *)
LEMMA WriteKeeps ==
  ASSUME DatasetsInv, Write
  PROVE  DatasetsInv'
<1> DEFINE w == Head(job.writes)
           rest == Tail(job.writes)
           s == job.script
<1>1. /\ job # None /\ job.writes # <<>> /\ files' = [files EXCEPT ![w.file] = w.rows] /\ bad' = bad
      /\ \/ rest = <<>> /\ Ends
         \/ job' = [job EXCEPT !.writes = rest] /\ made' = made
  BY DEF Write
<1>2. /\ DOMAIN job = {"script", "args", "writes"} /\ made[s] = None
      /\ DOMAIN files = Files /\ DOMAIN made = Scripts
      /\ \/ IsBuilding(bad, files, s, job.args, job.writes)
         \/ IsSpoiling(s, job.args, job.writes)
  BY <1>1 DEF DatasetsInv, InProgress
<1>3. FileChanges(w.file, w.rows) /\ Owner(w.file) = s
  BY <1>1, NextFile DEF FileChanges
<1>4. /\ bad' \in Labels /\ DOMAIN files' = Files /\ SourcesAreWhole'
      /\ \A t \in Scripts \ {s} : made[t] # None => HasBuilt(bad', files', t, made[t])
  BY <1>1, <1>3, FileKeeps
<1>5. IsBuilding(bad', files', s, job.args, rest) \/ IsSpoiling(s, job.args, rest)
  <2>1. CASE IsBuilding(bad, files, s, job.args, job.writes)
    BY <1>1, <1>2, <2>1, BuildGoesOn
  <2>2. CASE IsSpoiling(s, job.args, job.writes)
    <3>1. s \in Scripts /\ job.args = None /\ job.writes \in Seq(TornWrites(s))
      BY <2>2 DEF IsSpoiling
    <3>2. rest \in Seq(TornWrites(s))
      <4> HIDE DEF s
      <4> QED
        BY <1>1, <3>1, HeadTailProperties
    <3> QED
      BY <3>1, <3>2 DEF IsSpoiling
  <2> QED
    BY <1>2, <2>1, <2>2
<1>6. CASE rest = <<>> /\ Ends
  BY <1>1, <1>2, <1>4, <1>5, <1>6, EndKeeps
<1>7. CASE job' = [job EXCEPT !.writes = rest] /\ made' = made
  <2>1. /\ DOMAIN job' = {"script", "args", "writes"}
        /\ job'.script = s /\ job'.args = job.args /\ job'.writes = rest
    BY <1>2, <1>7
  <2>2. BuildsAreWhole'
    <3> SUFFICES ASSUME NEW t \in Scripts, made'[t] # None PROVE HasBuilt(bad', files', t, made'[t])
      BY DEF BuildsAreWhole
    <3>1. t # s /\ made'[t] = made[t]
      BY <1>2, <1>7
    <3> QED
      BY <1>4, <3>1
  <2>3. InProgress'
    <3> HIDE DEF rest
    <3> QED
      BY <1>2, <1>5, <1>7, <2>1 DEF InProgress
  <2> QED
    BY <1>2, <1>4, <1>7, <2>2, <2>3 DEF DatasetsInv
<1> QED
  BY <1>1, <1>6, <1>7

(* upsert_scenario touches no manifest. *)
LEMMA UpsertKeeps ==
  ASSUME DatasetsInv, UpsertScenario
  PROVE  DatasetsInv'
<1>1. job # None /\ job.writes = <<>> /\ Ends /\ bad' = bad /\ files' = files
  BY DEF UpsertScenario
<1>2. bad' \in Labels /\ DOMAIN files' = Files /\ DOMAIN made = Scripts /\ SourcesAreWhole'
  BY <1>1 DEF DatasetsInv, SourcesAreWhole, Plans
<1>3. \/ IsBuilding(bad', files', job.script, job.args, <<>>)
      \/ IsSpoiling(job.script, job.args, <<>>)
  BY <1>1 DEF DatasetsInv, InProgress
<1>4. \A t \in Scripts \ {job.script} : made[t] # None => HasBuilt(bad', files', t, made[t])
  BY <1>1 DEF DatasetsInv, BuildsAreWhole
<1> QED
  BY <1>1, <1>2, <1>3, <1>4, EndKeeps

(* A kill leaves the file that was being written torn, and its script without a promise. *)
LEMMA KillKeeps ==
  ASSUME DatasetsInv, job # None, job.writes # <<>>, job' = None, UNCHANGED <<bad, made>>,
         files' = [files EXCEPT ![Head(job.writes).file] = Torn]
  PROVE  DatasetsInv'
<1> DEFINE w == Head(job.writes)
<1>1. FileChanges(w.file, Torn) /\ Owner(w.file) = job.script
  BY NextFile DEF FileChanges
<1>2. made[job.script] = None /\ DOMAIN made = Scripts
  BY DEF DatasetsInv, InProgress
<1>3. /\ bad' \in Labels /\ DOMAIN files' = Files /\ SourcesAreWhole'
      /\ \A t \in Scripts \ {job.script} : made[t] # None => HasBuilt(bad', files', t, made[t])
  BY <1>1, FileKeeps
<1>4. BuildsAreWhole' /\ InProgress'
  BY <1>2, <1>3 DEF BuildsAreWhole, InProgress
<1> QED
  BY <1>2, <1>3, <1>4 DEF DatasetsInv

(* BuildSplit keeps the invariant. *)
LEMMA SplitSteps ==
  ASSUME DatasetsInv, NEW source \in {"natural", "full"}, NEW total \in Totals, BuildSplit(source, total)
  PROVE  DatasetsInv'
<1> DEFINE a == [source |-> source, total |-> total]
           rows == SourceRows(source)
           panel == Holdout(rows, bad, DefectTargets, total)
           x == [file |-> "train", rows |-> TrainRows(rows, panel)]
           y == [file |-> "gate", rows |-> panel]
           build == {x, y}
<1>1. Source(source) = rows
  BY DEF BuildSplit, Source, SourceRows, DatasetsInv, SourcesAreWhole
<1>2. Begin("split", a, <<x, y>>)
  BY <1>1, Zenon DEF BuildSplit
<1>3. "split" \in Scripts /\ a \in Args("split")
  BY DEF Scripts, Args
<1>4. build \in Builds(bad, "split", a)
  BY DEF Builds, SplitFiles
<1> HIDE DEF a, x, y
<1>5. <<x, y>> \in Seq(build)
      /\ \A write \in build : \E i \in 1..Len(<<x, y>>) : <<x, y>>[i] = write
  OBVIOUS
<1> HIDE DEF build
<1> QED
  BY <1>2, <1>3, <1>4, <1>5, BeginKeeps

(* BuildGateV2 keeps it. *)
LEMMA GateSteps ==
  ASSUME DatasetsInv, NEW total \in Totals, BuildGateV2(total)
  PROVE  DatasetsInv'
<1> DEFINE x == [file |-> "gate_v2", rows |-> PieceRows(GatePanel(bad, total))]
           build == {x}
<1>1. Begin("gate_v2", total, <<x>>)
  BY Zenon DEF BuildGateV2, GatePanel
<1>2. "gate_v2" \in Scripts /\ total \in Args("gate_v2")
  BY DEF Scripts, Args
<1>3. build \in Builds(bad, "gate_v2", total)
  BY DEF Builds, GateV2Files
<1> HIDE DEF x
<1>4. /\ <<x>> \in Seq(build) /\ <<x>> # <<>>
      /\ \A write \in build : \E i \in 1..Len(<<x>>) : <<x>>[i] = write
  OBVIOUS
<1> HIDE DEF build
<1> QED
  BY <1>1, <1>2, <1>3, <1>4, BeginKeeps

(* PrepareMinimal keeps it. *)
LEMMA MinimalSteps ==
  ASSUME DatasetsInv, PrepareMinimal
  PROVE  DatasetsInv'
<1> DEFINE m == Minimal(bad, MinimalCounts)
           x == [file |-> "min_boot", rows |-> PieceRows(m.boot)]
           y == [file |-> "min_valid", rows |-> PieceRows(m.valid)]
           z == [file |-> "min_replay", rows |-> PieceRows(m.replay)]
           build == {x, y, z}
<1>1. Begin("minimal", MinimalCounts, <<x, y, z>>)
  BY Zenon DEF PrepareMinimal
<1>2. "minimal" \in Scripts /\ MinimalCounts \in Args("minimal")
  BY DEF Scripts, Args
<1>3. build \in Builds(bad, "minimal", MinimalCounts)
  BY DEF Builds, MinimalFiles
<1> HIDE DEF x, y, z
<1>4. <<x, y, z>> \in Seq(build) /\ <<x, y, z>> # <<>>
      /\ \A write \in build : \E i \in 1..Len(<<x, y, z>>) : <<x, y, z>>[i] = write
  OBVIOUS
<1> HIDE DEF build
<1> QED
  BY <1>1, <1>2, <1>3, <1>4, BeginKeeps

(* PrepareFull keeps it. *)
LEMMA FullSteps ==
  ASSUME DatasetsInv, PrepareFull
  PROVE  DatasetsInv'
<1> DEFINE x == [file |-> "full_valid", rows |-> PieceRows(FullValidation)]
           y == [file |-> "full_masks", rows |-> <<>>]
           z == [file |-> "full", rows |-> FullReplay]
           build == {x, y, z}
<1>1. Begin("full", "full", <<x, y, z>>)
  BY Zenon DEF PrepareFull
<1>2. "full" \in Scripts /\ "full" \in Args("full")
  BY DEF Scripts, Args
<1>3. build \in Builds(bad, "full", "full")
  BY DEF Builds, FullFiles
<1> HIDE DEF x, y, z
<1>4. /\ <<x, y, z>> \in Seq(build) /\ <<x, y, z>> # <<>>
      /\ \A write \in build : \E i \in 1..Len(<<x, y, z>>) : <<x, y, z>>[i] = write
  OBVIOUS
<1> HIDE DEF build
<1> QED
  BY <1>1, <1>2, <1>3, <1>4, BeginKeeps

(* PreparePlan keeps it. *)
LEMMA PlanSteps ==
  ASSUME DatasetsInv, NEW a \in PlanArgs, PreparePlan(a)
  PROVE  DatasetsInv'
<1> DEFINE plan == DriftPlan(FullReplay, bad, a)
           selection == SelectionRows(plan)
           x == [file |-> "plan", rows |-> plan]
           y == [file |-> "selection", rows |-> selection]
           writes == <<x>> \o (IF selection = <<>> THEN <<>> ELSE <<y>>)
           build == {x} \cup (IF selection = <<>> THEN {} ELSE {y})
<1>1. files.full = FullReplay
  BY DEF PreparePlan, DatasetsInv, SourcesAreWhole
<1>2. Begin("plan", a, writes)
  BY <1>1, Zenon DEF PreparePlan
<1>3. "plan" \in Scripts /\ a \in Args("plan")
  BY DEF Scripts, Args
<1>4. build \in Builds(bad, "plan", a)
  BY DEF Builds, PlanFiles
<1> HIDE DEF x, y, selection
<1>5. writes \in Seq(build) /\ writes # <<>>
      /\ \A write \in build : \E i \in 1..Len(writes) : writes[i] = write
  <2>1. CASE selection = <<>>
    <3>1. writes = <<x>> /\ build = {x}
      BY <2>1
    <3> HIDE DEF writes, build
    <3> QED
      BY <3>1
  <2>2. CASE selection # <<>>
    <3>2. <<x>> \in Seq({x, y}) /\ <<y>> \in Seq({x, y}) /\ Len(<<x>>) = 1 /\ Len(<<y>>) = 1
          /\ <<x, y>> \in Seq({x, y}) /\ Len(<<x, y>>) = 2
      OBVIOUS
    <3>3. /\ <<x>> \o <<y>> \in Seq({x, y}) /\ Len(<<x>> \o <<y>>) = 2
          /\ \A i \in 1..2 : (<<x>> \o <<y>>)[i] = <<x, y>>[i]
      BY <3>2, ConcatProperties
    <3>4. <<x>> \o <<y>> = <<x, y>>
      BY <3>2, <3>3, SeqEqual
    <3>1. writes = <<x, y>> /\ build = {x, y}
      BY <2>2, <3>4
    <3> HIDE DEF writes, build
    <3> QED
      BY <3>1
  <2> QED
    BY <2>1, <2>2
<1> HIDE DEF build, writes
<1> QED
  BY <1>2, <1>3, <1>4, <1>5, BeginKeeps

(* Observe keeps it. *)
LEMMA ObserveSteps ==
  ASSUME DatasetsInv, NEW n \in Observed, Observe(n)
  PROVE  DatasetsInv'
<1> DEFINE context == First(RowsOf(files.plan, DriftPhases), n)
           x == [file |-> "context", rows |-> context]
           y == [file |-> "anchors", rows |-> Anchors(files.plan, bad, n)]
           z == [file |-> "eval", rows |-> context \o EvalStable(files.plan, bad, n)]
           build == {x, y, z}
<1>1. files.plan \in Plans(bad)
  BY DEF Observe, DatasetsInv, SourcesAreWhole
<1>2. Begin("observe", n, <<x, y, z>>)
  BY Zenon DEF Observe
<1>3. "observe" \in Scripts /\ n \in Args("observe")
  BY DEF Scripts, Args
<1>4. build \in Builds(bad, "observe", n)
  <2>1. build = ObserveFiles(bad, n, files.plan)
    BY DEF ObserveFiles
  <2> QED
    BY <1>1, <2>1 DEF Builds
<1> HIDE DEF x, y, z
<1>5. <<x, y, z>> \in Seq(build) /\ <<x, y, z>> # <<>>
      /\ \A write \in build : \E i \in 1..Len(<<x, y, z>>) : <<x, y, z>>[i] = write
  OBVIOUS
<1> HIDE DEF build
<1> QED
  BY <1>2, <1>3, <1>4, <1>5, BeginKeeps

(* A sequence of one member of a set. *)
LEMMA OneOf ==
  ASSUME NEW S, NEW x \in S
  PROVE  <<x>> \in Seq(S)
OBVIOUS

(* A sequence of two. *)
LEMMA TwoOf ==
  ASSUME NEW S, NEW x \in S, NEW y \in S
  PROVE  <<x, y>> \in Seq(S)
OBVIOUS

(* A sequence of three. *)
LEMMA ThreeOf ==
  ASSUME NEW S, NEW x \in S, NEW y \in S, NEW z \in S
  PROVE  <<x, y, z>> \in Seq(S)
OBVIOUS

(* A script that read a torn file writes files of its own only. *)
LEMMA TornSteps ==
  ASSUME DatasetsInv, NEW script \in DOMAIN Outputs, NEW outputs \in Outputs[script],
         BuildFromTorn(script, outputs)
  PROVE  DatasetsInv'
<1> DEFINE writes == [i \in DOMAIN outputs |-> [file |-> outputs[i], rows |-> Torn]]
<1>1. Begin(script, None, writes) /\ script \in {"split", "plan", "observe"}
  BY DEF BuildFromTorn
<1> DEFINE own == {f \in Files : Owner(f) = script}
<1>2. outputs \in Seq(own)
  <2>1. CASE script = "split"
    <3>1. "train" \in own
      BY <2>1 DEF Owner, Files
    <3>2. "gate" \in own
      BY <2>1 DEF Owner, Files
    <3>3. outputs = <<"train", "gate">>
      BY <2>1 DEF Outputs
    <3> HIDE DEF own
    <3>4. <<"train", "gate">> \in Seq(own)
      BY <3>1, <3>2, TwoOf, Zenon
    <3> QED
      BY <3>3, <3>4, Zenon
  <2>2. CASE script = "plan"
    <3>1. "plan" \in own
      BY <2>2 DEF Owner, Files
    <3>2. "selection" \in own
      BY <2>2 DEF Owner, Files
    <3>3. outputs = <<"plan">> \/ outputs = <<"plan", "selection">>
      BY <2>2 DEF Outputs
    <3> HIDE DEF own
    <3>4. <<"plan">> \in Seq(own)
      BY <3>1, OneOf, Zenon
    <3>5. <<"plan", "selection">> \in Seq(own)
      BY <3>1, <3>2, TwoOf, Zenon
    <3> QED
      BY <3>3, <3>4, <3>5, Zenon
  <2>3. CASE script = "observe"
    <3>1. "context" \in own
      BY <2>3 DEF Owner, Files
    <3>2. "anchors" \in own
      BY <2>3 DEF Owner, Files
    <3>3. "eval" \in own
      BY <2>3 DEF Owner, Files
    <3>4. outputs = <<"context", "anchors", "eval">>
      BY <2>3 DEF Outputs
    <3> HIDE DEF own
    <3>5. <<"context", "anchors", "eval">> \in Seq(own)
      BY <3>1, <3>2, <3>3, ThreeOf, Zenon
    <3> QED
      BY <3>4, <3>5, Zenon
  <2> QED
    BY <1>1, <2>1, <2>2, <2>3
<1>3. \A i \in DOMAIN outputs : [file |-> outputs[i], rows |-> Torn] \in TornWrites(script)
  <2> SUFFICES ASSUME NEW i \in DOMAIN outputs
               PROVE  [file |-> outputs[i], rows |-> Torn] \in TornWrites(script)
    OBVIOUS
  <2>1. outputs[i] \in Files /\ Owner(outputs[i]) = script
    BY <1>2
  <2> QED
    BY <2>1 DEF TornWrites
<1>4. writes \in Seq(TornWrites(script))
  <2>1. Len(outputs) \in Nat /\ DOMAIN outputs = 1..Len(outputs)
    BY <1>2
  <2>2. writes \in [1..Len(outputs) -> TornWrites(script)]
    BY <1>3, <2>1
  <2> HIDE DEF writes
  <2> QED
    BY <2>1, <2>2, SeqDef
<1> HIDE DEF writes
<1>5. script \in Scripts /\ IsSpoiling(script, None, writes)
  BY <1>1, <1>4 DEF IsSpoiling, Scripts
<1> QED
  BY <1>1, <1>5, BeginLeaves

(* A step that touches no file keeps it. *)
LEMMA NothingWritten ==
  ASSUME DatasetsInv, UNCHANGED <<bad, files, made>>, job' = job \/ job' = None
  PROVE  DatasetsInv'
<1>1. SourcesAreWhole'
  BY DEF DatasetsInv, SourcesAreWhole, Plans
<1>2. BuildsAreWhole' /\ InProgress'
  BY DEF DatasetsInv, BuildsAreWhole, InProgress
<1> QED
  BY <1>1, <1>2 DEF DatasetsInv

(* The inductive invariant holds in every reachable state. *)
LEMMA DatasetsInvHolds == Spec => []DatasetsInv
<1>1. Init => DatasetsInv
  BY DEF Init, DatasetsInv, SourcesAreWhole, BuildsAreWhole, InProgress, Files
<1>2. DatasetsInv /\ [Next]_vars => DatasetsInv'
  <2> SUFFICES ASSUME DatasetsInv, [Next]_vars PROVE DatasetsInv'
    OBVIOUS
  <2>1. CASE Kill
    BY <2>1, NothingWritten, KillKeeps DEF Kill
  <2>2. CASE UNCHANGED vars
    BY <2>2, NothingWritten DEF vars
  <2> QED
    BY <2>1, <2>2, SplitSteps, GateSteps, MinimalSteps, FullSteps, PlanSteps, ObserveSteps, TornSteps,
       WriteKeeps, UpsertKeeps
       DEF Next
<1> QED
  BY <1>1, <1>2, PTL DEF Spec

(* The files of a script that ended are all of one run of it: no script overwrites another's files, *)
(* and a run that was killed half way, or that read a torn file, leaves its script without one.     *)
THEOREM FilesAreOfOneBuild == Spec => []BuildsAreWhole
<1>1. DatasetsInv => BuildsAreWhole
  BY DEF DatasetsInv
<1> QED
  BY <1>1, DatasetsInvHolds, PTL

-----------------------------------------------------------------------------
(* What judges a model is apart from what it was trained on. *)

(* The rows of a source manifest and their events. *)
LEMMA SourceRowsAre ==
  ASSUME NEW name
  PROVE  /\ SourceRows(name) \in Seq(Rows)
         /\ Ids(SourceRows(name)) = IF name = "natural" THEN Natural ELSE PieceB
<1>1. PieceRows(Natural) \in Seq(Rows) /\ Ids(PieceRows(Natural)) = Natural
  BY DatasetsAssumption, PieceRowsAre
<1> QED
  BY <1>1, FullReplayIs DEF SourceRows

(* The panel is a set of rows of the replay. *)
LEMMA HoldoutIsOfReplay ==
  ASSUME NEW rows \in Seq(Rows), NEW bd, NEW total \in Nat
  PROVE  /\ Holdout(rows, bd, DefectTargets, total) \in Seq(Rows)
         /\ ToSet(Holdout(rows, bd, DefectTargets, total)) \in SUBSET ToSet(rows)
         /\ ToSet(Holdout(rows, bd, DefectTargets, total))
              = (UNION {ToSet(Spread(OfClass(rows, c, bd, TRUE), DefectTargets[c])) :
                          c \in DOMAIN DefectTargets})
                \cup (UNION {ToSet(Spread(OfClass(rows, c, bd, FALSE), Targets(rows, bd, total)[c])) :
                               c \in Sampled(rows, bd)})
<1> DEFINE Part(c, wanted, target) == ToSet(Spread(OfClass(rows, c, bd, wanted), target))
           P == (UNION {Part(c, TRUE, DefectTargets[c]) : c \in DOMAIN DefectTargets})
                \cup (UNION {Part(c, FALSE, Targets(rows, bd, total)[c]) : c \in Sampled(rows, bd)})
<1>1. ASSUME NEW c, NEW wanted \in BOOLEAN, NEW target \in Nat
      PROVE  Part(c, wanted, target) \in SUBSET ToSet(rows)
  <2> DEFINE part == OfClass(rows, c, bd, wanted)
  <2>1. part \in Seq(Rows) /\ ToSet(part) \in SUBSET ToSet(rows)
    BY OfClassIs DEF ToSet
  <2> HIDE DEF part
  <2>2. ToSet(Spread(part, target)) \in SUBSET ToSet(part)
    BY <2>1, SpreadIsOfRows
  <2> QED
    BY <2>1, <2>2 DEF part
<1>2. \A c \in DOMAIN DefectTargets : DefectTargets[c] \in Nat
  BY DatasetsAssumption
<1>3. \A c \in Sampled(rows, bd) : Targets(rows, bd, total)[c] \in Nat
  BY TargetsAreCounts
<1>4. P \in SUBSET ToSet(rows)
  <2> HIDE DEF Part
  <2>1. \A c \in DOMAIN DefectTargets : Part(c, TRUE, DefectTargets[c]) \in SUBSET ToSet(rows)
    BY <1>1, <1>2
  <2>2. \A c \in Sampled(rows, bd) : Part(c, FALSE, Targets(rows, bd, total)[c]) \in SUBSET ToSet(rows)
    BY <1>1, <1>3
  <2> QED
    BY <2>1, <2>2
<1>5. P \in SUBSET Rows
  BY <1>4, RowsOfSeq
<1>6. Holdout(rows, bd, DefectTargets, total) = InOrder(P)
  BY TargetsAreCounts DEF Holdout
<1> HIDE DEF P
<1>7. /\ Holdout(rows, bd, DefectTargets, total) \in Seq(P)
      /\ ToSet(Holdout(rows, bd, DefectTargets, total)) = P
  BY <1>5, <1>6, InOrderKeepsRows
<1>8. Holdout(rows, bd, DefectTargets, total) \in Seq(Rows)
  BY <1>5, <1>7
<1> QED
  BY <1>4, <1>7, <1>8, Zenon DEF P

(* A split shares its events out between training rows and panel. *)
LEMMA SplitIsApart ==
  ASSUME NEW rows \in Seq(Rows), NEW bd, NEW total \in Nat
  PROVE  LET panel == Holdout(rows, bd, DefectTargets, total) IN
         /\ Ids(TrainRows(rows, panel)) \cap Ids(panel) = {}
         /\ Ids(TrainRows(rows, panel)) \cup Ids(panel) = Ids(rows)
<1> DEFINE panel == Holdout(rows, bd, DefectTargets, total)
           kept == {i \in DOMAIN rows : Piece(rows[i]) \notin Ids(panel)}
<1>1. panel \in Seq(Rows) /\ ToSet(panel) \in SUBSET ToSet(rows)
  BY HoldoutIsOfReplay
<1> HIDE DEF panel
<1>2. ToSet(TrainRows(rows, panel)) = {rows[i] : i \in kept}
  BY KeepPlaces DEF TrainRows
<1>3. Ids(TrainRows(rows, panel)) = {Piece(rows[i]) : i \in kept}
  BY <1>2 DEF Ids
<1>4. Ids(panel) \in SUBSET Ids(rows) /\ Ids(rows) = {Piece(rows[i]) : i \in DOMAIN rows}
  BY <1>1, IdsArePieces DEF Ids
<1> QED
  BY <1>3, <1>4 DEF panel

(* The gate panel has no good event that a model was trained or calibrated on. *)
LEMMA GatePanelIsNew ==
  ASSUME NEW bd \in SUBSET Pieces, NEW total \in Nat
  PROVE  LET seen == Natural \cup Reserves.boot \cup Reserves.calib \cup Reserves.repr IN
         /\ GatePanel(bd, total) \in SUBSET Pieces
         /\ (GatePanel(bd, total) \ bd) \cap seen = {}
<1> DEFINE seen == Natural \cup Reserves.boot \cup Reserves.calib \cup Reserves.repr
           goods == GateGoods(PieceRows(Natural), bd, seen, total)
           defects == GateDefects(bd, Reserves.repr \cup Reserves.gate1)
<1>1. PieceRows(Natural) \in Seq(Rows)
  BY DatasetsAssumption, PieceRowsAre
<1> HIDE DEF seen
<1>2. goods \in SUBSET (Pieces \ (bd \cup seen))
  BY <1>1, GateGoodsAreNew
<1>3. defects \in SUBSET bd
  BY DEF GateDefects
<1>4. GatePanel(bd, total) = defects \cup goods
  BY DEF GatePanel, seen
<1> HIDE DEF goods, defects
<1>5. GatePanel(bd, total) \in SUBSET Pieces /\ (GatePanel(bd, total) \ bd) \cap seen = {}
  BY <1>2, <1>3, <1>4
<1> QED
  BY <1>5 DEF seen

(* The three lists of the minimal scenario share no event. *)
LEMMA MinimalIsApart ==
  ASSUME NEW bd
  PROVE  LET m == Minimal(bd, MinimalCounts) IN
         /\ m.boot \in SUBSET Pieces /\ m.valid \in SUBSET Pieces /\ m.replay \in SUBSET Pieces
         /\ m.boot \cap m.valid = {} /\ m.boot \cap m.replay = {} /\ m.valid \cap m.replay = {}
<1> DEFINE n == MinimalCounts
           boot == Earliest({p \in PieceB \ bd : SplitOf[p] = "train"}, n.boot)
           validGood == Earliest({p \in PieceB \ (bd \cup boot) : SplitOf[p] = "test"}, n.valid)
           validBad == Earliest({p \in PieceB \cap bd : SplitOf[p] = "test"}, n.valid)
           used == boot \cup validGood \cup validBad
           good == Earliest(PieceB \ (bd \cup used), n.good)
           rejected == Earliest((PieceB \cap bd) \ used, n.bad)
<1>0. n.boot \in Nat /\ n.valid \in Nat /\ n.good \in Nat /\ n.bad \in Nat
  BY DatasetsAssumption
<1>1. PieceB \in SUBSET Pieces
  BY DEF PieceB
<1>2. boot \in SUBSET (PieceB \ bd)
  BY <1>0, <1>1, EarliestAreSome
<1>3. validBad \in SUBSET (PieceB \cap bd)
  BY <1>0, <1>1, EarliestAreSome
<1>4. validGood \in SUBSET (PieceB \ (bd \cup boot))
  <2> HIDE DEF boot
  <2> QED
    BY <1>0, <1>1, EarliestAreSome
<1>5. good \in SUBSET (PieceB \ (bd \cup used)) /\ rejected \in SUBSET ((PieceB \cap bd) \ used)
  <2> HIDE DEF used
  <2> QED
    BY <1>0, <1>1, EarliestAreSome
<1>6. /\ Minimal(bd, MinimalCounts).boot = boot
      /\ Minimal(bd, MinimalCounts).valid = validGood \cup validBad
      /\ Minimal(bd, MinimalCounts).replay = good \cup rejected
  BY DEF Minimal
<1> HIDE DEF boot, validGood, validBad, good, rejected
<1> QED
  BY <1>1, <1>2, <1>3, <1>4, <1>5, <1>6

(* The holdout panel shares no event with the replay left to train on, the good pieces of gate v2   *)
(* are new, the minimal sets are apart, and no Piece B anchor of a correction is on the panel that  *)
(* judges it (its P4 rows are on both sides), whichever files were rebuilt or cut in between:       *)
(* PanelsHeldOut of every run, for every manifest, set of labels and arguments.                     *)
THEOREM PanelsAreHeldOut == Spec => []PanelsHeldOut
<1>1. ASSUME DatasetsInv PROVE PanelsHeldOut
  <2>1. bad \in SUBSET Pieces /\ BuildsAreWhole
    BY <1>1, DatasetsAssumption DEF DatasetsInv
  <2>2. ASSUME NEW script \in Scripts, made[script] # None
        PROVE  /\ made[script] \in Args(script)
               /\ \E build \in Builds(bad, script, made[script]) :
                    \A write \in build : files[write.file] = write.rows
    BY <2>1, <2>2 DEF BuildsAreWhole, HasBuilt
  <2>3. ASSUME made.split # None
        PROVE  /\ Apart("train", "gate")
               /\ Ids(files.train) \cup Ids(files.gate) =
                    IF made.split.source = "natural" THEN Natural ELSE PieceB
    <3> DEFINE a == made.split
               rows == SourceRows(a.source)
               panel == Holdout(rows, bad, DefectTargets, a.total)
               train == TrainRows(rows, panel)
    <3>1. a \in Args("split") /\ \E build \in Builds(bad, "split", a) :
                                    \A write \in build : files[write.file] = write.rows
      BY <2>2, <2>3 DEF Scripts
    <3>2. a.total \in Nat
      BY <3>1, DatasetsAssumption DEF Args
    <3>3. \A write \in SplitFiles(bad, a) : files[write.file] = write.rows
      BY <3>1 DEF Builds
    <3>4. files.train = train /\ files.gate = panel
      BY <3>3 DEF SplitFiles
    <3>5. rows \in Seq(Rows) /\ Ids(rows) = IF a.source = "natural" THEN Natural ELSE PieceB
      BY SourceRowsAre
    <3>6. Ids(train) \cap Ids(panel) = {} /\ Ids(train) \cup Ids(panel) = Ids(rows)
      <4> HIDE DEF rows, a
      <4> QED
        BY <3>2, <3>5, SplitIsApart
    <3> HIDE DEF rows, panel, train
    <3> QED
      BY <3>4, <3>5, <3>6 DEF Apart
  <2>4. ASSUME made.gate_v2 # None
        PROVE  (Ids(files.gate_v2) \ bad) \cap
                 (Natural \cup Reserves.boot \cup Reserves.calib \cup Reserves.repr) = {}
    <3> DEFINE total == made.gate_v2
               panel == GatePanel(bad, total)
    <3>1. total \in Args("gate_v2") /\ \E build \in Builds(bad, "gate_v2", total) :
                                          \A write \in build : files[write.file] = write.rows
      BY <2>2, <2>4 DEF Scripts
    <3>2. total \in Nat
      BY <3>1, DatasetsAssumption DEF Args
    <3>3. files.gate_v2 = PieceRows(panel)
      <4>1. \A write \in GateV2Files(bad, total) : files[write.file] = write.rows
        BY <3>1 DEF Builds
      <4> QED
        BY <4>1 DEF GateV2Files
    <3> HIDE DEF total
    <3>4. /\ panel \in SUBSET Pieces
          /\ (panel \ bad) \cap (Natural \cup Reserves.boot \cup Reserves.calib \cup Reserves.repr) = {}
      BY <2>1, <3>2, GatePanelIsNew
    <3> HIDE DEF panel
    <3>5. Ids(files.gate_v2) = panel
      BY <3>3, <3>4, PieceRowsAre
    <3> QED
      BY <3>4, <3>5
  <2>5. ASSUME made.minimal # None
        PROVE  /\ Apart("min_boot", "min_valid") /\ Apart("min_boot", "min_replay")
               /\ Apart("min_valid", "min_replay")
    <3> DEFINE m == Minimal(bad, MinimalCounts)
    <3>1. \E build \in Builds(bad, "minimal", made.minimal) :
            \A write \in build : files[write.file] = write.rows
      BY <2>2, <2>5 DEF Scripts
    <3>2. \A write \in MinimalFiles(bad) : files[write.file] = write.rows
      BY <3>1 DEF Builds
    <3>3. /\ files.min_boot = PieceRows(m.boot) /\ files.min_valid = PieceRows(m.valid)
          /\ files.min_replay = PieceRows(m.replay)
      BY <3>2 DEF MinimalFiles
    <3>4. /\ m.boot \in SUBSET Pieces /\ m.valid \in SUBSET Pieces /\ m.replay \in SUBSET Pieces
          /\ m.boot \cap m.valid = {} /\ m.boot \cap m.replay = {} /\ m.valid \cap m.replay = {}
      BY MinimalIsApart
    <3> HIDE DEF m
    <3>5. /\ Ids(files.min_boot) = m.boot /\ Ids(files.min_valid) = m.valid
          /\ Ids(files.min_replay) = m.replay
      BY <3>3, <3>4, PieceRowsAre
    <3> QED
      BY <3>4, <3>5 DEF Apart
  <2>6. ASSUME made.observe # None
        PROVE  {p \in Ids(files.anchors) : KindOf[p] = "piece_b"} \cap Ids(files.eval) = {}
    <3> DEFINE n == made.observe
    <3>1. n \in Args("observe") /\ \E build \in Builds(bad, "observe", n) :
                                      \A write \in build : files[write.file] = write.rows
      BY <2>2, <2>6 DEF Scripts
    <3>2. n \in Nat
      BY <3>1, DatasetsAssumption DEF Args
    <3>3. \E a \in PlanArgs : \A write \in ObserveFiles(bad, n, DriftPlan(FullReplay, bad, a)) :
                                files[write.file] = write.rows
      BY <3>1 DEF Builds, Plans
    <3> HIDE DEF n
    <3>4. PICK a \in PlanArgs : \A write \in ObserveFiles(bad, n, DriftPlan(FullReplay, bad, a)) :
                                  files[write.file] = write.rows
      BY <3>3, Zenon
    <3> DEFINE plan == DriftPlan(FullReplay, bad, a)
               panel == First(RowsOf(plan, DriftPhases), n) \o EvalStable(plan, bad, n)
    <3>5. files.anchors = Anchors(plan, bad, n) /\ files.eval = panel
      BY <3>4 DEF ObserveFiles
    <3>6. a \in [window : Nat \ {0}, suspected : Nat, critical : Nat, correction : Nat]
      BY DatasetsAssumption
    <3>7. {p \in Ids(Anchors(plan, bad, n)) : KindOf[p] = "piece_b"} \cap Ids(panel) = {}
      BY <3>2, <3>6, ObservationIsApart, Zenon
    <3> QED
      BY <3>5, <3>7, Zenon
  <2> QED
    BY <2>3, <2>4, <2>5, <2>6, Zenon DEF PanelsHeldOut
<1> QED
  BY <1>1, DatasetsInvHolds, PTL

-----------------------------------------------------------------------------
(* The panel stands for the production it was taken from. *)

(* No row of a source manifest comes twice. *)
LEMMA SourcesDiffer ==
  ASSUME NEW name
  PROVE  Different(SourceRows(name))
<1>1. Different(PieceRows(Natural))
  BY DatasetsAssumption, PieceRowsDiffer
<1>2. Different(FullReplay)
  <2> DEFINE m == Cardinality(PieceB)
             g == Sorted(PieceB)
             n == 3 * m
  <2>1. PieceB \in SUBSET Pieces
    BY DEF PieceB
  <2>2. m \in Nat /\ n \in Nat /\ \A i, j \in 1..m : g[i] = g[j] => i = j
    BY <2>1, SortedPieces
  <2>3. FullReplay = Views(g, n)
    BY FullReplayIs
  <2> HIDE DEF m, g
  <2>4. ASSUME NEW i \in 1..n
        PROVE  ((i - 1) \div 3) + 1 \in 1..m /\ i = 3 * ((i - 1) \div 3) + ((i - 1) % 3) + 1
    BY <2>2
  <2>5. DOMAIN FullReplay = 1..n
        /\ \A i \in 1..n : FullReplay[i] = <<g[((i - 1) \div 3) + 1], ((i - 1) % 3) + 1>>
    BY <2>3 DEF Views
  <2>6. ASSUME NEW i \in 1..n, NEW j \in 1..n, FullReplay[i] = FullReplay[j] PROVE i = j
    <3> DEFINE a == (i - 1) \div 3
               b == (j - 1) \div 3
               u == (i - 1) % 3
               v == (j - 1) % 3
    <3>1. a + 1 \in 1..m /\ b + 1 \in 1..m /\ i = 3 * a + u + 1 /\ j = 3 * b + v + 1
      BY <2>4
    <3>2. a \in Int /\ b \in Int /\ u \in Int /\ v \in Int
      BY <2>2
    <3>3. <<g[a + 1], u + 1>> = <<g[b + 1], v + 1>>
      BY <2>5, <2>6
    <3> HIDE DEF a, b, u, v
    <3>4. a = b /\ u = v
      BY <2>2, <3>1, <3>2, <3>3
    <3> QED
      BY <3>1, <3>4
  <2> HIDE DEF n
  <2> QED
    BY <2>5, <2>6 DEF Different
<1> QED
  BY <1>1, <1>2 DEF SourceRows

(* The class has its share of the panel, and both its ends. *)
Represents(rows, gate, c, bd, total) ==
  LET part == OfClass(rows, c, bd, FALSE)
      panel == GoodCount(gate, c, bd)
      o == GoodTotal(rows, bd)
  IN /\ panel * o - total * Len(part) < o /\ -(panel * o - total * Len(part)) < o
     /\ panel > 1 => {part[1], part[Len(part)]} \subseteq ToSet(gate)

(* A panel has the size asked for and the mix of classes of its source. *)
LEMMA PanelRepresents ==
  ASSUME NEW rows \in Seq(Rows), Different(rows), NEW bd, NEW total \in Nat,
         GoodTotal(rows, bd) > 0, total <= GoodTotal(rows, bd),
         NEW gate, gate = Holdout(rows, bd, DefectTargets, total)
  PROVE  /\ GoodTotal(gate, bd) = total
         /\ \A c \in Classes : Represents(rows, gate, c, bd, total)
<1> DEFINE o == GoodTotal(rows, bd)
           t == Targets(rows, bd, total)
           S == Sampled(rows, bd)
           Class(c) == OfClass(rows, c, bd, FALSE)
           Part(c) == ToSet(Spread(Class(c), t[c]))
           Bad(c) == ToSet(Spread(OfClass(rows, c, bd, TRUE), DefectTargets[c]))
           parts == UNION {Part(c) : c \in S}
           bads == UNION {Bad(c) : c \in DOMAIN DefectTargets}
           E == bads \cup parts
<1>1. /\ t \in [S -> Nat] /\ Cardinality(Stack(S, t)) = total /\ IsFiniteSet(S) /\ DOMAIN t = S
      /\ \A c \in S : t[c] <= GoodCount(rows, c, bd)
  BY TargetsSumUp, SampledAreFinite
<1>2. ASSUME NEW c \in S
      PROVE  /\ t[c] * o - total * GoodCount(rows, c, bd) < o
             /\ -(t[c] * o - total * GoodCount(rows, c, bd)) < o
  BY TargetsSumUp
<1>3. gate = InOrder(E)
  BY <1>1, Zenon DEF Holdout
<1>4. ToSet(gate) = E /\ E \in SUBSET Rows
  <2>1. gate \in Seq(Rows) /\ ToSet(gate) = E
    BY HoldoutIsOfReplay
  <2> HIDE DEF E
  <2> QED
    BY <2>1, RowsOfSeq
<1>5. \A c : GoodCount(rows, c, bd) \in Nat
  BY CountsOfRows
<1>6. ASSUME NEW c \in S
      PROVE  /\ IsFiniteSet(Part(c)) /\ Cardinality(Part(c)) = t[c]
             /\ Part(c) \in SUBSET GoodRowsOf(c, bd)
             /\ t[c] > 1 => Class(c)[1] \in Part(c) /\ Class(c)[Len(Class(c))] \in Part(c)
  <2> DEFINE k == t[c]
             p == Class(c)
  <2>1. k \in Nat /\ k <= GoodCount(rows, c, bd)
    BY <1>1
  <2>2. /\ p \in Seq(Rows) /\ Len(p) = GoodCount(rows, c, bd) /\ Different(p)
        /\ \A r \in ToSet(p) : r \in Rows /\ ClassOf[Piece(r)] = c /\ Piece(r) \notin bd
    BY GoodsOfClass
  <2> DEFINE T == ToSet(Spread(p, k))
  <2> HIDE DEF p, k
  <2>3. /\ IsFiniteSet(T) /\ Cardinality(T) = k /\ T \in SUBSET ToSet(p)
        /\ k > 1 => p[1] \in T /\ p[Len(p)] \in T
    BY <2>1, <2>2, SpreadCounts
  <2>4. T \in SUBSET GoodRowsOf(c, bd)
    BY <2>2, <2>3 DEF GoodRowsOf
  <2> QED
    BY <2>3, <2>4, Zenon DEF T, p, k
<1>7. \A r \in bads : Piece(r) \in bd
  <2>1. ASSUME NEW c \in DOMAIN DefectTargets, NEW r \in Bad(c) PROVE Piece(r) \in bd
    <3> DEFINE k == DefectTargets[c]
               p == OfClass(rows, c, bd, TRUE)
    <3>1. k \in Nat
      BY DatasetsAssumption
    <3>2. r \in ToSet(Spread(p, k))
      OBVIOUS
    <3>3. p \in Seq(Rows) /\ \A x \in ToSet(p) : Piece(x) \in bd
      BY BadsOfClass
    <3> HIDE DEF k, p
    <3>4. r \in ToSet(p)
      BY <3>1, <3>2, <3>3, SpreadIsOfRows
    <3> QED
      BY <3>3, <3>4
  <2> HIDE DEF Bad
  <2> QED
    BY <2>1
<1> HIDE DEF o, t, S, Class, Part, bads
<1>8. E \cap GoodRows(bd) = parts
  BY <1>4, <1>6, <1>7 DEF GoodRows, GoodRowsOf
<1>9. GoodTotal(gate, bd) = total
  <2> DEFINE part == [c \in S |-> Part(c)]
  <2>1. Separates(S, t, part)
    <3>1. \A c \in S : IsFiniteSet(part[c]) /\ Cardinality(part[c]) = t[c]
      BY <1>6
    <3>2. \A c, d \in S : c # d => part[c] \cap part[d] = {}
      BY <1>6 DEF GoodRowsOf
    <3> QED
      BY <3>1, <3>2, Zenon DEF Separates
  <2>2. parts = UNION {part[c] : c \in S}
    OBVIOUS
  <2> HIDE DEF parts, part
  <2>3. Cardinality(parts) = Cardinality(Stack(S, t))
    BY <1>1, <2>1, <2>2, PartsAreCounted
  <2> HIDE DEF E
  <2>4. GoodTotal(gate, bd) = Cardinality(E \cap GoodRows(bd))
    BY <1>3, <1>4, PanelCounts
  <2> QED
    BY <1>1, <1>8, <2>3, <2>4
<1>10. ASSUME NEW c \in Classes
       PROVE  Represents(rows, gate, c, bd, total)
  <2> DEFINE p == Class(c)
             n == GoodCount(gate, c, bd)
             g == GoodCount(rows, c, bd)
  <2>1. Len(p) = g
    BY GoodsOfClass DEF Class
  <2>2. n = Cardinality(E \cap GoodRowsOf(c, bd))
    <3> HIDE DEF E
    <3>1. E \in SUBSET Rows /\ gate = InOrder(E)
      BY <1>3, <1>4
    <3>2. \A d : GoodCount(gate, d, bd) = Cardinality(E \cap GoodRowsOf(d, bd))
      <4>1. /\ GoodTotal(gate, bd) = Cardinality(E \cap GoodRows(bd))
            /\ \A d : GoodCount(gate, d, bd) = Cardinality(E \cap GoodRowsOf(d, bd))
        <5> HIDE DEF parts
        <5> QED
          BY <3>1, PanelCounts, ZenonT(30)
      <4> QED
        BY <4>1, Zenon
    <3> QED
      BY <3>2, Zenon
  <2>3. CASE c \in S
    <3>1. E \cap GoodRowsOf(c, bd) = Part(c)
      BY <1>4, <1>6, <1>7, <2>3 DEF GoodRowsOf
    <3>2. n = t[c]
      BY <1>6, <2>2, <2>3, <3>1
    <3>3. n * o - total * g < o /\ -(n * o - total * g) < o
      BY <1>2, <2>3, <3>2
    <3>4. n > 1 => p[1] \in ToSet(gate) /\ p[Len(p)] \in ToSet(gate)
      <4>1. Part(c) \in SUBSET ToSet(gate)
        BY <1>4, <2>3
      <4> HIDE DEF n, p, E
      <4> QED
        BY <1>6, <2>3, <3>2, <4>1 DEF p
    <3> HIDE DEF n, g
    <3>5. n * o - total * Len(p) < o /\ -(n * o - total * Len(p)) < o
      BY <2>1, <3>3
    <3>6. n > 1 => {p[1], p[Len(p)]} \subseteq ToSet(gate)
      BY <3>4
    <3> HIDE DEF p
    <3> QED
      BY <3>5, <3>6, Zenon DEF Represents, n, p, Class, o
  <2>4. CASE c \notin S
    <3>1. g = 0
      <4>1. g \in Nat /\ ~(g > 0)
        BY <1>5, <2>4 DEF S, Sampled
      <4> HIDE DEF g
      <4> QED
        BY <4>1
    <3>2. E \cap GoodRowsOf(c, bd) = {}
      BY <1>6, <1>7, <2>4 DEF GoodRowsOf
    <3>3. n = 0
      BY <2>2, <3>2, FS_EmptySet
    <3>4. o \in Nat /\ o > 0
      BY CountsOfRows DEF o
    <3> HIDE DEF n, g
    <3>5. n * o - total * Len(p) < o /\ -(n * o - total * Len(p)) < o /\ ~(n > 1)
      BY <2>1, <3>1, <3>3, <3>4
    <3> HIDE DEF p
    <3> QED
      BY <3>5, Zenon DEF Represents, n, p, Class, o
  <2> QED
    BY <2>3, <2>4
<1> QED
  BY <1>9, <1>10

(* The holdout panel on disk stands for the production it was taken from: it has as many good rows *)
(* as asked, each class within one row of its exact share, and the panel of a class reaches from   *)
(* its first row to its last (PanelIsRepresentative), for every manifest, labels and --good-total. *)
THEOREM PanelStandsForProduction == Spec => []PanelIsRepresentative
<1>1. ASSUME DatasetsInv, made.split # None,
             GoodTotal(SourceRows(made.split.source), bad) > 0,
             made.split.total <= GoodTotal(SourceRows(made.split.source), bad)
      PROVE  /\ GoodTotal(files.gate, bad) = made.split.total
             /\ \A c \in Classes :
                  Represents(SourceRows(made.split.source), files.gate, c, bad, made.split.total)
  <2> DEFINE a == made.split
             rows == SourceRows(a.source)
             panel == Holdout(rows, bad, DefectTargets, a.total)
  <2>1. HasBuilt(bad, files, "split", a)
    BY <1>1 DEF DatasetsInv, BuildsAreWhole, Scripts
  <2>2. a.total \in Nat
    BY <2>1, DatasetsAssumption DEF HasBuilt, Args
  <2>3. \A write \in SplitFiles(bad, a) : files[write.file] = write.rows
    BY <2>1 DEF HasBuilt, Builds
  <2>4. files.gate = panel
    BY <2>3 DEF SplitFiles
  <2>5. rows \in Seq(Rows) /\ Different(rows)
    BY SourceRowsAre, SourcesDiffer
  <2>6. GoodTotal(rows, bad) > 0 /\ a.total <= GoodTotal(rows, bad)
    BY <1>1
  <2> HIDE DEF a, rows
  <2>7. /\ GoodTotal(files.gate, bad) = a.total
        /\ \A c \in Classes : Represents(rows, files.gate, c, bad, a.total)
    BY <2>2, <2>4, <2>5, <2>6, PanelRepresents
  <2> QED
    BY <2>7, Zenon DEF a, rows
<1>2. DatasetsInv => PanelIsRepresentative
  <2> SUFFICES ASSUME DatasetsInv PROVE PanelIsRepresentative
    OBVIOUS
  <2> QED
    BY <1>1, Zenon DEF PanelIsRepresentative, Represents, SourceRows
<1> QED
  BY <1>2, DatasetsInvHolds, PTL

-----------------------------------------------------------------------------
(* The drift plan carries its signal. *)

(* A list that starts with k rows of defective events has at least k defects. *)
LEMMA AtLeast ==
  ASSUME NEW R, NEW rows \in Seq(R), NEW k \in Nat, k <= Len(rows),
         \A i \in 1..k : Piece(rows[i]) \in bad
  PROVE  Defects(rows) >= k
<1> DEFINE S == {i \in DOMAIN rows : Piece(rows[i]) \in bad}
<1>1. S \in SUBSET DOMAIN rows /\ DOMAIN rows = 1..Len(rows) /\ Len(rows) \in Nat
  BY LenProperties
<1>2. 1..k \subseteq S
  BY <1>1
<1> HIDE DEF S
<1>3. IsFiniteSet(S) /\ Cardinality(S) \in Nat
  BY <1>1, PlacesAreFinite
<1>4. 1 \in Int /\ k \in Int
  OBVIOUS
<1>5. Cardinality(1..k) = k
  BY <1>4, FS_Interval
<1>6. Cardinality(1..k) <= Cardinality(S)
  BY <1>2, <1>3, FS_Subset
<1> QED
  BY <1>3, <1>5, <1>6 DEF Defects, S

(* Blocks as long as a window open it with their defects. *)
LEMMA WindowsAreCritical ==
  ASSUME NEW w \in Nat, NEW k \in Nat, k <= w,
         Len(Goods(P4Source, bad)) >= 2 * (w - k), Len(Goods(P4Source, bad)) < Len(P4Source)
  PROVE  LET p == OrderedP4(P4Source, bad, w, k) IN
         /\ Defects(First(p, w)) >= k
         /\ Defects(Between(p, w + 1, 2 * w)) >= k
<1> DEFINE p == OrderedP4(P4Source, bad, w, k)
           n == Len(Goods(P4Source, bad))
           a == Smaller(IF w > k THEN w - k ELSE 0, n)
           l == 2 * k + n
<1>1. P4Source \in Seq(RowsOfP4)
  BY P4RowsAre
<1>2. Defective(P4Source, bad) # <<>>
  <2> SUFFICES ASSUME Defective(P4Source, bad) = <<>> PROVE FALSE
    OBVIOUS
  <2>1. Goods(P4Source, bad) = P4Source /\ Len(P4Source) \in Nat
    BY <1>1, NoDefects
  <2> QED
    BY <2>1
<1>9. p \in Seq(RowsOfP4)
  BY <1>1, OrderedP4Keeps
<1>10. InBlocks(p, Goods(P4Source, bad), bad, k, a)
  BY <1>1, <1>2, BlockPlaces, Zenon
<1>3. /\ DOMAIN p = 1..l /\ Len(p) = l
      /\ n \in Nat /\ a \in 0..n
      /\ \A j \in 1..l : (j <= k \/ (k + a < j /\ j <= 2 * k + a)) => Piece(p[j]) \in bad
  BY <1>10, Zenon DEF InBlocks
<1>4. n >= 2 * (w - k)
  OBVIOUS
<1>5. a = w - k
  BY <1>3, <1>4 DEF Smaller
<1> HIDE DEF p, n, a
<1>6. l \in Nat /\ 2 * w <= l
  BY <1>3, <1>4
<1> HIDE DEF l
<1>7. Defects(First(p, w)) >= k
  <2>1. Smaller(w, Len(p)) = w
    BY <1>3, <1>6 DEF Smaller
  <2>2. /\ First(p, w) \in Seq(RowsOfP4) /\ Len(First(p, w)) = w
        /\ \A i \in 1..w : First(p, w)[i] = p[i]
    BY <1>9, <2>1, FirstIs
  <2>3. \A i \in 1..k : i \in 1..w /\ i \in 1..l /\ i <= k
    BY <1>6
  <2>4. \A i \in 1..k : Piece(First(p, w)[i]) \in bad
    BY <1>3, <2>2, <2>3
  <2> QED
    BY <2>2, <2>4, AtLeast
<1>8. Defects(Between(p, w + 1, 2 * w)) >= k
  <2> DEFINE x == w + 1
             y == 2 * w
  <2>1. x \in Nat \ {0} /\ y \in Nat /\ y = Smaller(y, Len(p)) /\ x = w + 1 /\ y = 2 * w
    BY <1>3, <1>6 DEF Smaller
  <2> HIDE DEF x, y
  <2>2. /\ Between(p, x, y) \in Seq(RowsOfP4)
        /\ Len(Between(p, x, y)) = (IF x <= y THEN y - x + 1 ELSE 0)
        /\ \A i \in 1..Len(Between(p, x, y)) : Between(p, x, y)[i] = p[i + x - 1]
    BY <1>9, <2>1, BetweenIs
  <2>3. Len(Between(p, x, y)) = w
    BY <2>1, <2>2
  <2>4. ASSUME NEW i \in 1..k PROVE Piece(Between(p, x, y)[i]) \in bad
    <3> DEFINE j == i + x - 1
    <3>1. i \in 1..w /\ j \in 1..l /\ k + a < j /\ j <= 2 * k + a
      BY <1>5, <1>6, <2>1
    <3> HIDE DEF j
    <3>2. Piece(p[j]) \in bad
      BY <1>3, <3>1
    <3> QED
      BY <2>2, <2>3, <3>1, <3>2 DEF j
  <2>5. Defects(Between(p, x, y)) >= k
    BY <2>2, <2>3, <2>4, AtLeast
  <2> QED
    BY <2>5 DEF x, y
<1> QED
  BY <1>7, <1>8 DEF p

(* A list without rows of defective events has no defect. *)
LEMMA NoDefectInGoods ==
  ASSUME NEW R, NEW rows \in Seq(R), \A i \in DOMAIN rows : Piece(rows[i]) \notin bad
  PROVE  Defects(rows) = 0
<1>1. {i \in DOMAIN rows : Piece(rows[i]) \in bad} = {}
  OBVIOUS
<1> QED
  BY <1>1, FS_EmptySet DEF Defects

(* The plan on disk, of a script that ended, carries its drift signal: whole windows of good rows, *)
(* every good P4 piece once, and the defects that make both windows critical (PlanCarriesDrift).   *)
THEOREM PlansCarryDrift == Spec => []PlanCarriesDrift
<1>1. ASSUME DatasetsInv, made.plan # None
      PROVE  LET a == made.plan
                 stable == RowsOf(files.plan, {"stable"})
                 p4 == RowsOf(files.plan, DriftPhases)
                 good == Goods(P4Source, bad)
             IN /\ Len(stable) % a.window = 0 /\ Defects(stable) = 0
                /\ \A i \in DOMAIN good : Cardinality({j \in DOMAIN p4 : p4[j] = good[i]}) = 1
                /\ (/\ a.suspected = a.window /\ a.critical <= a.window
                    /\ Len(good) >= 2 * (a.window - a.critical) /\ Len(good) < Len(P4Source))
                   => /\ Defects(First(p4, a.window)) >= a.critical
                      /\ Defects(Between(p4, a.window + 1, 2 * a.window)) >= a.critical
  <2> DEFINE a == made.plan
             s == Baseline(FullReplay, bad, a.window)
             p == OrderedP4(P4Source, bad, a.suspected, a.critical)
             m == Cardinality(PieceB \ bad)
             h == Sorted(PieceB \ bad)
  <2>1. HasBuilt(bad, files, "plan", a)
    BY <1>1 DEF DatasetsInv, BuildsAreWhole, Scripts
  <2>2. a \in PlanArgs /\ files.plan = DriftPlan(FullReplay, bad, a)
    <3>1. a \in PlanArgs
      BY <2>1 DEF HasBuilt, Args
    <3>2. \A write \in PlanFiles(bad, a) : files[write.file] = write.rows
      BY <2>1 DEF HasBuilt, Builds
    <3>3. [file |-> "plan", rows |-> DriftPlan(FullReplay, bad, a)] \in PlanFiles(bad, a)
      BY Zenon DEF PlanFiles
    <3> HIDE DEF a
    <3> QED
      BY <3>1, <3>2, <3>3
  <2> HIDE DEF a
  <2>3. a.window \in Nat \ {0} /\ a.suspected \in Nat /\ a.critical \in Nat
    BY <2>2, DatasetsAssumption
  <2>4. PICK n \in Nat : n <= 3 * m /\ n % a.window = 0 /\ s = Views(h, n)
    BY <2>3, BaselineIs
  <2>5. (PieceB \ bad) \in SUBSET Pieces
    BY DEF PieceB
  <2>6. m \in Nat /\ h \in [1..m -> PieceB \ bad] /\ h \in [1..m -> Pieces]
    BY <2>5, SortedPieces
  <2> HIDE DEF m, h
  <2>7. /\ s \in Seq(Rows) /\ Len(s) = n
        /\ \A i \in DOMAIN s : Piece(s[i]) \notin bad
    <3>1. /\ Views(h, n) \in Seq(Rows) /\ Len(Views(h, n)) = n /\ DOMAIN Views(h, n) = 1..n
          /\ \A i \in 1..n : /\ ((i - 1) \div 3) + 1 \in 1..m
                             /\ Piece(Views(h, n)[i]) = h[((i - 1) \div 3) + 1]
      <4> HIDE DEF s, p
      <4>1. HasViews(h, m, n)
        BY <2>4, <2>6 DEF HasViews
      <4> QED
        BY <4>1, ViewsAre, Zenon
    <3> HIDE DEF s
    <3> QED
      BY <2>4, <2>6, <3>1
  <2>8. p \in Seq(Rows)
    <3>1. p \in Seq(RowsOfP4)
      BY <2>3, P4RowsAre
    <3>2. RowsOfP4 \subseteq Rows
      BY DEF RowsOfP4
    <3> HIDE DEF p
    <3> QED
      BY <3>1, <3>2, SeqMonotonic
  <2>9. RowsOf(files.plan, {"stable"}) = s /\ RowsOf(files.plan, DriftPhases) = p
    <3>1. /\ Baseline(FullReplay, bad, a.window) \in Seq(Rows)
          /\ OrderedP4(P4Source, bad, a.suspected, a.critical) \in Seq(Rows)
      BY <2>7, <2>8
    <3> HIDE DEF s, p
    <3>2. /\ RowsOf(DriftPlan(FullReplay, bad, a), {"stable"}) = Baseline(FullReplay, bad, a.window)
          /\ RowsOf(DriftPlan(FullReplay, bad, a), DriftPhases)
               = OrderedP4(P4Source, bad, a.suspected, a.critical)
      BY <3>1, PlanRows
    <3> QED
      BY <2>2, <3>2, Zenon DEF s, p
  <2>10. \A i \in DOMAIN Goods(P4Source, bad) :
           Cardinality({j \in DOMAIN p : p[j] = Goods(P4Source, bad)[i]}) = 1
    <3>1. p = OrderedP4(P4Source, bad, a.suspected, a.critical)
      OBVIOUS
    <3> HIDE DEF p
    <3>2. ASSUME NEW i \in DOMAIN Goods(P4Source, bad)
          PROVE  Times(p, Goods(P4Source, bad)[i]) = 1
      BY <2>3, <3>1, GoodsComeOnce
    <3> QED
      BY <3>2, Zenon DEF Times
  <2>11. Defects(s) = 0
    <3> HIDE DEF s
    <3> QED
      BY <2>7, NoDefectInGoods
  <2>12. ASSUME a.suspected = a.window, a.critical <= a.window,
                Len(Goods(P4Source, bad)) >= 2 * (a.window - a.critical),
                Len(Goods(P4Source, bad)) < Len(P4Source)
         PROVE  /\ Defects(First(p, a.window)) >= a.critical
                /\ Defects(Between(p, a.window + 1, 2 * a.window)) >= a.critical
    <3> DEFINE w == a.window
               k == a.critical
               P == OrderedP4(P4Source, bad, w, k)
    <3>1. w \in Nat /\ k \in Nat /\ k <= w
      BY <2>3, <2>12
    <3>2. Len(Goods(P4Source, bad)) >= 2 * (w - k)
      BY <2>12
    <3> HIDE DEF w, k
    <3>3. Defects(First(P, w)) >= k /\ Defects(Between(P, w + 1, 2 * w)) >= k
      BY <2>12, <3>1, <3>2, WindowsAreCritical, Zenon
    <3>4. p = P
      BY <2>12 DEF w, k
    <3> QED
      BY <3>3, <3>4, Zenon DEF w, k
  <2>13. Len(s) % a.window = 0
    BY <2>4, <2>7
  <2> HIDE DEF s, p
  <2>14. /\ Len(RowsOf(files.plan, {"stable"})) % a.window = 0
         /\ Defects(RowsOf(files.plan, {"stable"})) = 0
    BY <2>9, <2>11, <2>13
  <2> QED
    BY <2>9, <2>10, <2>12, <2>14, Zenon DEF a
<1>2. DatasetsInv => PlanCarriesDrift
  BY <1>1, Zenon DEF PlanCarriesDrift
<1> QED
  BY <1>2, DatasetsInvHolds, PTL
=============================================================================

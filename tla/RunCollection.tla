--------------------------- MODULE RunCollection ---------------------------
(***************************************************************************)
(* The phase-5 studies: a run of the agent is collected on the phone under *)
(* a frozen experiment manifest, its directory is hashed into an intake    *)
(* receipt, one operator who watched the run live freezes a ground truth   *)
(* over the receipt, and the comparison of the verifiers opens that ground *)
(* truth only after both verifiers have decided.  Four studies use the     *)
(* same tools with rules of their own: the black-box pilot, the cross-app  *)
(* smoke, the realism pilot and the final cohort, which starts from the    *)
(* ground truth of the realism pilot.                                      *)
(*                                                                         *)
(* Every artefact is written once, into a directory that must not exist.   *)
(* What can go wrong is everything between two tools: a collector that     *)
(* dies, a manifest re-frozen for a new runner, a run directory that       *)
(* changes after it was hashed, receipts and verdicts of different runs    *)
(* mixed up on a command line.                                             *)
(***************************************************************************)
EXTENDS Integers, Sequences, FiniteSets

CONSTANTS
  Runs,            \* run ids, one directory each
  Studies,         \* [Runs -> study] assignments a behaviour may start with
  TaskOrdinal,     \* the task of a run, as its place in its study's manifest
  Manifests,       \* study |-> the editions of its manifest, in order
  Probes,          \* study |-> the package probe report
  Disposition,     \* the disposition of the retired predecessor run
  Reviews,         \* what an operator may enter
  Actions,         \* run |-> the actions its trace would hold
  MaxTouches,      \* bound: changes made to run directories afterwards
  MaxReceipts,     \* bound: receipts
  MaxTruths,       \* bound: ground truths
  MaxReports,      \* bound: comparisons started
  None

StudyNames == {"pilot", "cross_app", "realism", "cohort"}

ASSUME StudiesAssumption == Studies \subseteq [Runs -> StudyNames]
ASSUME NoneAssumption == None \notin {"PASS", "FAIL", "ABSTAIN"}

VARIABLES
  study,           \* which study a run belongs to
  edition,         \* study |-> edition of its manifest that is in force
  runner,          \* hash of the installed runner module
  pilot,           \* the ground truth whose hash the cohort's code carries
  collector,       \* run |-> the collecting process
  disk,            \* run |-> the files of the run directory
  tree,            \* run |-> how often its directory changed since the run
  receipts,        \* intake receipts on disk
  truths,          \* frozen ground truths on disk
  comparison,      \* the comparing process
  reports,         \* rows of the comparison reports on disk
  started          \* comparisons started

collectionVars == << study, edition, runner, pilot, collector, disk, tree,
                     receipts, truths, comparison, reports, started >>

Statuses == {"RUN_COMPLETE", "RUN_FAILED", "RUN_ABORTED", "RUN_IN_PROGRESS"}

Manifest(s) == Manifests[s][edition[s]]

(* ----- the manifests: what each study freezes before collection -------- *)

InOrder(m) ==
  /\ \A i \in DOMAIN m.tasks : m.tasks[i].ordinal = i
  /\ \A i, j \in DOMAIN m.tasks : m.tasks[i].id = m.tasks[j].id => i = j
  /\ m.order = [i \in DOMAIN m.tasks |-> m.tasks[i].id]

PilotManifestOk(m) ==
  /\ m.frozen
  /\ Len(m.tasks) \in 1..20
  /\ InOrder(m)
  /\ \A i \in DOMAIN m.tasks : m.tasks[i].bound /\ m.tasks[i].unseen

CrossAppManifestOk(m) ==
  /\ m.frozen
  /\ Len(m.tasks) = 3
  /\ InOrder(m)
  /\ \A i \in DOMAIN m.tasks :
       LET t == m.tasks[i]
       IN  /\ t.initial = "xiaohongshu" /\ t.target = "taobao" /\ t.bound
           /\ t.min = t.max /\ t.max \in {1, 2}

RealismManifestOk(m) ==
  /\ m.frozen
  /\ m.predecessor = "RETIRED"
  /\ Len(m.tasks) = 1
  /\ InOrder(m)
  /\ LET t == m.tasks[1]
     IN  /\ t.initial = "taobao" /\ t.target = "xiaohongshu" /\ t.bound
         /\ t.min = 1 /\ t.max = 1

CohortTaskOk(t) ==
  /\ t.initial # t.target
  /\ t.bound
  /\ t.min <= t.max /\ t.max <= 2

CohortManifestOk(m) ==
  /\ m.frozen
  /\ m.pilot = "FAIL"
  /\ Len(m.tasks) = 12
  /\ InOrder(m)
  /\ \A i \in DOMAIN m.tasks : CohortTaskOk(m.tasks[i])
  /\ {m.tasks[i].initial : i \in DOMAIN m.tasks} = {"taobao", "xiaohongshu"}

ManifestOk(s) ==
  CASE s = "pilot"     -> PilotManifestOk(Manifest(s))
    [] s = "cross_app" -> CrossAppManifestOk(Manifest(s))
    [] s = "realism"   -> RealismManifestOk(Manifest(s))
    [] s = "cohort"    -> CohortManifestOk(Manifest(s))

TaskAt(r, e) == Manifests[study[r]][e].tasks[TaskOrdinal[r]]
Task(r) == TaskAt(r, edition[study[r]])

(* ----- collecting ------------------------------------------------------ *)

\* The report must be of a passed probe of the frozen installed packages.
CrossAppProbeOk(s) ==
  Probes[s].mode = "READ_ONLY" /\ Probes[s].status = "PASS" /\ Probes[s].apps = Manifest(s).apps
RealismProbeOk(s) ==
  Probes[s].status = "PASS" /\ Probes[s].apps = Manifest(s).apps
CohortProbeOk(s) ==
  Probes[s].status = "PASS" /\ Probes[s].apps = Manifest(s).apps

PredecessorRetired == Disposition = Manifest("realism").predecessor

PilotTruthOk == pilot # None /\ pilot \in truths /\ pilot.verdict = "FAIL"

\* The record the collector writes; the agent field is the runner's hash as
\* the manifest has it and as the preflight found it.
RunRecord(r, c, status, code) ==
  [study |-> study[r], edition |-> c.edition, runner |-> c.runner,
   task |-> TaskAt(r, c.edition).id,
   initial |-> TaskAt(r, c.edition).initial, target |-> TaskAt(r, c.edition).target,
   apps |-> Manifests[study[r]][c.edition].apps, status |-> status, code |-> code]

RecordShapeOk(x) == x.status \in Statuses /\ x.code \in {None} \cup Nat
PilotRecordOk(x) == RecordShapeOk(x) /\ x.initial = "taobao"
CrossAppRecordOk(x) ==
  RecordShapeOk(x) /\ x.initial = "xiaohongshu" /\ x.target = "taobao" /\ x.apps = "installed"
RealismRecordOk(x) ==
  /\ RecordShapeOk(x) /\ x.initial = "taobao" /\ x.target = "xiaohongshu"
  /\ x.apps = "installed" /\ x.task = Manifests["realism"][1].tasks[1].id
CohortRecordOk(x) ==
  RecordShapeOk(x) /\ {x.initial, x.target} \subseteq {"taobao", "xiaohongshu"} /\ x.apps = "installed"

RecordOk(x) ==
  CASE x.study = "pilot"     -> PilotRecordOk(x)
    [] x.study = "cross_app" -> CrossAppRecordOk(x)
    [] x.study = "realism"   -> RealismRecordOk(x)
    [] x.study = "cohort"    -> CohortRecordOk(x)

Fresh(r) == disk[r].dir = FALSE
RunnerIsFrozen(r) == runner = Manifest(study[r]).runner

PilotPreflight(r) == study[r] = "pilot" /\ Fresh(r) /\ RunnerIsFrozen(r) /\ ManifestOk("pilot")
CrossAppPreflight(r) ==
  /\ study[r] = "cross_app" /\ Fresh(r) /\ RunnerIsFrozen(r)
  /\ CrossAppProbeOk("cross_app") /\ ManifestOk("cross_app")
RealismPreflight(r) ==
  /\ study[r] = "realism" /\ Fresh(r) /\ RunnerIsFrozen(r)
  /\ PredecessorRetired /\ RealismProbeOk("realism") /\ ManifestOk("realism")
CohortPreflight(r) ==
  /\ study[r] = "cohort" /\ Fresh(r) /\ RunnerIsFrozen(r)
  /\ PilotTruthOk /\ CohortProbeOk("cohort") /\ ManifestOk("cohort")

\* The manifest and the hash of the runner are read once, here; the wait for
\* the phone's shell lies between this and the run.
Preflight(r) ==
  /\ collector[r].pc = "idle"
  /\ (PilotPreflight(r) \/ CrossAppPreflight(r) \/ RealismPreflight(r) \/ CohortPreflight(r))
  /\ collector' = [collector EXCEPT ![r] =
        [pc |-> "ready", edition |-> edition[study[r]], runner |-> runner]]
  /\ UNCHANGED << study, edition, runner, pilot, disk, tree, receipts, truths,
                  comparison, reports, started >>

\* The run directory with its task file and the start record; from here on
\* the run id is spent.
StartRun(r) ==
  /\ collector[r].pc = "ready"
  /\ Fresh(r)
  /\ RecordOk(RunRecord(r, collector[r], "RUN_IN_PROGRESS", None))
  /\ disk' = [disk EXCEPT ![r] = [dir |-> TRUE, manifest |-> None, trace |-> "none"]]
  /\ collector' = [collector EXCEPT ![r] =
        [pc |-> "running", edition |-> collector[r].edition, runner |-> collector[r].runner]]
  /\ UNCHANGED << study, edition, runner, pilot, tree, receipts, truths, comparison, reports, started >>

\* The runner process leaves a trace, whole or not, whatever its exit code.
FinishRun(r) ==
  /\ collector[r].pc = "running"
  /\ \E code \in {0, 1}, left \in {"none", "partial", "complete"} :
       disk' = [disk EXCEPT ![r] =
          [dir |-> TRUE, trace |-> left,
           manifest |-> RunRecord(r, collector[r],
              IF code = 0 THEN "RUN_COMPLETE" ELSE "RUN_FAILED", code)]]
  /\ collector' = [collector EXCEPT ![r] = [pc |-> "idle"]]
  /\ UNCHANGED << study, edition, runner, pilot, tree, receipts, truths, comparison, reports, started >>

\* Control-C, or an exception around the subprocess.
InterruptRun(r) ==
  /\ collector[r].pc = "running"
  /\ \E s \in {"RUN_ABORTED", "RUN_FAILED"}, left \in {"none", "partial", "complete"} :
       disk' = [disk EXCEPT ![r] =
          [dir |-> TRUE, trace |-> left,
           manifest |-> RunRecord(r, collector[r], s, IF s = "RUN_ABORTED" THEN 130 ELSE 1)]]
  /\ collector' = [collector EXCEPT ![r] = [pc |-> "idle"]]
  /\ UNCHANGED << study, edition, runner, pilot, tree, receipts, truths, comparison, reports, started >>

\* The machine or the process dies: what is on disk stays, with no manifest
\* or with a torn one that no tool can read.
CrashRun(r) ==
  /\ collector[r].pc \in {"ready", "running"}
  /\ collector' = [collector EXCEPT ![r] = [pc |-> "idle"]]
  /\ \E left \in {"none", "partial", "complete"} :
       disk' = IF collector[r].pc = "running"
               THEN [disk EXCEPT ![r] = [dir |-> TRUE, manifest |-> None, trace |-> left]]
               ELSE disk
  /\ UNCHANGED << study, edition, runner, pilot, tree, receipts, truths, comparison, reports, started >>

(* ----- intake ---------------------------------------------------------- *)

TraceAudited(r) == disk[r].trace = "complete"
SourceTree(r) == tree[r]

\* What the run's record must share with the manifest in force.
TaskBinding(r, x) == x.initial = Task(r).initial
PilotBinding(r, x) ==
  x.edition = edition["pilot"] /\ x.initial = Task(r).initial /\ x.runner = Manifest("pilot").runner
CrossAppBinding(r, x) ==
  /\ x.edition = edition["cross_app"] /\ x.initial = Task(r).initial /\ x.target = Task(r).target
  /\ x.apps = Manifest("cross_app").apps /\ x.runner = Manifest("cross_app").runner
RealismBinding(r, x) ==
  /\ x.edition = edition["realism"]
  /\ x.apps = Manifest("realism").apps /\ x.runner = Manifest("realism").runner
CohortBinding(r, x) ==
  /\ x.edition = edition["cohort"] /\ x.initial = Task(r).initial /\ x.target = Task(r).target
  /\ x.apps = Manifest("cohort").apps /\ x.runner = Manifest("cohort").runner

Bound(r, x) ==
  CASE study[r] = "pilot"     -> PilotBinding(r, x)
    [] study[r] = "cross_app" -> CrossAppBinding(r, x)
    [] study[r] = "realism"   -> RealismBinding(r, x)
    [] study[r] = "cohort"    -> CohortBinding(r, x)

\* What the actions say of the two apps; intake infers no success from it.
Opened(r) == {a.app : a \in {b \in {Actions[r][i] : i \in DOMAIN Actions[r]} : b.type = "open_app"}}
CrossAppFacts(r) == [initial |-> Task(r).initial, opened |-> Opened(r), requested |-> "taobao" \in Opened(r)]
RealismFacts(r) == [initial |-> Task(r).initial, opened |-> Opened(r), requested |-> "xiaohongshu" \in Opened(r)]
CohortFacts(r) == [initial |-> Task(r).initial, opened |-> Opened(r), requested |-> Task(r).target \in Opened(r)]

Facts(r) ==
  CASE study[r] = "pilot"     -> None
    [] study[r] = "cross_app" -> CrossAppFacts(r)
    [] study[r] = "realism"   -> RealismFacts(r)
    [] study[r] = "cohort"    -> CohortFacts(r)

Accepted(x) == x.status = "ACCEPTED"

Receipt(r) ==
  LET ok == disk[r].manifest.status = "RUN_COMPLETE"
  IN  [run |-> r, study |-> study[r], edition |-> edition[study[r]], task |-> Task(r).id,
       tree |-> SourceTree(r), collection |-> disk[r].manifest.status,
       status |-> IF ok THEN "ACCEPTED" ELSE "REJECTED_COLLECTION_INCOMPLETE",
       frames |-> IF ok THEN Len(Actions[r]) ELSE 0,
       facts |-> IF ok THEN Facts(r) ELSE None]

\* An accepted receipt is of a complete run and has its facts, a rejected
\* one has none; the pilot's validator does not relate the two.
Coherent(x) ==
  IF Accepted(x) THEN x.collection = "RUN_COMPLETE" /\ x.frames > 0 /\ x.facts # None
                 ELSE x.collection # "RUN_COMPLETE" /\ x.frames = 0 /\ x.facts = None
PilotReceiptOk(x) == x.run \in Runs
CrossAppReceiptOk(x) ==
  Coherent(x) /\ (Accepted(x) => /\ x.facts.initial = "xiaohongshu"
                                 /\ x.facts.requested = ("taobao" \in x.facts.opened))
RealismReceiptOk(x) ==
  Coherent(x) /\ (Accepted(x) => /\ x.facts.initial = "taobao"
                                 /\ x.facts.requested = ("xiaohongshu" \in x.facts.opened))
CohortReceiptOk(x) ==
  Coherent(x) /\ (Accepted(x) => /\ x.facts.initial \in {"taobao", "xiaohongshu"}
                                 /\ x.facts.requested \in BOOLEAN)

ReceiptOk(x) ==
  CASE x.study = "pilot"     -> PilotReceiptOk(x)
    [] x.study = "cross_app" -> CrossAppReceiptOk(x)
    [] x.study = "realism"   -> RealismReceiptOk(x)
    [] x.study = "cohort"    -> CohortReceiptOk(x)

Readable(r) == disk[r].manifest # None /\ RecordOk(disk[r].manifest)

\* A run that failed gets a rejected receipt; a run that ended well with a
\* trace that does not pass the audit gets none at all.
Ingest(r) ==
  /\ Cardinality(receipts) < MaxReceipts
  /\ Readable(r)
  /\ Bound(r, disk[r].manifest)
  /\ disk[r].trace # "none"
  /\ disk[r].manifest.status = "RUN_COMPLETE" => TraceAudited(r)
  /\ ReceiptOk(Receipt(r))
  /\ ManifestOk(study[r])
  /\ receipts' = receipts \cup {Receipt(r)}
  /\ UNCHANGED << study, edition, runner, pilot, collector, disk, tree, truths, comparison, reports, started >>

(* ----- the operator ---------------------------------------------------- *)

FramesOk(f, n, required) == f \subseteq 1..n /\ (required => f # {})

\* NONE is the code of a PASS and of nothing else; a FAIL has a code.
FailureCodesOk(v) ==
  CASE v.codes = "none given" -> v.verdict # "FAIL"
    [] v.codes = "NONE"       -> v.verdict = "PASS"
    [] v.codes = "code"       -> v.verdict # "PASS"

RealismObservationsOk(v) == v.verdict = "PASS" => v.rubric = "every item"
CohortObservationsOk(v) == v.verdict = "PASS" => v.rubric = "every item"
CohortSlotsOk(v) == v.slots \in 1..2

PilotReviewOk(v, x, t) ==
  v.live /\ v.acknowledged /\ FailureCodesOk(v) /\ FramesOk(v.source \cup v.target, x.frames, TRUE)

CrossAppReviewOk(v, x, t) ==
  /\ v.live /\ v.acknowledged /\ FailureCodesOk(v)
  /\ FramesOk(v.source, x.frames, TRUE) /\ FramesOk(v.target, x.frames, TRUE)
  /\ v.verdict = "PASS" => v.slots = t.min /\ v.query = "every slot"

RealismReviewOk(v, x, t) ==
  /\ v.live /\ v.acknowledged /\ FailureCodesOk(v) /\ RealismObservationsOk(v)
  /\ FramesOk(v.source, x.frames, v.verdict = "PASS")
  /\ FramesOk(v.target, x.frames, v.verdict = "PASS")
  /\ v.verdict = "PASS" => v.slots # 0 /\ v.query = "every slot"

\* Unlike the realism pilot's, the slots and the query are demanded of every
\* verdict: a run that never reached the second app has neither.
CohortReviewOk(v, x, t) ==
  /\ v.live /\ v.acknowledged /\ FailureCodesOk(v) /\ CohortObservationsOk(v)
  /\ FramesOk(v.source, x.frames, v.verdict = "PASS")
  /\ FramesOk(v.target, x.frames, v.verdict = "PASS")
  /\ CohortSlotsOk(v) /\ v.slots \in t.min..t.max
  /\ v.query # "empty" /\ (v.verdict = "PASS" => v.query = "every slot")

ReviewOk(v, x, t) ==
  CASE x.study = "pilot"     -> PilotReviewOk(v, x, t)
    [] x.study = "cross_app" -> CrossAppReviewOk(v, x, t)
    [] x.study = "realism"   -> RealismReviewOk(v, x, t)
    [] x.study = "cohort"    -> CohortReviewOk(v, x, t)

\* The receipt is checked against the directory as it is now.
ReceiptHolds(x) == ReceiptOk(x) /\ x.tree = SourceTree(x.run)

\* The output directory must be new, but it may lie inside the run's own.
RecordTruth(x, inside) ==
  /\ x \in receipts
  /\ Cardinality(truths) < MaxTruths
  /\ ReceiptHolds(x)
  /\ Accepted(x) /\ x.frames > 0
  /\ x.edition = edition[x.study]
  /\ ManifestOk(x.study)
  /\ \E v \in Reviews :
       /\ ReviewOk(v, x, Task(x.run))
       /\ truths' = truths \cup {[run |-> x.run, study |-> x.study, task |-> x.task,
                                  edition |-> x.edition, tree |-> x.tree, verdict |-> v.verdict]}
  /\ inside => tree[x.run] < MaxTouches
  /\ tree' = IF inside THEN [tree EXCEPT ![x.run] = @ + 1] ELSE tree
  /\ UNCHANGED << study, edition, runner, pilot, collector, disk, receipts, comparison, reports, started >>

\* The cohort's code is written with the hash of the pilot's ground truth.
FreezePilot ==
  /\ pilot = None
  /\ \E g \in truths : g.study = "realism" /\ g.verdict = "FAIL" /\ pilot' = g
  /\ UNCHANGED << study, edition, runner, collector, disk, tree, receipts, truths,
                  comparison, reports, started >>

(* ----- the comparison -------------------------------------------------- *)

CriterionStatuses == {"SATISFIED", "VIOLATED", "UNKNOWN_EVIDENCE"}

\* A child criterion does not re-judge its prerequisite.
Composed(own, parent) ==
  IF own = "VIOLATED" \/ parent = "SATISFIED" THEN own
  ELSE IF parent = "VIOLATED" THEN "VIOLATED" ELSE "UNKNOWN_EVIDENCE"

FullVerdict(statuses) ==
  IF "VIOLATED" \in statuses THEN "FAIL"
  ELSE IF statuses # {"SATISFIED"} THEN "ABSTAIN" ELSE "PASS"

\* The frame after the first click that follows an input, if the target app
\* was not opened before it: frame N is captured before action N.
SourceFrame(r, target) ==
  LET a == Actions[r]
      typed(i) == \E j \in 1..i - 1 : a[j].type = "input"
      sources == {i \in DOMAIN a : /\ a[i].type = "click" /\ typed(i)
                                   /\ \A j \in 1..i : ~(a[j].type = "open_app" /\ a[j].app = target)}
  IN  IF \E i \in sources : i < Len(a)
      THEN 1 + CHOOSE i \in sources : \A j \in sources : i <= j ELSE None

Flow(r, target) == IF target \in Opened(r) THEN "SATISFIED" ELSE "VIOLATED"
Ending(r, target) ==
  IF Actions[r][Len(Actions[r])].type = "done" /\ target \in Opened(r) THEN "SATISFIED" ELSE "VIOLATED"

\* The vision model answers each page with a status per criterion.
Statements(r) ==
  LET target == disk[r].manifest.target
  IN  {{Flow(r, target), Ending(r, target), sorted, pages, Composed(own, sorted)} :
         sorted, pages, own \in CriterionStatuses}
FullVerdicts(r) == {FullVerdict(statuses) : statuses \in Statements(r)}

StartComparison(cases) ==
  /\ comparison = None
  /\ started < MaxReports
  /\ started' = started + 1
  /\ comparison' = [todo |-> cases, pc |-> "full", row |-> None, rows |-> {}]
  /\ UNCHANGED << study, edition, runner, pilot, collector, disk, tree, receipts, truths, reports >>

Case == Head(comparison.todo)

\* The cross-app smoke's manifest is not among those the loader looks for.
Loadable(r) == study[r] # "cross_app" /\ disk[r].manifest # None /\ disk[r].trace # "none"

\* Only the tree hash of the receipt is compared, not its status; the images
\* are read after the check.
DecideFull ==
  /\ comparison # None /\ comparison.pc = "full"
  /\ LET r == Case.run
     IN  /\ Loadable(r)
         /\ Case.receipt.tree = SourceTree(r) /\ Case.receipt.run = r
         /\ SourceFrame(r, disk[r].manifest.target) # None
         /\ \E v \in FullVerdicts(r) :
              comparison' = [todo |-> comparison.todo, pc |-> "mobiflow", rows |-> comparison.rows,
                 row |-> [run |-> r, task |-> disk[r].manifest.task, full |-> v]]
  /\ UNCHANGED << study, edition, runner, pilot, collector, disk, tree, receipts, truths, reports, started >>

DecideMobiflow ==
  /\ comparison # None /\ comparison.pc = "mobiflow"
  /\ \E v \in {"PASS", "FAIL"} :
       comparison' = [todo |-> comparison.todo, pc |-> "truth", rows |-> comparison.rows,
          row |-> [run |-> comparison.row.run, task |-> comparison.row.task,
                   full |-> comparison.row.full, mobiflow |-> v]]
  /\ UNCHANGED << study, edition, runner, pilot, collector, disk, tree, receipts, truths, reports, started >>

AnyTruthOk(g, r, task) == g.study \in {"realism", "cohort"}
FrozenTruthOk(g, r, task) ==
  /\ g.study \in {"realism", "cohort"}
  /\ g.run = r /\ g.task = task

OpenTruth ==
  /\ comparison # None /\ comparison.pc = "truth"
  /\ Case.truth \in truths
  /\ FrozenTruthOk(Case.truth, comparison.row.run, comparison.row.task)
  /\ LET rest == Tail(comparison.todo)
         row == [run |-> comparison.row.run, task |-> comparison.row.task,
                 full |-> comparison.row.full, mobiflow |-> comparison.row.mobiflow,
                 truth |-> Case.truth]
     IN  comparison' = [todo |-> rest, row |-> None, rows |-> comparison.rows \cup {row},
                        pc |-> IF rest = << >> THEN "write" ELSE "full"]
  /\ UNCHANGED << study, edition, runner, pilot, collector, disk, tree, receipts, truths, reports, started >>

WriteReport ==
  /\ comparison # None /\ comparison.pc = "write"
  /\ reports' = reports \cup comparison.rows
  /\ comparison' = None
  /\ UNCHANGED << study, edition, runner, pilot, collector, disk, tree, receipts, truths, started >>

\* A case that fails any check, a model that keeps failing, or a crash: the
\* decisions already paid for are lost with the process.
AbortComparison ==
  /\ comparison # None
  /\ comparison' = None
  /\ UNCHANGED << study, edition, runner, pilot, collector, disk, tree, receipts, truths, reports, started >>

(* ----- what happens outside the tools ---------------------------------- *)

\* The agent is edited, and a manifest is frozen anew for it.
EditRunner ==
  /\ runner = 1
  /\ runner' = 2
  /\ UNCHANGED << study, edition, pilot, collector, disk, tree, receipts, truths, comparison, reports, started >>

Refreeze(s) ==
  /\ edition[s] < Len(Manifests[s])
  /\ edition' = [edition EXCEPT ![s] = @ + 1]
  /\ UNCHANGED << study, runner, pilot, collector, disk, tree, receipts, truths, comparison, reports, started >>

\* Somebody changes a file of a finished run directory.
TouchRun(r) ==
  /\ collector[r].pc = "idle" /\ disk[r].dir
  /\ tree[r] < MaxTouches
  /\ tree' = [tree EXCEPT ![r] = @ + 1]
  /\ UNCHANGED << study, edition, runner, pilot, collector, disk, receipts, truths, comparison, reports, started >>

CollectionInit ==
  /\ study \in Studies
  /\ edition = [s \in DOMAIN Manifests |-> 1]
  /\ runner = 1
  /\ pilot = None
  /\ collector = [r \in Runs |-> [pc |-> "idle"]]
  /\ disk = [r \in Runs |-> [dir |-> FALSE, manifest |-> None, trace |-> "none"]]
  /\ tree = [r \in Runs |-> 0]
  /\ receipts = {} /\ truths = {} /\ reports = {}
  /\ comparison = None /\ started = 0

\* The cases named on the command line: one run with any receipt and any
\* truth, or two runs with receipts and truths of their own.
CommandLines ==
  LET cases == [run : Runs, receipt : receipts, truth : truths]
      own == {c \in cases : c.receipt.run = c.run /\ c.truth.run = c.run}
  IN  {<< c >> : c \in cases} \cup {cs \in own \X own : cs[1].run # cs[2].run}

CollectionNext ==
  \/ \E r \in Runs : Preflight(r) \/ StartRun(r) \/ FinishRun(r) \/ InterruptRun(r) \/ CrashRun(r)
  \/ \E r \in Runs : Ingest(r) \/ TouchRun(r)
  \/ \E x \in receipts, inside \in BOOLEAN : RecordTruth(x, inside)
  \/ FreezePilot
  \/ \E cases \in CommandLines : StartComparison(cases)
  \/ DecideFull \/ DecideMobiflow \/ OpenTruth \/ WriteReport \/ AbortComparison
  \/ EditRunner
  \/ \E r \in Runs : Refreeze(study[r])

CollectionSpec == CollectionInit /\ [][CollectionNext]_collectionVars

(* ----- properties ------------------------------------------------------ *)

\* A frozen ground truth is of a run that ended well, with a whole trace,
\* and the run, its receipt and its review stand under one edition of the
\* manifest and the runner that edition froze; nobody else's receipt, no
\* failed run and no re-frozen manifest slips in between the three tools.
TruthIsOfAFinishedRun ==
  \A g \in truths :
    /\ \E x \in receipts : Accepted(x) /\ x.run = g.run /\ x.tree = g.tree /\ x.edition = g.edition
    /\ disk[g.run].trace = "complete"
    /\ LET m == disk[g.run].manifest
       IN  /\ m.status = "RUN_COMPLETE" /\ m.edition = g.edition
           /\ m.runner = Manifests[g.study][g.edition].runner

\* A reported row joins two decisions and a verdict of one run and task, and
\* although the comparison does not look at the status of the receipt, the
\* run was one that ended well: only such a run has a ground truth to open.
ReportsAreOfReviewedRuns ==
  \A w \in reports :
    /\ w.full # None /\ w.mobiflow # None
    /\ w.truth.run = w.run /\ w.truth.task = w.task
    /\ w.truth.study \in {"realism", "cohort"}
    /\ disk[w.run].manifest.status = "RUN_COMPLETE"

\* No run of the final cohort exists before the realism pilot was reviewed
\* and found to FAIL.
CohortFollowsThePilot ==
  \A r \in Runs : study[r] = "cohort" /\ disk[r].dir =>
    \E g \in truths : g.study = "realism" /\ g.verdict = "FAIL"

\* Whatever is retried, killed or repeated: a receipt, a ground truth, a
\* reported row and the manifest of a finished run stay as they were written.
ArtefactsAreWrittenOnce ==
  [][/\ receipts \subseteq receipts' /\ truths \subseteq truths' /\ reports \subseteq reports'
     /\ \A r \in Runs : disk[r].manifest # None => disk'[r].manifest = disk[r].manifest]_collectionVars
=============================================================================

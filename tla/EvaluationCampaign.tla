------------------------ MODULE EvaluationCampaign ------------------------
(***************************************************************************)
(* A plan of traces evaluated by repeated calls of                         *)
(* tools/run_automated_evaluation.py.  One call prepares every task        *)
(* (collector, strict intake, contract freeze), then verifies the traces   *)
(* that are ready and rewrites results.jsonl after each of them.  Traces,  *)
(* receipts, freezes, diagnostics, results and reviews stay on the disk;   *)
(* the call's own memory is lost when it ends, is refused or dies.         *)
(*                                                                         *)
(* A task is [kind, run, family]; a run is a natural number, the order of  *)
(* run ids.  A tree is the content of a run directory, a receipt names the *)
(* tree it accepted.  verify_trace_case compares the two once and reads    *)
(* the directory before and after it, in steps of their own: a directory   *)
(* may change between them.  What TraceVerifier makes of the evidence is   *)
(* a choice here.  A person may write a judgement into user_review.csv at  *)
(* any moment.  MaxCrashes, MaxJudgements and MaxEdits bound deaths,       *)
(* judgements and changes to accepted directories.                         *)
(***************************************************************************)
EXTENDS Naturals, Sequences, FiniteSets

CONSTANTS Plan,            \* the tasks of automated_evaluation_plan.json, in order
          Trees,           \* what a run directory may contain
          JitContracts,    \* what two compilations of one unseen task may return
          Modes,           \* --execute-runner, --resume, --fail-fast, --diagnostics of a call
          Absent,          \* no such file
          Judgements,      \* what a person may write of a verdict
          MaxCrashes, MaxJudgements, MaxEdits

RunnerKinds == {"GENERIC_RUNNER_TRACE", "PHASE5_REALISM_PILOT", "PHASE5_REALISM_COHORT"}
Kinds == RunnerKinds \cup {"EXISTING_TRACE"}
\* PASS and FAIL; ABSTAIN, INVALID_TRACE and UNSUPPORTED.
Verdicts == {"DECIDED", "OPEN"}
Runs == {Plan[i].run : i \in DOMAIN Plan}
Contracts == {"family"} \cup JitContracts

ASSUME PlanAssumption == Plan \in Seq([kind : Kinds, run : Nat, family : {"known", "unseen"}])
ASSUME FilesAssumption ==
    /\ Absent \notin Trees \cup Contracts /\ "none" \notin Judgements /\ Trees # {}
    /\ Modes \subseteq [execute : BOOLEAN, resume : BOOLEAN, failFast : BOOLEAN,
                        diagnostics : BOOLEAN]
    /\ MaxCrashes \in Nat /\ MaxJudgements \in Nat /\ MaxEdits \in Nat

VARIABLES trace,        \* of each run: "absent", "started", "failed" or "complete"
          tree, receipt, freeze,
          diagnosed,    \* runs with a diagnostics file
          root,         \* does the output directory exist
          results,      \* results.jsonl: [rows, torn]
          reviews,      \* user_review.csv: [state, marks]
          pc, call,     \* the process in progress and its memory
          executed,     \* history: how often the device ran each run
          judged,       \* history: the last judgement a person gave of each run
          excused,      \* history: runs whose judgement a known window may have lost
          told,         \* history: [status, rows, unbuilt] of the call that just ended
          disturbed,    \* history: did the directory change under the verification
          crashes, judgements, edits

sources == <<trace, tree, receipt, freeze, executed>>
output == <<diagnosed, root, results, reviews>>
person == <<judged, judgements, edits, disturbed>>
campaignVars == <<sources, output, pc, call, person, excused, told, crashes>>

NoMode == [execute |-> FALSE, resume |-> FALSE, failFast |-> FALSE, diagnostics |-> FALSE]
\* "checked" is the tree whose hash was compared, intake_source_tree_sha256 of the
\* diagnostics; "read" holds the trees the verification in progress has read from.
NoCall == [mode |-> NoMode, at |-> 1, failed |-> {}, unbuilt |-> {}, cases |-> <<>>,
           completed |-> {}, rows |-> <<>>, marks |-> << >>, checked |-> Absent, read |-> {}]
Untold == [status |-> "none", rows |-> {}, unbuilt |-> {}]
RunsOf(rows) == {rows[i].run : i \in DOMAIN rows}
Task == Plan[call.at]
Run == Task.run
HasRunnerTask == \E i \in DOMAIN Plan : Plan[i].kind \in RunnerKinds

CampaignInit ==
    /\ trace \in [Runs -> {"absent", "complete"}]
    /\ tree \in [Runs -> Trees]
    /\ receipt = [r \in Runs |-> IF trace[r] = "complete" THEN tree[r] ELSE Absent]
    /\ freeze = [r \in Runs |-> Absent]
    /\ diagnosed = {} /\ root = FALSE
    /\ results = [rows |-> <<>>, torn |-> FALSE] /\ reviews = [state |-> "absent", marks |-> << >>]
    /\ pc = "idle" /\ call = NoCall
    /\ executed = [r \in Runs |-> 0]
    /\ judged = [r \in Runs |-> "none"] /\ excused = {}
    /\ told = Untold /\ disturbed = FALSE
    /\ crashes = 0 /\ judgements = 0 /\ edits = 0

-----------------------------------------------------------------------------
(* The end of a call.                                                      *)

End(status) ==
    /\ told' = [status |-> status, rows |-> RunsOf(results.rows), unbuilt |-> call.unbuilt]
    /\ pc' = "idle" /\ call' = NoCall

Begin(mode) ==
    /\ pc = "idle"
    /\ pc' = "prepare" /\ call' = [NoCall EXCEPT !.mode = mode]
    /\ told' = Untold
    /\ UNCHANGED <<sources, output, person, excused, crashes>>

-----------------------------------------------------------------------------
(* prepare_evaluation_cases: one task after the other.                     *)

Preparing == pc = "prepare" /\ call.at \in DOMAIN Plan
Advance(c) == [c EXCEPT !.at = @ + 1]
Ready(c) == Advance([c EXCEPT !.cases = Append(@, Run)])

\* A missing run directory or receipt is not caught: the whole call dies.
ExistingTrace ==
    /\ Preparing /\ Task.kind = "EXISTING_TRACE"
    /\ IF trace[Run] = "absent" \/ receipt[Run] = Absent
       THEN End("RAISED")
       ELSE call' = Ready(call) /\ UNCHANGED <<pc, told>>
    /\ UNCHANGED <<sources, output, person, excused, crashes>>

\* Mutant: a failed task always ends the call.
TaskRaises == End("RAISED")

\* RUNNER_ERROR, RUNNER_FAILED, INTAKE_ERROR, INTAKE_FAILED and
\* INTAKE_RECEIPT_MISSING: the task is skipped, or --fail-fast raises.
TaskFails ==
    IF call.mode.failFast \/ ~call.mode.execute
    THEN End("RAISED")
    ELSE /\ call' = Advance([call EXCEPT !.failed = @ \cup {Run}])
         /\ pc' = "prepare" /\ UNCHANGED told

\* Mutant: the collector makes its directory with exist_ok.
CollectsAnew == TRUE

MayCollect == trace[Run] = "absent"

RunnerTask == Preparing /\ Task.kind \in RunnerKinds

Preflight ==
    /\ RunnerTask /\ ~call.mode.execute /\ MayCollect
    /\ call' = Advance(call)
    /\ UNCHANGED <<sources, output, person, excused, told, crashes, pc>>

\* The directory exists, or the key, the device or the process is missing.
CollectorRefuses ==
    /\ RunnerTask
    /\ TaskFails
    /\ UNCHANGED <<sources, output, person, excused, crashes>>

\* The directory and its start record are written, then the agent runs.
CollectorStarts ==
    /\ RunnerTask /\ call.mode.execute /\ MayCollect
    /\ trace' = [trace EXCEPT ![Run] = "started"]
    /\ \E content \in Trees : tree' = [tree EXCEPT ![Run] = content]
    /\ executed' = [executed EXCEPT ![Run] = @ + 1]
    /\ pc' = "collect"
    /\ UNCHANGED <<receipt, freeze, output, person, excused, told, crashes, call>>

CollectorEnds(status) ==
    /\ pc = "collect"
    /\ trace' = [trace EXCEPT ![Run] = status]
    /\ IF status = "complete" THEN pc' = "intake" /\ UNCHANGED <<told, call>> ELSE TaskFails
    /\ UNCHANGED <<tree, receipt, freeze, executed, output, person, excused, crashes>>

\* ingest_generic_runner_trace: the receipt is created once.
Ingest ==
    /\ pc = "intake" /\ trace[Run] = "complete" /\ receipt[Run] = Absent
    /\ receipt' = [receipt EXCEPT ![Run] = tree[Run]]
    /\ pc' = "contract"
    /\ UNCHANGED <<trace, tree, freeze, executed, output, person, excused, told, crashes, call>>

\* actions.json is missing, a receipt is already there, or the process fails.
IntakeFails ==
    /\ pc = "intake"
    /\ TaskFails
    /\ UNCHANGED <<sources, output, person, excused, crashes>>

\* What the router may answer for the task.
Routed == IF Task.family = "known" THEN {"family"} ELSE JitContracts

\* _pre_run_contract_freeze: an existing freeze is kept when it is the same.
FreezeContract ==
    /\ pc = "contract"
    /\ \E contract \in Routed :
         /\ freeze[Run] \in {Absent, contract}
         /\ freeze' = [freeze EXCEPT ![Run] = contract]
    /\ pc' = "prepare" /\ call' = Ready(call)
    /\ UNCHANGED <<trace, tree, receipt, executed, output, person, excused, told, crashes>>

\* CONTRACT_FAILED: no key, a rejected proposal or a different freeze.
ContractFails ==
    /\ pc = "contract"
    /\ \/ Task.family = "unseen"
       \/ freeze[Run] \notin {Absent} \cup Routed
    /\ IF call.mode.failFast
       THEN End("RAISED")
       ELSE /\ call' = Advance([call EXCEPT !.unbuilt = @ \cup {Run}])
            /\ pc' = "prepare" /\ UNCHANGED told
    /\ UNCHANGED <<sources, output, person, excused, crashes>>

\* One runner task without --execute-runner makes the whole call a preflight.
Prepared ==
    /\ pc = "prepare" /\ call.at = Len(Plan) + 1
    /\ IF ~call.mode.execute /\ HasRunnerTask
       THEN End("PREFLIGHT")
       ELSE pc' = "open" /\ UNCHANGED <<told, call>>
    /\ UNCHANGED <<sources, output, person, excused, crashes>>

-----------------------------------------------------------------------------
(* run_elastic_evaluation.                                                 *)

\* Mutant: resuming reads no rows.
ForgottenRows == <<>>

ExistingRows == IF call.mode.resume THEN results.rows ELSE <<>>
ExistingMarks == IF call.mode.resume THEN reviews.marks ELSE << >>

\* The directory exists and this is not a resume, or a file cannot be read.
OutputRefused ==
    \/ root /\ ~call.mode.resume
    \/ call.mode.resume /\ (results.torn \/ reviews.state = "headless")

Open ==
    /\ pc = "open"
    /\ root' = TRUE
    /\ IF OutputRefused
       THEN End("RAISED")
       ELSE /\ call' = [call EXCEPT !.at = 1, !.rows = ExistingRows,
                                    !.completed = RunsOf(ExistingRows),
                                    !.marks = ExistingMarks]
            /\ pc' = "verify" /\ UNCHANGED told
    /\ UNCHANGED <<sources, diagnosed, results, reviews, person, excused, crashes>>

Verifying == pc = "verify" /\ call.at \in DOMAIN call.cases
Case == call.cases[call.at]

AlreadyEvaluated == Case \in call.completed

SkipCase ==
    /\ Verifying /\ AlreadyEvaluated
    /\ call' = Advance(call)
    /\ UNCHANGED <<sources, output, person, excused, told, crashes, pc>>

\* Mutant: the receipt is not compared with the run directory.
UnboundIntake == TRUE

IntakeBound == receipt[Case] = tree[Case]

\* The four stages of verify_trace_case, as far as they touch the run directory.
VerifierStages == {"bind", "load", "judge"}
ReadNow == call.read \cup {tree[Case]}

\* The row of the case: its verdict, the tree that was compared, those that were read,
\* and whether the directory changed meanwhile.
Conclude(verdict, checked, read, moved) ==
    /\ call' = [call EXCEPT !.rows = Append(@, [run |-> Case, verdict |-> verdict,
                                                checked |-> checked, read |-> read,
                                                disturbed |-> moved]),
                            !.checked = Absent, !.read = {}]
    /\ pc' = IF call.mode.diagnostics THEN "diagnose" ELSE "save"
    /\ disturbed' = FALSE
    /\ UNCHANGED <<sources, output, judged, judgements, edits, excused, told, crashes>>

\* The contract, its freeze and the run manifest, before anything is compared.
RouteCase ==
    /\ Verifying /\ ~AlreadyEvaluated
    /\ pc' = "bind" /\ call' = [call EXCEPT !.read = {tree[Case]}] /\ disturbed' = FALSE
    /\ UNCHANGED <<sources, output, judged, judgements, edits, excused, told, crashes>>

\* _validate_intake_binding: the only comparison.
BindCase ==
    /\ pc = "bind" /\ IntakeBound
    /\ pc' = "load" /\ call' = [call EXCEPT !.checked = tree[Case]]
    /\ UNCHANGED <<sources, output, person, excused, told, crashes>>

\* load_trace_directory: actions, screenshots and hierarchies.
LoadTrace ==
    /\ pc = "load"
    /\ pc' = "judge" /\ call' = [call EXCEPT !.read = ReadNow]
    /\ UNCHANGED <<sources, output, person, excused, told, crashes>>

\* The G1 frames, then the checkers and the model, which open the files again.
JudgeCase ==
    /\ pc = "judge"
    /\ \E verdict \in Verdicts : Conclude(verdict, call.checked, ReadNow, disturbed)

\* UNSUPPORTED, a corrupt trace, or an error that is caught, as a receipt that names
\* another tree is without --fail-fast; the result says nothing of the directory.
VerifierGivesUp ==
    /\ \/ Verifying /\ ~AlreadyEvaluated
       \/ pc = "bind" /\ ~call.mode.failFast
       \/ pc = "load"
    /\ Conclude("OPEN", Absent, {}, FALSE)

VerifyCase == RouteCase \/ BindCase \/ LoadTrace \/ JudgeCase \/ VerifierGivesUp

\* Only --fail-fast lets a verifier error out of verify_trace_case.
VerifierRaises ==
    /\ (Verifying /\ ~AlreadyEvaluated) \/ pc \in VerifierStages
    /\ call.mode.failFast
    /\ End("RAISED")
    /\ UNCHANGED <<sources, output, person, excused, crashes>>

\* Write-once: a file left by a call that died here stops the evaluation.
WriteDiagnostics ==
    /\ pc = "diagnose"
    /\ IF Case \in diagnosed
       THEN End("RAISED") /\ UNCHANGED diagnosed
       ELSE diagnosed' = diagnosed \cup {Case} /\ pc' = "save" /\ UNCHANGED <<told, call>>
    /\ UNCHANGED <<sources, root, results, reviews, person, excused, crashes>>

SaveRows ==
    /\ pc = "save"
    /\ results' = [rows |-> call.rows, torn |-> FALSE]
    /\ pc' = "verify" /\ call' = Advance(call)
    /\ UNCHANGED <<sources, diagnosed, root, reviews, person, excused, told, crashes>>

\* The rows in the order of their runs, those of one run as they were.
ByRun(rows) ==
    LET place(i) == Cardinality({j \in DOMAIN rows :
                                    \/ rows[j].run < rows[i].run
                                    \/ rows[j].run = rows[i].run /\ j <= i})
    IN  [k \in DOMAIN rows |-> rows[CHOOSE i \in DOMAIN rows : place(i) = k]]

FinishRows ==
    /\ pc = "verify" /\ call.at = Len(call.cases) + 1
    /\ results' = [rows |-> ByRun(call.rows), torn |-> FALSE]
    /\ pc' = "review"
    /\ UNCHANGED <<sources, diagnosed, root, reviews, person, excused, told, crashes, call>>

\* The review file is written from the judgements read when the call opened.
Reviews(rows, marks) ==
    [r \in RunsOf(rows) |-> IF r \in DOMAIN marks THEN marks[r] ELSE "none"]

WriteReviews ==
    /\ pc = "review"
    /\ reviews' = [state |-> "ok", marks |-> Reviews(call.rows, call.marks)]
    /\ pc' = "summary"
    /\ UNCHANGED <<sources, diagnosed, root, results, person, excused, told, crashes, call>>

\* CONTRACT_FAILED is not among the statuses that make the exit code 2.
ExitStatus ==
    IF call.failed # {} THEN "AUTOMATED_EVALUATION_RUNNER_FAILED"
                        ELSE "AUTOMATED_EVALUATION_COMPLETE"

WriteSummary ==
    /\ pc = "summary"
    /\ End(ExitStatus)
    /\ UNCHANGED <<sources, output, person, excused, crashes>>

-----------------------------------------------------------------------------
(* A call dies: an interrupt, a kill, a power loss.                        *)

\* What write_bytes over an existing file may leave: some whole lines, and
\* perhaps a cut one that no later call can parse.
Rewritten(rows) ==
    {results} \cup {[rows |-> SubSeq(rows, 1, k), torn |-> cut] :
                      k \in 0 .. Len(rows), cut \in BOOLEAN}

\* Opened with "w": the header may be missing, or rows at the end.
ReviewsCut ==
    {reviews, [state |-> "headless", marks |-> << >>]}
      \cup {[state |-> "ok", marks |-> Reviews(SubSeq(results.rows, 1, k), call.marks)] :
              k \in 0 .. Len(results.rows)}

Saving == pc = "save" \/ (pc = "verify" /\ call.at = Len(call.cases) + 1)

Dies ==
    /\ pc # "idle" /\ crashes < MaxCrashes
    /\ crashes' = crashes + 1
    /\ End("DIED")
    /\ IF pc = "collect"
       THEN \E left \in {"started", "failed", "complete"} : trace' = [trace EXCEPT ![Run] = left]
       ELSE UNCHANGED trace
    /\ IF pc = "diagnose"
       THEN diagnosed' \in {diagnosed, diagnosed \cup {Case}} ELSE UNCHANGED diagnosed
    /\ IF Saving
       THEN results' \in Rewritten(IF pc = "save" THEN call.rows ELSE ByRun(call.rows))
       ELSE UNCHANGED results
    /\ IF pc = "review"
       THEN reviews' \in ReviewsCut /\ excused' = Runs
       ELSE UNCHANGED <<reviews, excused>>
    /\ UNCHANGED <<tree, receipt, freeze, executed, root, person>>

-----------------------------------------------------------------------------
(* Around the calls.                                                       *)

\* What is written after a call has read the file is lost when it ends.
Judge(r, judgement) ==
    /\ judgements < MaxJudgements /\ r \in DOMAIN reviews.marks
    /\ reviews' = [reviews EXCEPT !.marks[r] = judgement]
    /\ judged' = [judged EXCEPT ![r] = judgement]
    /\ judgements' = judgements + 1
    /\ excused' = IF pc = "idle" THEN excused \ {r} ELSE excused \cup {r}
    /\ UNCHANGED <<sources, diagnosed, root, results, pc, call, told, crashes, edits, disturbed>>

\* Something changes a run directory that was accepted, perhaps the one that is
\* being verified.
Drift(r) ==
    /\ edits < MaxEdits /\ receipt[r] # Absent
    /\ \E content \in Trees \ {tree[r]} : tree' = [tree EXCEPT ![r] = content]
    /\ edits' = edits + 1
    /\ disturbed' = (disturbed \/ (pc \in VerifierStages /\ Case = r))
    /\ UNCHANGED <<trace, receipt, freeze, executed, output, pc, call, judged, judgements,
                   excused, told, crashes>>

Prepare ==
    \/ ExistingTrace \/ Preflight \/ CollectorRefuses \/ CollectorStarts
    \/ \E status \in {"failed", "complete"} : CollectorEnds(status)
    \/ Ingest \/ IntakeFails \/ FreezeContract \/ ContractFails \/ Prepared

Evaluate ==
    \/ Open \/ SkipCase \/ VerifyCase \/ VerifierRaises
    \/ WriteDiagnostics \/ SaveRows \/ FinishRows \/ WriteReviews \/ WriteSummary

Process == Prepare \/ Evaluate

CampaignNext ==
    \/ \E mode \in Modes : Begin(mode)
    \/ Process
    \/ Dies
    \/ \E r \in Runs, judgement \in Judgements : Judge(r, judgement)
    \/ \E r \in Runs : Drift(r)

\* Somebody keeps calling with --execute-runner --resume --diagnostics.
Resuming == [execute |-> TRUE, resume |-> TRUE, failFast |-> FALSE, diagnostics |-> TRUE]

CampaignFairness == WF_campaignVars(Process) /\ SF_campaignVars(Begin(Resuming))

CampaignSpec == CampaignInit /\ [][CampaignNext]_campaignVars /\ CampaignFairness

-----------------------------------------------------------------------------
(* Properties.                                                             *)

States == {"idle", "prepare", "collect", "intake", "contract", "open", "verify", "bind",
           "load", "judge", "diagnose", "save", "review", "summary"}
Marks == {"none"} \cup Judgements
Row == [run : Runs, verdict : Verdicts, checked : Trees \cup {Absent}, read : SUBSET Trees,
        disturbed : BOOLEAN]

\* Every file and the memory of the call keep their type.
TypeOK ==
    /\ trace \in [Runs -> {"absent", "started", "failed", "complete"}]
    /\ tree \in [Runs -> Trees] /\ receipt \in [Runs -> Trees \cup {Absent}]
    /\ freeze \in [Runs -> Contracts \cup {Absent}]
    /\ diagnosed \subseteq Runs /\ root \in BOOLEAN
    /\ results.rows \in Seq(Row) /\ results.torn \in BOOLEAN
    /\ reviews.state \in {"absent", "ok", "headless"} /\ DOMAIN reviews.marks \subseteq Runs
    /\ \A r \in DOMAIN reviews.marks : reviews.marks[r] \in Marks
    /\ pc \in States /\ call.at \in Nat \ {0}
    /\ call.rows \in Seq(Row) /\ call.cases \in Seq(Runs)
    /\ call.failed \cup call.unbuilt \cup call.completed \subseteq Runs
    /\ call.checked \in Trees \cup {Absent} /\ call.read \subseteq Trees
    /\ disturbed \in BOOLEAN
    /\ executed \in [Runs -> Nat] /\ judged \in [Runs -> Marks] /\ excused \subseteq Runs
    /\ crashes \in Nat /\ judgements \in Nat /\ edits \in Nat

\* However often the plan is called and whatever died, the device runs the
\* task of a run id at most once (prepare_generic_runner_collection.py
\* refuses an existing directory).
CollectedOnce == \A r \in Runs : executed[r] <= 1

\* results.jsonl never holds two verdicts of one run, across resumes, deaths in the
\* middle of a rewrite and repeated calls, unless the plan names a run twice: nobody
\* rejects such a plan, and one call then judges the run as often as it is named.
NamesRunsOnce == \A i, j \in DOMAIN Plan : Plan[i].run = Plan[j].run => i = j
OneVerdictPerRun ==
    NamesRunsOnce => \A i, j \in DOMAIN results.rows :
        results.rows[i].run = results.rows[j].run => i = j

Existing == {Plan[i].run : i \in {j \in DOMAIN Plan : Plan[j].kind = "EXISTING_TRACE"}}

\* The tree a decisive verdict was checked on is the one its receipt accepted, and the
\* verifier read nothing else for it unless the directory changed while it was being
\* read: between the manifest and the last image nothing looks a second time.  A trace
\* that is only to be collected is judged by a contract frozen for it.
DecisiveVerdictsAreBound ==
    \A i \in DOMAIN results.rows :
        LET row == results.rows[i] IN
        /\ row.verdict = "DECIDED" =>
             /\ row.checked = receipt[row.run]
             /\ row.disturbed \/ row.read = {receipt[row.run]}
        /\ executed[row.run] > 0 /\ row.run \notin Existing
             => trace[row.run] = "complete" /\ freeze[row.run] # Absent

\* No call loses the verdict of a run: only a death inside the rewrite of
\* results.jsonl can.
RowsOutliveCalls ==
    [][RunsOf(results.rows) \subseteq RunsOf(results'.rows) \/ Dies]_campaignVars

\* What user_review.csv says of a run between two calls is the last judgement a person
\* gave of it - never an older one, nor the blank of a new line - unless it was given
\* while a call was running or a call died as it rewrote the file.  (A run that loses
\* its row of results.jsonl loses its line here, too.)
JudgementsSurvive ==
    pc = "idle" =>
        \A r \in DOMAIN reviews.marks \ excused : reviews.marks[r] = judged[r]

\* A call that reports COMPLETE leaves no task unaccounted for: each has a
\* verdict, or its contract could not be built.
CompleteAccountsForEveryTask ==
    told.status = "AUTOMATED_EVALUATION_COMPLETE" => Runs \subseteq told.rows \cup told.unbuilt

\* A file a dead call left that stops every later call.
Blocked ==
    \/ results.torn \/ reviews.state = "headless"
    \/ ~(diagnosed \subseteq RunsOf(results.rows))

\* Called again and again, the plan ends with a verdict for every existing
\* trace, whatever the runner tasks do, unless a dead call left a file
\* that blocks the rest.
EvaluationCompletes ==
    (\A r \in Existing : trace[r] = "complete")
        => []<>(Existing \subseteq RunsOf(results.rows) \/ Blocked)

\* upgraded_verifier.py says the receipt is verified "before consuming trace evidence",
\* so that a decisive verdict is of the accepted directory.  It does not hold: the
\* evidence is read after the comparison and may have changed by then.
VerdictsAreOfTheAcceptedTree ==
    \A i \in DOMAIN results.rows :
        results.rows[i].verdict = "DECIDED" =>
            results.rows[i].read = {receipt[results.rows[i].run]}

\* automated_evaluation_plan.py says the contract is persisted before the
\* Runner is invoked.
FreezePrecedesRunner ==
    [][\A r \in Runs : executed'[r] > executed[r] => freeze[r] # Absent]_campaignVars
=============================================================================

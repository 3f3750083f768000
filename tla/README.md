# Verification of MobiAgent's app evaluation

MobiAgent-verification runs an app test case on a phone - a vision model proposes
actions, an executor sends them to the device and a step gate decides whether to
go on -, judges the outcome from recorded evidence, and can guard the agent's claim
of being done while it runs.  Around it stand a desktop client, campaigns of recorded
traces, paid recordings of model answers, and studies in which people give the ground
truth.  This directory holds TLA+ models of that program, TLC configurations that
check them, and proofs that TLAPS checks.

Paths below are relative to `src/`; `EF` is
`verification_benchmark/evaluation_framework`, `TOOLS` is `verification_benchmark/tools`.

## The system

| Part | Where | State it keeps | What is hard about it |
|---|---|---|---|
| Step executor | `app_test_agent/mobiagent_executor.py` | attempt and frame counters, records, audit, result list, files of frames, `actions.json` | retries around irreversible device input; exceptions in every phase; evidence files named by counters |
| Step gate | `app_test_agent/step_gate.py` | none | three gates of ordered early returns, each an excuse to continue or to retry |
| MobiAgent runner | `runner/mobiagent/mobiagent.py` | remembered focus, history, the files of a task | which of several boxes a click hits; a focus that outlives its screen; files read while they are written |
| Orchestration, attribution | `app_test_agent/orchestrator.py`, `attribution.py`, `run.py` | none of its own; files of the run | several verdicts combined into one result; an independent verification that may fail |
| Verifiers | `app_test_agent/execution_verifier.py`, `app_verifier.py`, `offline_verifier.py` | none | a pass must rest on evidence of the right frames |
| Verification runner | `app_test_agent/verification_runner.py` | frames, retry budget, step results, attempt audits | may only look; inputs that may have arrived, lost captures, blockers, partial observation windows |
| PC client, model event journal | `pc_client/`, `app_test_agent/model_event_journal.py` | window, worker threads, one queue, journal, report, `os.environ` | a window that stays live under its own questions; folders used twice |
| Execution manifest | `app_test_agent/manifest.py`, `EF/app_test_manifest_intake.py`, `raw_step_gate_replay.py` | a file | one program's statuses judged again by another |
| Harmony bridge and runners | `app_test_agent/harmony_*.py` | HTTP service, sessions, request threads, port mapping, files and reports on the phone | overlapping requests, agents that outlive their call, reports found by name and time |
| Temporal aggregation, replay | `EF/temporal.py`, `aggregation.py`, `replay.py` | none | which frames decide, which later frames undo |
| Online guardrail | `EF/online_guardrail.py`, `guardrail.py` | history, counters, event trace | nine ways to answer, four budgets, a trace validated only at the end |
| Audit source | `EF/runner_source.py` | listing, sent frames, bounded queue | polls a directory another process is writing |
| Contracts | `EF/contract_router.py`, `contract_freeze.py`, `jit_contract_compiler.py`, `task_family_catalog.py` | create-once freeze files | three sources asked in order; a frozen contract against sources that change |
| Upgraded verifier | `EF/upgraded_verifier.py`, `checker_registry.py`, `g1_assembly.py`, `state_evidence.py` | none | facts, models and frame quality override each other in several passes |
| Elastic evaluation, planning | `EF/elastic_evaluation.py`, `automated_evaluation_plan.py` | traces, receipts, freezes, diagnostics, results, reviews | crash and resume between, and inside, the writes |
| Recorded evidence | `EF/recording_coverage_planner.py`, `legacy_checker_*.py`, `batch_replay_alignment.py`, `audit_envelope.py`, `TOOLS/record_precomputed_evidence.py` | plan, manifest, cache, receipt, report | paid answers across crashes; held-out lineages; a verdict from partial answers |
| Studies and reviews | `EF/phase5_*.py`, `EF/human_adjudication.py`, `TOOLS/*collection.py`, `*_ground_truth.py`, `*_blind_review.py` | one directory per run, receipts, ground truths, sealed mapping, response sets | tools run by hand in any order; runs, editions and people mixed up |

The PC client (or the command line) starts the orchestrator; it calls the executor,
which asks the runner's model adapters for actions and hands each result to the step
gate; the recorded manifest goes to the verifiers, and attribution turns their
verdicts into one result.  On a Harmony phone an agent inside the phone works through
the bridge and leaves a report the PC takes in.  The evaluation framework is a second
consumer of runs: a trace directory of the stock runner is accepted by a receipt,
judged against a contract, alone or in a campaign, and the same replay, applied to the
prefix of a running trace, feeds the online guardrail.  What models said of screenshots
is recorded beforehand, for batches that are replayed without a network.  In the
studies people judge the runs, and their verdicts are compared with the program's.

## Modules

| Module | Models | Kind |
|---|---|---|
| `StepGate` | the step gate, the micro-action gate, the dispatch-failure gate | operators |
| `StepGateCases` | one evaluation of the gate for every bounded input | specification |
| `StepExecutor` | `MobiAgentStepExecutor.execute` | specification |
| `DispatchDiscipline` | what executing one-action steps promises to the app | abstract specification |
| `TargetAlignment` | where a click lands: runner, executor's hit test, gate's certification | specification |
| `RunnerTrace` | the stock runner's task loop, its files, and the source that watches them | specification |
| `ExecutionConformance` | was the test executed as declared | operators |
| `AssertionEvidence` | what frames say of an expected result | operators, on `TemporalAggregation` |
| `VerificationRunner` | `MobiAgentVerificationRunner.execute` | specification |
| `VerificationPromise` | what a verification visit promises to the app | abstract specification |
| `AppVerdict` | from the execution to the verdict | composes the four above |
| `PcSession` | the desktop client, its threads and the journal | specification |
| `ExecutionManifest` | what a manifest says, its validation, the conversions in both directions | operators |
| `HarmonyRun` | bridge, runners and phone | specification, on `ExecutionManifest` and `ExecutionConformance` |
| `TemporalAggregation` | the four temporal semantics, replay, outcome verdict | operators |
| `OnlineGuardrail` | `OnlineDoneInterceptor.handle_done` and its trace | specification |
| `DoneNegotiation` | what guarding "done" promises to the host | abstract specification |
| `ContractSelection` | router, compiler, freeze and restore | specification |
| `EventLog` | the event trace of a recorded run and the report made from it | operators, on `TemporalAggregation` |
| `TraceVerifier` | `verify_trace_case` | specification, on `ContractSelection` and `EventLog` |
| `EvaluationCampaign` | repeated calls over one evaluation plan | specification |
| `LegacyLowering` | checkers of a task DAG and the walk through it | operators |
| `AuditEnvelope` | aggregation, and the envelope that recomputes it | operators |
| `RecordingPlan` | which screenshots are put to a paid model | operators, on `LegacyLowering` |
| `EvidencePipeline` | planning, recording with crashes, replay | specification, on `RecordingPlan` and `AuditEnvelope` |
| `RunCollection` | collection, intake, ground truth and comparison of the phase-5 studies | specification |
| `BlindReview` | packing, reviewing and finalizing a blind review | specification |
| `MC*` | model values of the runs; `MCHumanGroundTruth` combines `RunCollection` and `BlindReview` | instances |
| `*Proofs` | theorems | proofs |

Each module's header says what its state stands for; `PROJECT.json` ("map") gives the
lines of every definition.  Operators bear the names of the functions they translate.

### StepGate, StepGateCases

An action record, a step and a view of the frames seen afterwards are records of the
answers the gate's branches ask for: was the declared text typed, was the hit target
the declared one, is the next step's target visible.  Texts, hierarchies and
coordinates are not modelled here (the hit target is `TargetAlignment`'s subject).
Each operator is one function of the file, with its early returns in the file's order.
`StepGateCases` picks one combination and evaluates it.

### StepExecutor

One action per way a phase of `execute()` can go.  `pc` says which phase is next:
`setup`, `attempt` (the head of the `while`), `decide` (an atomic step waits for its
action), `goal` (the loop of a `GUI_TASK`), `observe`, `settle` (the gate has judged),
`write` (the final `actions.json`).  `escaped` is an exception that leaves
`execute()`.  The model service, the device, the user and the screen are the
environment: what they answer is chosen by `\E`.  `step`, `attempt`, `actionIndex`,
`nextFrame`, `results`, `audit` (`attempt_evidence`), `actions` are the code's locals;
`disk` says which attempt wrote each frame file last; `inputs` is a history variable,
what really reached the app, against which the code's own records are compared.
An unanswered or aborted control action goes to the gate as the record of the
attempt, as in the code.  `MaxControls` bounds how often the model asks for the user
(the code has no bound), `MaxBurst` the frames of one burst, and a step's `budget`
the actions of a goal.

### TargetAlignment

A page is a set of accessibility nodes, each a rectangle with a label, a role and a
parent, in device pixels; an element is what the Decider names, a box what the Grounder
returns.  Three steps: the runner (or the executor, for a hierarchy target) chooses the
point, the executor adds its hit test to the record, the gate makes the target evidence
of both.  Every threshold of `mobiagent.py` and `step_gate.py` that decides between
nodes is kept, and so is the rule that tells model pixels from device pixels.  The visual
recovery of a floating action button moves the point after the identity guard has seen it;
`IdentityIsHit` is about the other clicks.  Left out: the floating-point score, of which
only what the order of the candidates begins with is kept (label, then area), the
conventions of models that answer in other units, and inputs that name only a resource id.

### RunnerTrace

The runner asks, saves the frame, performs, records, and writes its two final files at
the end; a file is absent, torn, good or bad.  The audit source lists the directory,
looks for the final files, and then reads the frames of the listing - three steps, with
the runner between any two - and publishes through a queue of `Capacity` events.  The
focus is a pair: the record of the task and the attribute of the device object.
Directories start empty; errors while writing are not modelled.

### The verdict: ExecutionConformance, AssertionEvidence, VerificationRunner, AppVerdict

`run_app_test` is one thread: the executor runs, the execution is checked against the
contract, the expected results are judged on its evidence, a verification runner may
visit the app once more, and `attribute_result` makes one of six results.  `stage` of
`AppVerdict` says which call is next; `Execute` ... `Attribute` are these calls, one
action per branch of `_maybe_run_verification`; `Visit` is a step of the runner.

`VerificationRunner` has one action per way a phase of `execute` can go: `pc` is
`start` (refusals, connection, first frame), `step` (head of the loop and its timeout),
`act` (one attempt), `observe` (the burst), `finish`, `end`.  `results`, `audits`,
`frames`, `retryBudget` are the code's locals; `dispatched` is a history variable, the
inputs that may have reached the app.  The device answers as it likes.

A frame is reduced to what the judgement asks of it: how often the text occurs, whether
only in an overlay, the page state, whether the surface is proven, whether a forbidden
text shows.  `AssertionEvidence` slices, classifies and aggregates frames in the code's
order of early returns; what the legacy checker, the visual verifier and the flow model
answer is chosen at each judgement.

Assumed: every screen shows some text; a record of a completed execution has frames, so
its review is authoritative; the replay mirror agrees with the aggregation it repeats;
the legacy checker answers nothing about a visit, whose trace has no `actions.json`;
the schema refuses an empty list of expected results and a `NEVER` policy for results
that need the runner (`TestCasesAssumption`).  The scripted stand-in runner occurs
only with the outcomes that leave the direct result unusable.  The delays of an absence
window are so far apart that the tolerances granted to their frames (max(100, min(500, 20 %))
ms, `evidence.py:166`) do not overlap, as in the default (500 and 1000 ms, `schema.py:32`):
a frame then stands for one of them at most.

### PcSession

The operator's clicks, the threads that list devices, the worker of an evaluation and
the poll of the queue are separate actions.  While a question is open Tk still runs
timers, so results of listings and evaluations are taken from the queue inside it.  An
evaluation and its folder are numbers; a report's content is the number of the run that
wrote it, so that a stale or a torn report can be told.  The journal is written under
its lock and handed to the listener outside it, by one worker at a time.

### ExecutionManifest, HarmonyRun

A step's evidence in a manifest is its dispatch and conformance status, whether it is
faithful to the test, and the frames it cites.  `HarmonyRun` adds time: a call of this
machine starts a service, maps the port, starts an agent and waits; the agent's requests
are served by threads that share the device; its report is found in the phone's log by a
name prefix and a time.  Agents may outlive their call, hdc may fail at any command, and
the log forgets.  Left out: the command-line switches `--skip-rport` and
`--readonly-smoke`, the user's response file, skew between the two clocks, intake of a
directory, and the content of output files.

### OnlineGuardrail

One action per way `handle_done` returns.  A candidate carries the observations made
since the previous one (one per criterion, as both hosts record them), step, time,
token and call counters, and what the trace can prove; the interceptor replays the
prefix (`TemporalAggregation`) and appends to `events` exactly what the code appends.
The refused candidate (a wrong ordinal or hash, a step before the first) is an
exception that changes nothing and is left out.

### ContractSelection, EventLog, TraceVerifier

`ContractSelection` walks the sources of a contract in the code's order and keeps the
audit of it; the pre-run pass of a campaign writes a create-once freeze file, a
verification restores it, and what the sources offer may change in between.
`TraceVerifier` is `verify_trace_case` from there on: binding, capability profile, frame
quality, checkers, dependencies, blocking frames, replay, and the two verdicts - the
report's and the public one.  A frame is stable, loading or under an overlay; a checker's
record says also by what it was decided: facts of the trace, the model, or nothing.
The replay is `EventLog`: frames and actions become events in the order of their indices,
the checkers' observations are attached each behind its frame, and the report judges the
events up to the declared end, up to the end of the grace window, and all of them.
Left out: windows in timestamps (a trace made from a directory has none), hashes, payload
formats and the checksum file; the criterion `trace.integrity` (the hash was checked
before), the optional quality criteria, custom checker back ends; frames that merely
differ count as stable.

### EvaluationCampaign

One call of `TOOLS/run_automated_evaluation.py` prepares every task (collector, intake,
freeze), verifies the traces that are ready, and rewrites `results.jsonl` after each.
`call` is the memory of the process, everything else is on disk.  A death may come
anywhere, inside a rewrite too; a person may write a judgement at any time; an accepted
directory may change, while it is verified too.  So the verifier is modelled in its
stages: `RouteCase` reads the run manifest, `BindCase` compares receipt and directory
(`EF/upgraded_verifier.py:1090`), `LoadTrace` loads the trace, `JudgeCase` reads the frames
and images again and decides.  A row says which tree was compared (`checked`), which were
read (`read`) and whether the directory changed in between (`disturbed`, a history
variable that `Drift` sets).  Nothing compares a second time, so
`DecisiveVerdictsAreBound` promises that the receipt's tree was compared, and that nothing
else was read by a verification left undisturbed; that a decisive verdict is always of the
accepted tree does not hold (`VerdictsAreOfTheAcceptedTree`, see Further disagreements).
`JudgeCase` takes its reads together: another change between them would add to `read`, in
a row that is disturbed already.  Intake and freezing are single steps: their files are
created exclusively.  A run's id stands for one directory.  Nothing keeps a plan from naming a run
twice; one call then judges it as often as it is named, and `OneVerdictPerRun` is stated for
plans that do not (`NamesRunsOnce`).

### LegacyLowering, AuditEnvelope, RecordingPlan, EvidencePipeline

`EvidencePipeline` is a process that plans, writes a manifest, records and replays, with
the three operator modules as its parts.  The recorder is the only long-running program:
it asks one request at a time and rewrites its cache, then its receipt; it may die
between any two writes and be resumed.  Plans are made before a manifest exists and
replays between sessions; a replay is refused when the success of the lowering is not the
verdict of its report (`Evaluates`).  Held-out ids are assumed registered, duplicate frames left
out; one output path pair; the seed copy of a cache, the historical rows of an alignment
and the guarantee, terminal facts and overlay of an envelope are not modelled.  Promotion
of a draft has no caller in the repository; a person stands for it.

### RunCollection, BlindReview

`RunCollection` has a collector per run (with its death between any two writes), intake,
the record of an operator's ground truth, the freeze of the realism pilot's hash in the
cohort's code, and the comparison, which opens the truth only after both verifiers
decided.  Command lines name any run with any receipt and any truth.  `BlindReview` packs
two arms, seals the mapping, takes in response sets and finalizes; arms can be run again
at any time.  A package is made atomically per arm; a guardrail trace replaced without
running the arm again is not modelled.

## What the runs check

Every run's constants are in its `.cfg`; the definitions they name are in the MC module.

| Run | Bounds | Shows |
|---|---|---|
| `step_gate_cases` | goals of up to 2 micro-actions, 0 or 1 retries; every combination of the other inputs | `ContinueIsEarned`, `InputContinuesOnEditableEvidence`: no early return lets a step continue past a blocker or on a text that is not in an editor |
| `step_executor` | a goal of two micro-actions with one retry, a conversation to open with one retry, an input, an input without a value; bursts of one frame, one request for the user | the budget of attempts; every recorded frame has its own file; `actions.json` covers what reached the app; `DisciplineHolds`, the executor implements `DispatchDiscipline`; `Terminates` |
| `target_alignment` | a screen of 1080 x 2400 with 11 nodes in 21 pages, 5 elements, 4 steps, 11 boxes: inside, across, beside and collapsed | `TextGoesIntoAnEditor`, `IdentityIsHit`: text is only typed into an editor of the page, and a declared identity is what is hit |
| `runner_trace` | two tasks of two steps on either platform, a queue of one event, one poll that raises | `EventsInOrder`, `InputIsAimed`, `SavedRunIsFinalized`: no frame is lost, repeated or reordered, text goes to the target of the last touch, a saved run's end is told |
| `app_verdict` | three routes (two steps with retries and a named surface, a refused one, none), retry budget 1, bursts of two frames, four screens; ten test cases without preconditions and five with; 157 executions with one or two departures from the contract | what passes was seen where it should be and absent only after the whole window; what counts as completed followed its contract; the visit keeps `VerificationPromise` |
| `pc_session` | one device of each platform, two evaluations, one event each, one listing, one failing write | `ConfirmedSerialExecutes`, `ScreenFollowsTheJournal`, `EvaluationIsShown` |
| `harmony_run` | two calls in a row of all four kinds on one test case of two steps, two overlapping requests, reports whole, cut short, contradictory and badly sealed | `ObservationIsOfOneScreen`, `ReportsAreTakenOnce`, `SavedExecutionTellsItself`, `CallEnds` |
| `online_guardrail` | three pairs of contract and policy covering the four semantics and the three abstain actions; four kinds of observation per criterion; candidates within and past each budget, of a corrupt trace, and of one that lacks a capability | the trace passes its own validation; a regression ends the run; an allowed "done" rests on decisive frames; `NegotiationHolds`, the interceptor implements `DoneNegotiation` |
| `trace_verifier` | two runs of the pre-run pass; every offer of the sources, trace, frame quality, answer and failing stage | `PassIsEarned`, `ActionFactsDecide`, `FrozenContractStands` |
| `campaign` | a task to collect and a trace that exists, in an order that differs from the results'; four modes of a call; two contents of a directory; two deaths, one judgement, one change | `CollectedOnce`, `DecisiveVerdictsAreBound`, `RowsOutliveCalls`, `EvaluationCompletes` |
| `evidence_pipeline` | three task DAGs over two pictures, three traces of which two come from one source; shards of one job, two attempts per job, a budget of four, two sessions | `PassIsWitnessed`, `ReceiptTellsTheCache`, `HeldoutImagesStayOut` |
| `human_ground_truth` | two runs (realism pilot and cohort, or the two smokes), two editions of a manifest, two receipts, two truths, one comparison, one change of a directory; three interchangeable reviewers, one rerun | `TruthIsOfAFinishedRun`, `ReportsAreOfReviewedRuns`, `HumanVerdictIsIndependent` |

Why the bounds suffice: a plan of four steps has a first, a middle and a last step, and
one retry tells "within" from "beyond" the budget; a goal before an atomic step exercises
frame ids across attempts, goals and bursts.  The interceptor's policies allow two
interventions, so a run has a first, a middle and a last candidate; the code caps them at
three.  A route of two steps has an earlier burst whose frames could be mistaken for the
later one's; a retry budget of one is less than the retries its first step may take.  Two
calls or two evaluations are what it takes for leftovers of one to reach the other: an
agent, a report, a folder, a listing.  Two deaths let a resumed call die again.  A budget
of four requests is less than the worst case of the larger manifests and enough for the
smaller.  A queue of one is full whenever its consumer is one step late.

`CHECK_DEADLOCK FALSE` is used where the system may stop: an evaluated case of the gate, a
judged click, a verified trace, a runner that died with its watcher stopped, a phone and
a machine with no call left, a recorder with no session left, a study whose bounds are
used up.  In the other modules an ended run stutters by an action of its own, or a
further call is always possible.

### Fairness

* `StepExecutor`: `WF(Next)`, `AppVerdict`: `WF(Advance)`.  One thread that keeps
  running; every call it makes returns, raises or times out.  No action in particular is
  promised: the environment may always answer in the worst way.  `Terminates` rests on
  the budgets and on the bound on requests for the user.
* `RunnerTrace`: `WF` of a poll and of the consumer: the watching thread polls on while it
  is not stopped.  Nothing is assumed of the runner, which may die at any point.
* `PcSession`: `WF` of the poll of the queue (Tk's timer re-arms itself) and of each
  worker thread.  Nothing is assumed of the operator; therefore `EvaluationIsShown` is
  about a window that polls.
* `HarmonyRun`: `WF(OfTheCall)`: every hdc command and every wait of the two runners has a
  timeout.  The phone and its agents owe nothing.
* `EvidencePipeline`: `WF(RecorderStep)`: a recording session goes on until it ends or dies.
* `EvaluationCampaign`: `WF(Process)`, a call in progress goes on.  That assumes that the
  collector ends: it is started by `subprocess.run` without a timeout
  (`EF/automated_evaluation_plan.py:316-317`), and one that hangs holds the call, and
  `EvaluationCompletes`, for ever.  And `SF(Begin(Resuming))`: somebody calls again with `--execute-runner --resume`.  Strong,
  because other calls interleave; it is a promise about people, for whom
  `run_automated_evaluation.py` offers the switches, and `EvaluationCompletes` is stated
  under it.

## What is proved

All of these hold for every value of the constants (every plan, budget, contract, policy,
route, number of runs and reviewers) under the assumptions named in the modules:
`PlanAssumption` (a plan is a nonempty sequence of steps as `schema.py` accepts them),
`BurstAssumption`, `ControlsAssumption`, `BoundsAssumption`, `SetupsAssumption` (a policy
has passed `GuardrailPolicy.validate`), `CandidatesAssumption`, `RouteAssumption`,
`ScheduleAssumption`, `ScreensAssumption`, `StudiesAssumption`, `LiveArmsAssumption`, and
`NoneAssumption`, `NobodyAssumption` (a missing file is not a file), `PlanAssumption` (of a
campaign: a list of tasks with run ids), `FilesAssumption` and `TargetsAssumption` (an absent
file, target or serial is none), for the verdict `OffsetsAssumption`, `TestCasesAssumption` and
`ExecutionsAssumption` (what the schema accepts and what the executor records), for a click
`PagesAssumption` (boxes of nodes are whole numbers; a node without a proper rectangle is never
hit), for a call `CallsAssumption`, `ContentsAssumption` and `SavedAssumption` (a test case has
steps; an executor stops at the first step that is not completed, a completed step has frames
after it, and the listed frames are all there are), and for recorded evidence
`LimitsAssumption` and `RepositoriesAssumption` (budgets are numbers; a repository is finite, its
batch is of its traces and its task DAG is one a contract's validation accepts: edges and
success nodes among the nodes, and a topological order).

* `StepGateCasesProofs`: `ContinueTheorem`, `InputTheorem` and `RetryTheorem`, from the
  invariant that the verdict is the gate's answer to the case that was chosen; the facts
  about the gate's operators are lemmas of `StepGateProofs`.  `EditorTheorem` and
  `IdentityTheorem` are about `TargetAlignment`: `AlignmentInv` says that the record is what
  one of the two dispatchers makes of the page and of the decision, and `EntryIsEntered` that
  a text entry of either is in an editor the page shows.  `HijackTheorem`,
  `DisagreementTheorem` and `AlignedTheorem` rest on what an alignment may answer
  (`Justified`): the nodes are those the page shows, the point is the model's or the centre
  of a node that is named or centred in the box, and one with a basis rejects nothing.  For
  that a nonempty set of nodes must have a smallest and a highest-scored one (`LeastOf`,
  from the well-foundedness of the naturals).  `AlignedTheorem` showed that the property
  as first stated was too strong: a box no more than a pixel wide may have its centre in
  a node and share no area with it, so that the code finds no candidate and clicks all the
  same (`DiagnosticHitIsNoTarget` below); it now speaks of wider boxes (`Wide`).
* `StepExecutorProofs`: the inductive invariant is `ControlInv`.  The properties are
  not inductive by themselves: `AttemptsNeverExhausted` needs that a `RETRY` of either
  gate is given only within the budget (`StepGateProofs`); `NoRedispatchHolds` needs
  that `NO_REDISPATCH` is written only by the step that ends the run (`Reach`) and
  that no input lies ahead of the current attempt; `StepsInOrder` needs where the loop
  is, told by the results (`Position`).  `DisciplineTheorem` adds `LiveInv` - how many
  actions of the current step are in force at each location - and shows that each
  action is a step of `DispatchDiscipline` or a stutter.  `DataInv` adds the record of
  the attempt, the world and the statement that the frames a goal keeps aside lie behind
  the recorded ones and are on disk (`Follows`); from it `TypeTheorem` and
  `FramesTheorem`.  `SavedActionsTheorem` needs to know of every input that reached the
  app where its name is kept until the final write: in the record of the attempt, in the
  list of actions, or in an audit entry that does not count it.  `AuditedTheorem` (each
  attempt has exactly one audit entry and the result counts them) carries in `AuditInv`
  how many entries the step under way has at each location.
* `OnlineGuardrailProofs`: `StateInv` relates the counter, the history and the status;
  `NegotiationTheorem`, `ProtectedRegressionTheorem` and `OscillationTheorem` follow
  from it.  The last position of a sequence of snapshots is found with the
  well-founded order of the naturals (`LastPosition`).  For `TraceGrammarTheorem` the
  trace is cut into groups, one per candidate, and a group appended to a valid trace
  keeps it valid; `AllowedDoneTheorem` unfolds the four semantics of
  `TemporalAggregation` to the frames that decide; `InterventionsTheorem`,
  `DecisionsTheorem` and `StatusesStandTheorem` are about the trace and about what
  further frames may do.
* `AppVerdictProofs`: of the verification runner, `RunnerInv` is the conjunction of where
  the walk is (`WalkInv`: one result per step behind it), what blocks it (`BlockerInv`:
  only the burst under way may show a blocker), what it sent (`SentInv`: exactly the
  inputs of the steps behind it), what it paid for retries (`RetryInv`), how frames are
  numbered (`NumberedInv`) and what each result says of its burst (`BurstInv`).  None of
  the properties is inductive alone: "sufficient" is said at the end of frames captured
  steps ago.  `RunnerKeepsPromise` maps each action to a step of `VerificationPromise` or
  a stutter.  The runner's state inside an evaluation is the same, but it may have stayed
  in its initial state: `SufficientVisitTheorem` and `VisitKeepsPromise` carry the results
  over.  Of the verdict, every stage adds a conjunct that says what the variables of the
  earlier stages were computed from; `ConformanceTheorem` unfolds the checks of
  `ExecutionConformance`, and `AbsenceTheorem`, `UnseenTextTheorem`, `LookTheorem`,
  `EnvironmentTheorem` follow a status of an expected result back to the frames of the
  slice it was judged on.  Of `HarmonyRun`, `HarmonyInv` joins the types with `WorkersInv`
  (at most one worker of a service acts on the device), `TakenInv` (what was taken from the
  phone's log is older than the call that is looking, which makes `ReportsAreTakenOnce`
  inductive) and `JudgedInv` (what is accepted or saved is what its checks made of the
  agent's report).
* `TraceProofs`: `RunnerInv` and `AuditInv` relate the runner's frames, the listing, the
  queue and the events seen, so that `EventsInOrder` survives full queues and polls that
  raise; `SettledTheorem` (`ContextsAreSettled`) adds the order in which a frame's files are
  written (`WriteInv`) and what a listing lets the source conclude while the runner writes on
  (`ListInv`: a later frame in it closes the earlier ones, and only the last may be in the
  writing); `FocusInv` says which of the two focuses is live.  `VerifierInv` says, stage by
  stage of `verify_trace_case`, what the contract, the trace and each checker's record may
  be; `StatusTells` and `EventsTell` lead a status of the report back to the observation
  in the event trace that decides it (`FlattenKeeps`, `SetToSeqLists`), and that to the
  record of its checker.  `FreezeInv` and `FallInv` are about the contract's sources.
  Of the recorder, `ReceiptTheorem` and `AnswersTheorem` speak of two files and need the
  process between them: `RecorderStands` says at every location that what it holds is what is
  on disk, up to the one answer about to be written, and that the requests made and the
  requests of the jobs still unanswered (`Unanswered`) are within the worst case it was
  started with.  That start is the hard place: the worst case counts the jobs, the loop goes
  over positions, and the two agree because every manifest names a job once (`ListsOnce`,
  from `ShardsAreListed` and `InventoryIsListed`).  `RequestsOf` is a recursive function; that
  it exists and grows by what is appended is shown with a least counterexample, as is that
  the sources of some traces are among those of more (`AncestorsGrow`, for `HeldoutTheorem`).
  `NodeResults` is a recursion over a task's DAG: that it exists is shown along a topological
  order (`ResultsSolve`).  `WitnessTheorem` compares it with the walks through the DAG: no walk
  is at a node earlier than the results say it matches (`NoWalkIsEarlier`, by the same order),
  and the results describe a walk when they are broken off at one node (`ResultsWalk`), which
  may then be entered on any frame it holds on - so the success nodes, each with a walk of its
  own, may all be on the last frame.  `PassStandsTheorem` follows from it: a condition that
  held goes on holding when more is recorded (`ConditionHolds`, `WalksStay`), and the answers of
  an earlier report are still in the cache (`ReportInv`).
* `HumanGroundTruthProofs`: `TruthIsOfAFinishedRun` joins three tools run at different
  times.  It becomes inductive with `ReceiptInv` (an accepted receipt is of a run that
  ended well under the edition and runner of the receipt), which needs `DiskInv` (a
  record lies in an existing directory whose collector has ended, so that it cannot
  change any more), and `TruthInv` (a truth has such a receipt).  `ReportInv` follows the
  rows through the comparison (`ComparisonInv`), `PilotInv` carries the pilot's review to
  the collectors of the cohort.  `HumanVerdictIsIndependent` speaks of the report only; it
  is inductive with what the finalizer holds while it writes (`FinalizerInv`), and that
  rests on the sealed mapping being that of the packages (`SealInv`): arms may be run
  again between packing and finalizing.

* `EvaluationProofs`, the campaign: a task is collected at most once (`OnceInv`) because a
  trace that exists is never collected again and a run executed has a trace.  A verdict
  stays bound although the directory may drift during and after its verification:
  `SettledInv` says which runs a case, a row in memory or a row of the file can be of,
  `BoundInv` that a decisive row names the tree of its receipt.  While a case is verified,
  `Verified` (in `Where`) says that the tree compared is the receipt's, and that unless
  something changed since the manifest was read, nothing but the present tree was read and,
  once it was compared, that is the receipt's.  All are carried over a crash by `FilesStand`, what
  no step takes back from the files.  `RowsOutliveTheorem` and `AccountTheorem` need the
  bookkeeping of the call: `PreparationInv` (the cases are those of the tasks gone through,
  each once if its run is named once), `EvaluationInv` (the rows in memory are those of the file and of the cases
  before the present one) and `RootsInv` (rows exist only in an existing directory).
  Sorting by rank keeps the rows (`OneVerdictTheorem`).  `JudgementsTheorem`: a call that
  judges holds the judgements of the file but for those given meanwhile (`ReadInv`), and
  writes a blank only where none was given.  The hard case is a run whose row a death
  inside the rewrite lost, and its review line with it, although it was judged: TLC
  reaches it, and the invariant says why no blank line comes back for it (`Dropped`):
  the collector refuses its directory, and a trace that exists is a case of every call
  that gets as far as writing the review (`PassedInv`).
* `EvaluationProofs`, the session: `OneEvaluation` (one thread works at a time) and
  `OneAnswer` (its outcome is in the queue or shown, once) make the others inductive:
  `AgreedInv` what the operator saw and what the thread holds, `SettingsInv` whose
  settings the process has, `ReportInv` which folder has which report.
  `ScreenFollowsTheJournal` becomes inductive with `Flowing`: live view, queued events and
  the event still to be told make up the journal, in its order.

Only model-checked: liveness (`Terminates`, `SavedRunIsFinalized`, `EvaluationIsShown`,
`CallEnds`, `EvaluationCompletes`, `SessionEnds` - out of the prover's reach, as are `ENABLED`
and induction over data).  No module declares a RECURSIVE operator.

Some modules state further properties, each preceded by its meaning, that no run lists;
some are proved (see above), and they hold with the constants of the module's run: type invariants (`TypeOK`,
`VerdictTypeOK`); `StepsInOrder`, `NoRedispatchHolds`, `AttemptsAreAudited`,
`NoInputAfterFailure` (`StepExecutor`); `RetryIsBoundedAndJustified` (`StepGateCases`);
`TraceTellsTheDecisions`, `OscillationEndsTheRun`, `InterventionsAreEvidenced`,
`DecidedStatusesStand` (`OnlineGuardrail`); `RetriesWithinBudget` (`VerificationRunner`);
`UnseenTextNeverPasses`, `EnvironmentNeverBlamesApp`, `NoVerdictWithoutTheLook`,
`VerdictIsReached` (`AppVerdict`); `OneVerdictPerRun`, `JudgementsSurvive`,
`CompleteAccountsForEveryTask` (`EvaluationCampaign`); `SettingsFollowTheEvaluation`,
`ResultIsOfTheEvaluation` (`PcSession`); `ContextsAreSettled` (`RunnerTrace`);
`SelectionFallsThrough`, `FailIsSeen` (`TraceVerifier`); `NoHijack`,
`DisagreementNeedsTheHierarchy`, `ConformantClicksWereAligned` (`TargetAlignment`);
`StaleAgentsStayOut`, `AcceptedReportsAreWhole` (`HarmonyRun`); `PassStands`,
`AnswersAreKept`, `SessionEnds` (`EvidencePipeline`); `CohortFollowsThePilot`,
`ArtefactsAreWrittenOnce` (`RunCollection`).

## Further disagreements

While the code was translated, some of what its comments, docstrings and documents say
turned out not to be what it does.  Each statement is a property of a module that no
listed run checks; with the change given, TLC shows the behaviour as a counterexample.

| Property, module | Change to the run's `.cfg` | What is said | What the code does |
|---|---|---|---|
| `RetriesArePreDispatch`, `StepExecutor` | `SPECIFICATION Spec`, `Plan <- GoalPlan` | a Grounder's failure "cannot have dispatched a device action" (`app_test_agent/mobiagent_executor.py:1457`) and is retried as such (`step_gate.py:1113`) | a goal whose second or later micro-action is not grounded is repeated from its start, and its audit says `PRE_DISPATCH_RETRY` (262-274), although the earlier ones reached the app |
| `ControlStopsTheStep`, `StepExecutor` | `SPECIFICATION Spec` | a control action "requires user intervention or terminated the step" (`step_gate.py:490`) | the control record becomes the action of the attempt (1210-1220); with strong progress on the screen the step continues, and the audit says `action_dispatched` (561) |
| `DiagnosticHitIsNoTarget`, `TargetAlignment` | - | a rejected alignment's hit is diagnostic only, no conformant target (`step_gate.py:928-935`) | a collapsed box finds `no_candidate`, which refuses only text entries (`runner/mobiagent/mobiagent.py:3005`): it is clicked, and its direct hits certify it (`step_gate.py:942-944`) |
| `InputHasAKnownFocus`, `RunnerTrace` | `MaxErrors = 0` | "refusing to type into unknown focus" (`runner/mobiagent/mobiagent.py:2025`) | the focus remembered on the device object outlives the stop and start of an app (1841-1862, 2022) |
| `FinalizedTraceIsComplete`, `RunnerTrace` | `MaxTasks = 1`, `MaxErrors = 0` | artifact references keep the complete screenshot and hierarchy (`EF/runner_source.py:62`) | the directory is listed before the final files are looked for (384-386): frames saved in between are never told |
| `DecidedStands`, `AppVerdict` | `LegacyAnswers = {"NONE"}`, `VisionAnswers = {"OFF"}` | a visit "may only collect additional observations" (`verification_runner.py:3-5`) | all expected results are judged again on the visit's record, which carries no success signals or state changes (`orchestrator.py:200-216`, `verification_runner.py:914-923`) |
| `HistoricalTextFailsClosed`, `AppVerdict` | the same | "persistent historical text without either proof must fail closed" (`evidence.py:310-312`) | the visit's record has no initial texts, so that old text counts as new (`evidence.py:316`, `offline_verifier.py:694-699`) |
| `ConfirmedDeviceExecutes`, `PcSession` | `MaxRuns = 1`, `MaxFaults = 0` | evaluate after confirming the device and the content (`README.md:40`) | device, case and folder are read from the window again after the question (`app.py:709-720`), which a listing may have changed meanwhile; only the serial was kept |
| `EvaluationIsSurfaced`, `PcSession` | `MaxRuns = 3`, `MaxFaults = 0` | the worker's outcome is "surfaced to the desktop operator" (`app.py:751`) | an exception in the handler of one event ends the polling (`app.py:757-771`), and later outcomes stay in the queue |
| `FailingMainEnds`, `HarmonyRun` | `MaxCalls = 1`, `MaxRequests = 1`, `Kinds = {"bridge"}`, `Contents <- OneContent` | `main` reports a failed mapping or start | its cleanup closes a server that never served, which waits for ever (`harmony_hdc_bridge.py:345-379`) |
| `WorkersEndWithTheServer`, `HarmonyRun` | `MaxCalls = 1`, `MaxRequests = 1`, `Kinds = {"owned"}`, `Contents <- OneContent` | "request workers must not outlive server shutdown" (`harmony_hdc_bridge.py:190`) | daemon threads are not waited for; they end with the process only |
| `ReportIsOwn`, `HarmonyRun` | `MaxRequests = 1`, `Kinds = {"owned"}`, `Cases <- TwoCases`, `Contents <- OneContent` | the runner executes a test case and takes in "its report" (`harmony_phone_agent_runner.py:91`) | a report is found by a name prefix and a time, which an agent left over from the previous call may meet |
| `CandidateTimesMonotone`, `OnlineGuardrail` | `Circumstances <- MCClockSetBack` | "timestamps must be monotonic" (`EF/online_guardrail.py:645`) | `handle_done` compares a candidate with the first one only (1048-1051); the trace it made then fails its own validation |
| `CorruptionIsEvidenceLoss`, `OnlineGuardrail` | - | "emit only the UNKNOWN_EVIDENCE supplement here" (`EF/online_guardrail.py:1088`) | an observed violation that the replayed status does not show yet is told as a corruption too (1091-1095) |
| `FinalAgreesWithReport`, `TraceVerifier` | `MaxCompiles = 1` | invalidity and mandatory evidence "are handled before criterion verdicts" (`EF/aggregation.py:76-79`) | the public verdict looks at the trace's integrity only (`EF/upgraded_verifier.py:926`), so that a report invalid for want of evidence is published as PASS or FAIL |
| `FreezePrecedesRunner`, `EvaluationCampaign` | `Trees = {t1}`, `MaxCrashes = 0`, `MaxJudgements = 0`, `MaxEdits = 0` | the contract is persisted "before invoking Runner" (`EF/automated_evaluation_plan.py:330`) | the collector runs first (835-840) |
| `VerdictsAreOfTheAcceptedTree`, `EvaluationCampaign` | `MaxCrashes = 0` | "Verify the create-once intake receipt before consuming trace evidence" (`EF/upgraded_verifier.py:726`) | the manifest is read before the one comparison (1089-1090), the trace (1092), the G1 frames (1115) and the checkers' and the model's images (1131-1164) after it, and nothing is compared again: a directory that changes in between is judged under the receipt of another tree |
| `FailStands`, `EvidencePipeline` | - | a missing capability is "never" made a PASS or FAIL (`EF/aggregation.py:78`; "unsupported_is_not_failure", `EF/batch_replay_alignment.py:856`) | a node not seen on the frames that were answered counts as violated (`EF/legacy_checker_lowering.py:444`); a FAIL over a partial cache becomes a PASS once more is recorded |

Replace the lists of properties by the one named (`PROPERTY` for `FailStands`,
`FreezePrecedesRunner`, `FailingMainEnds` and `EvaluationIsSurfaced`, `INVARIANT` for the
others), keep the rest.

Seen while reading, without a property:

* `_offline_allows_visual_fallback` refuses the visual model for reasons that mention an
  overlay of the input method or the clipboard (`app_verifier.py:583-584`), but the reason of
  a review never has that detail (`offline_verifier.py:727-728`, 1232-1281): the markers match
  nothing, and `VisualAllowed` (`AssertionEvidence`) leaves them out.
* `promote_draft_shard` promises "recorder-compatible JSON" (`EF/recording_coverage_planner.py:1052`),
  but its result has a `manifest_sha256` that the recorder's exact set of keys refuses.
* The live A/B host passes the interceptor arguments the shared runner does not take
  (`TOOLS/run_live_commercial_guardrail_ab.py`), so that every live arm raises a `TypeError`;
  the models take its policy, not its loop.
* The studies stamp `automated_verifier_run_before_review: False` as a constant, and no tool
  enforces "verifier_allowed_before_gt" (`EF/phase5_cross_app_realism_cohort.py:263`) or "GT
  was not frozen before verifier" (`EF/phase5_ground_truth.py:32`).  Several, conflicting
  truths of one run are possible, and the truth of one source tree may be compared with the
  verdict of another.
* A ground truth written into the run's own directory changes the hash the receipt is about,
  and an intake repeated after that hashes the answer along with the run.
* A collector that dies leaves its start record, which spends the run's id; one whose trace is
  partial may exit with success and gets no receipt; one failing case of a comparison loses the
  decisions already paid for.
* A blind review's finalizer takes hashes of guardrail traces and audits from the mapping
  without looking at the files again; directories half prepared or half finalized are cleared
  by hand.

## Not modelled

* **Run envelope, command line, contract compilation** (`run.py`, `contract.py`, `run_envelope.py`):
  sequential conversion of data without state of its own.  `AppVerdict` starts from the compiled
  case.
* **Perception** (OCR, icon detection, local experience): functions over images and text.  What
  they answer is chosen by the environment wherever a model uses it.
* **Data**: example cases, prompts, JSON schemas, frozen manifests.
* **MobiAgent runner**: prompts, model adapters, application matching, experience and device
  drivers are input and output.  The gestures (`swipe`, `wait`, ...) differ only in their record.
  A manual intervention at `call_user` leaves the remembered focus alone, as in the code.
* **Step executor**: matching of texts and hierarchies (`_goal_*`, `_target_*`) is an input where
  `TargetAlignment` does not cover it; `goal_state`, computed before the last burst and judged
  later, is not kept (see the hazards of `PROJECT.json`).
* **Online guardrail**: the A/B case reports and metrics of the second half of
  `online_guardrail.py`, and parsing of its JSON.
* **Functional verifiers**: page classification, matching of surfaces, and the replay mirror are
  inputs; invalid traces are refused before.
* **Verification runner**: the generated route and the grounding of a navigation's target are
  inputs; of the scripted runner only its refusals, blocks and failed routes.
* **PC client**: credentials, preflight of files, rendering.
* **Event log**: a trace has passed the validation of its file; the cursor of the temporal
  replay and the refusal of malformed events are left out.
* **Contracts**: the format of the registry's files, the wording checks and prompts of the
  compiler, and DAGs of more than two nodes from it; validating a frozen file again is one step
  with restoring it.
* **Upgraded verifier and audit**: the YAML reader; guarantee, terminal facts and overlay of the
  envelope; in the phase-5 contract the rule gate is never decided without a model.
* **Studies and tools**: earlier audits, one-off probes, reports and summaries are straight-line
  processing of files; of the live A/B host only that an arm is run at most once.

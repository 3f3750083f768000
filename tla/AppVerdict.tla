----------------------------- MODULE AppVerdict -----------------------------
(***************************************************************************)
(* From the end of the execution of a test case to its verdict: run_app_test*)
(* and _maybe_run_verification of app_test_agent/orchestrator.py and       *)
(* attribute_result of attribution.py, with the real verification runner   *)
(* (VerificationRunner), the judgement of the expected results             *)
(* (AssertionEvidence) and of the execution (ExecutionConformance).        *)
(*                                                                         *)
(* A test case is [assertions, forbids, policy, route, contract]: its       *)
(* expected results, whether it forbids an effect, the policy of the       *)
(* verification runner, the effective route, which is empty only if there  *)
(* is nothing to look for.  An execution is [initialSeen, steps,           *)
(* evidence].  What the legacy checker and the models answer is chosen at  *)
(* every judgement.                                                        *)
(***************************************************************************)
EXTENDS VerificationRunner, AssertionEvidence, ExecutionConformance

CONSTANTS TestCases,
          Executions,       \* what an executor may make of a test case, by test case
          LegacyAnswers,    \* a subset of {"NONE", "SATISFIED", "VIOLATED"}
          VisionAnswers     \* a subset of {"OFF", "VISIBLE", "NOT_VISIBLE", "UNSURE"}

Policies == {"NEVER", "IF_DIRECT_UNKNOWN", "REQUIRED_FOR_RESULT"}

\* The delays of the policy are the schedule of the bursts, of which the
\* immediate look is a part when there is no delay.
ASSUME OffsetsAssumption ==
    ExpectedOffsets # {} /\ ExpectedOffsets \subseteq 0..BurstLength - 1

\* The schema refuses a test case whose policy is NEVER and that has an
\* expected result which needs the runner, and one that expects nothing.
ASSUME TestCasesAssumption ==
    \A t \in TestCases :
        /\ t.policy \in Policies /\ t.assertions # <<>> /\ t.route \in Routes
        /\ t.policy = "NEVER" => \A i \in DOMAIN t.assertions : ~t.assertions[i].needsRunner

\* The schema of a test case gives its steps a mode and a number of retries,
\* and a precondition comes to one of four answers; the executor writes one
\* record per step it attempted, and its frames in the order of capture.
StepContract == [mode : {"ATOMIC", "GOAL"}, retries : Nat]
Answered == {"OK", "ENV_BLOCKED", "FAIL", "UNSUPPORTED"}
StepRecord == [step : Nat, status : STRING, value : BOOLEAN, action : BOOLEAN, attempts : Nat,
               framed : BOOLEAN, gate : STRING, goal : STRING, done : BOOLEAN]
ScreenContents == [count : Nat, overlay : BOOLEAN, state : ObservationStates, surface : BOOLEAN,
                   forbidden : BOOLEAN, markers : SUBSET STRING, blocked : BOOLEAN]
BusinessFrame == [id : Nat, screen : ScreenContents, offset : Nat, stable : BOOLEAN,
                  after : BOOLEAN]

ASSUME ExecutionsAssumption ==
    \A t \in TestCases :
        /\ t.contract.steps \in Seq(StepContract)
        /\ t.contract.preconditions \in Seq(Answered)
        /\ \A e \in Executions[t] :
               /\ e.steps \in Seq(StepRecord) /\ e.evidence.frames \in Seq(BusinessFrame)
               /\ e.evidence.role = "BUSINESS_EXECUTION"

VARIABLES stage, test, hasRunner,
          execution, conformance,
          direct,       \* the statuses of the expected results on the business evidence
          statuses,     \* those the verdict rests on
          behavior, verdict,
          excused,      \* history: conformant only by the word of the flow model
          assisted      \* history: the legacy checker or a model changed a status

caseVars == <<test, hasRunner, execution, conformance, excused>>
judgeVars == <<direct, statuses, behavior, assisted>>
verdictVars == <<runnerVars, stage, caseVars, judgeVars, verdict>>

VerdictInit ==
    /\ RunnerInit
    /\ stage = "execute"
    /\ test \in {t \in TestCases : t.route = route} /\ hasRunner \in BOOLEAN
    /\ execution = "NONE" /\ conformance = "NONE" /\ excused = FALSE
    /\ direct = <<>> /\ statuses = <<>> /\ behavior = "NOT_EVALUATED" /\ assisted = FALSE
    /\ verdict = "NONE"

-----------------------------------------------------------------------------
(* Execution and direct judgement.                                         *)

\* A test that was not executed as declared says nothing of the app.
Execute ==
    /\ stage = "execute"
    /\ \E e \in Executions[test], answer \in FlowAnswers :
           /\ execution' = e
           /\ conformance' = Conformance(test.contract, e, answer)
           /\ excused' = (conformance' # Conformance(test.contract, e, "OFF"))
    /\ stage' = IF conformance' = "COMPLETED" THEN "judge" ELSE "attribute"
    /\ UNCHANGED <<runnerVars, test, hasRunner, judgeVars, verdict>>

Asserted == DOMAIN test.assertions
Answers(set) == [Asserted -> set]
\* Every expected result, judged on the record rec.
Judged(rec, legacy, vision) ==
    [i \in Asserted |->
        AssertionStatus(test.assertions[i], rec, execution.evidence, legacy[i], vision[i])]
Unheard == [i \in Asserted |-> "NONE"]
Unassisted(rec) == Judged(rec, Unheard, [i \in Asserted |-> "OFF"])

Behavior(judged) ==
    BehaviorOf({judged[i] : i \in {j \in Asserted : test.assertions[j].required}}
               \cup (IF test.forbids THEN {ForbiddenStatus(execution.evidence)} ELSE {}))

\* verify_app_behavior on the business evidence.
JudgeDirectly ==
    /\ stage = "judge"
    /\ \E legacy \in Answers(LegacyAnswers), vision \in Answers(VisionAnswers) :
           direct' = Judged(execution.evidence, legacy, vision)
    /\ statuses' = direct' /\ behavior' = Behavior(direct')
    /\ assisted' = (direct' # Unassisted(execution.evidence))
    /\ stage' = "decide"
    /\ UNCHANGED <<runnerVars, caseVars, verdict>>

-----------------------------------------------------------------------------
(* _maybe_run_verification.                                                *)

NoVisitNeeded ==
    \/ test.policy = "NEVER"
    \/ test.policy = "IF_DIRECT_UNKNOWN" /\ behavior # "UNKNOWN_EVIDENCE"

StandByDirect ==
    /\ stage = "decide" /\ NoVisitNeeded
    /\ stage' = "attribute"
    /\ UNCHANGED <<runnerVars, caseVars, judgeVars, verdict>>

\* Nobody can look: the direct result stands unless the policy needs a look.
NobodyToAsk ==
    /\ stage = "decide" /\ ~NoVisitNeeded /\ ~hasRunner /\ route = <<>>
    /\ behavior' = IF test.policy = "REQUIRED_FOR_RESULT" THEN "UNSUPPORTED" ELSE behavior
    /\ stage' = "attribute"
    /\ UNCHANGED <<runnerVars, caseVars, direct, statuses, assisted, verdict>>

StartVisit ==
    /\ stage = "decide" /\ ~NoVisitNeeded /\ hasRunner
    /\ stage' = "visit"
    /\ UNCHANGED <<runnerVars, caseVars, judgeVars, verdict>>

Visit ==
    /\ stage = "visit" /\ pc # "end"
    /\ RunnerNext
    /\ UNCHANGED <<stage, caseVars, judgeVars, verdict>>

\* The behavior after a visit whose observations cannot be used.
UnusableVisit(status) ==
    IF status \in {"ENV_BLOCKED", "UNSUPPORTED"} THEN status ELSE "UNKNOWN_EVIDENCE"

\* The scripted runner that stands in for a missing one.
ScriptedVisit(status) ==
    /\ stage = "decide" /\ ~NoVisitNeeded /\ ~hasRunner /\ route # <<>>
    /\ behavior' = UnusableVisit(status)
    /\ stage' = "attribute"
    /\ UNCHANGED <<runnerVars, caseVars, direct, statuses, assisted, verdict>>

Usable == outcome.status = "COMPLETED" /\ outcome.reached /\ outcome.sufficient

VisitFailed ==
    /\ stage = "visit" /\ pc = "end" /\ ~Usable
    /\ behavior' = UnusableVisit(outcome.status)
    /\ stage' = "attribute"
    /\ UNCHANGED <<runnerVars, caseVars, direct, statuses, assisted, verdict>>

\* The record the runner returns: no initial texts, no state change and no
\* success signal, for it tests nothing.
VerificationRecord ==
    [role |-> "VERIFICATION_OBSERVATION", initial |-> 0, frames |-> frames,
     sufficient |-> outcome.sufficient, changed |-> "NONE", signals |-> "FALSE",
     reachedIn |-> UNION {results[k].frames : k \in {j \in DOMAIN results :
                                                        results[j].reached = "TRUE"}}]

\* Every expected result is judged again, on the verification record alone;
\* the legacy checker finds no actions.json there.
AdoptVisit ==
    /\ stage = "visit" /\ pc = "end" /\ Usable
    /\ \E vision \in Answers(VisionAnswers) :
           statuses' = Judged(VerificationRecord, Unheard, vision)
    /\ behavior' = Behavior(statuses')
    /\ assisted' = (statuses' # Unassisted(VerificationRecord))
    /\ stage' = "attribute"
    /\ UNCHANGED <<runnerVars, caseVars, direct, verdict>>

-----------------------------------------------------------------------------
(* attribute_result.                                                       *)

OverallResult ==
    IF "UNSUPPORTED" \in {conformance, behavior} THEN "UNSUPPORTED"
    ELSE IF conformance \in {"ENV_BLOCKED", "INCONCLUSIVE"} THEN conformance
    ELSE IF conformance # "COMPLETED" THEN "TEST_EXECUTION_FAIL"
    ELSE CASE behavior = "SATISFIED" -> "APP_PASS"
           [] behavior = "ENV_BLOCKED" -> "ENV_BLOCKED"
           [] behavior = "VIOLATED" -> "APP_FAIL"
           [] OTHER -> "INCONCLUSIVE"

Attribute ==
    /\ stage = "attribute"
    /\ verdict' = OverallResult
    /\ stage' = "done"
    /\ UNCHANGED <<runnerVars, caseVars, judgeVars>>

Advance ==
    \/ Execute \/ JudgeDirectly
    \/ StandByDirect \/ NobodyToAsk \/ StartVisit \/ Visit \/ VisitFailed \/ AdoptVisit
    \/ \E status \in {"ROUTE_FAILED", "ENV_BLOCKED", "UNSUPPORTED"} : ScriptedVisit(status)
    \/ Attribute

VerdictNext == Advance \/ (stage = "done" /\ UNCHANGED verdictVars)

\* One thread runs to its end: every call returns or times out.
VerdictSpec == VerdictInit /\ [][VerdictNext]_verdictVars /\ WF_verdictVars(Advance)

-----------------------------------------------------------------------------
(* Properties.                                                             *)

VerdictTypeOK ==
    /\ stage \in {"execute", "judge", "decide", "visit", "attribute", "done"}
    /\ conformance \in ExecutionStatuses \cup {"NONE"}
    /\ behavior \in AppStatuses \cup {"NOT_EVALUATED", "ENV_BLOCKED"}
    /\ direct \in {<<>>} \cup [Asserted -> AppStatuses]
    /\ statuses \in {<<>>} \cup [Asserted -> AppStatuses]
    /\ verdict \in {"NONE", "APP_PASS", "APP_FAIL", "TEST_EXECUTION_FAIL", "ENV_BLOCKED",
                    "INCONCLUSIVE", "UNSUPPORTED"}
    /\ (verdict = "NONE") = (stage # "done")

OfTheApp == verdict \in {"APP_PASS", "APP_FAIL"}
Required == {i \in Asserted : test.assertions[i].required}

\* The verdict rests on what a visit saw.
Adopted == pc = "end" /\ Usable /\ stage \in {"attribute", "done"}
JudgedRecord == IF Adopted THEN VerificationRecord ELSE execution.evidence
JudgedFrames == ToSet(JudgedRecord.frames)

\* Unless a model or the legacy checker said so, a test passes only
\* if every text it requires was read on a settled page of the record that
\* was judged, not just in the clipboard or an input field, after the action
\* it should follow, and not before its surface had shown
\* (offline_verifier.py:707-757, evidence.py:249-283).
UnseenTextNeverPasses ==
    verdict = "APP_PASS" /\ ~assisted =>
        \A i \in Required : test.assertions[i].type = "TEXT_VISIBLE" =>
            \E f \in JudgedFrames :
                /\ Shows(f) /\ SettledOn(f) /\ ~f.screen.overlay
                /\ test.assertions[i].after /\ ~Adopted => f.after
                /\ test.assertions[i].surface /\ (Adopted \/ test.assertions[i].after) =>
                       \E g \in JudgedFrames : OnSurface(g) /\ g.id <= f.id

\* Unless a model or the legacy checker said so, nothing rests on
\* the absence of a text but a look at every delay of the observation
\* policy: not the absence of a forbidden effect or text, for which a test
\* passes, nor that of an expected text, for which the app fails
\* (evidence.py:69-163).
AbsenceNeedsTheWindow ==
    LET WholeWindow(shots) == \A o \in ExpectedOffsets : \E f \in shots : f.offset = o
        business == ToSet(execution.evidence.frames)
        ByText(status, type) == \E i \in Required :
            statuses[i] = status /\ test.assertions[i].type = type
    IN  /\ verdict = "APP_PASS" /\ test.forbids =>
               WholeWindow(business) /\ \A f \in business : ~f.screen.forbidden
        /\ verdict = "APP_PASS" /\ ~assisted /\ ByText("SATISFIED", "TEXT_ABSENT") =>
               /\ WholeWindow(JudgedFrames)
               /\ \E f \in JudgedFrames : f.stable
        /\ verdict = "APP_FAIL" /\ ~assisted /\ ByText("VIOLATED", "TEXT_VISIBLE") =>
               /\ WholeWindow(JudgedFrames)
               /\ \E f \in JudgedFrames : SettledOn(f) /\ ~Shows(f)

\* An environment that got in the way - a precondition, a step, a dialog over
\* the visit - is never held for or against the app (attribution.py:15-67).
EnvironmentNeverBlamesApp ==
    OfTheApp =>
        /\ \A k \in DOMAIN execution.steps : execution.steps[k].status # "ENV_BLOCKED"
        /\ \A k \in DOMAIN test.contract.preconditions : test.contract.preconditions[k] = "OK"
        /\ \A k \in DOMAIN frames : ~frames[k].screen.blocked

\* Where the look of an independent runner is required - by the policy of the
\* test, or by a text it must find - no verdict on the app, or no pass, comes
\* without one that reached its surface and saw the whole window
\* (orchestrator.py:120-251, offline_verifier.py:648-657).
NoVerdictWithoutTheLook ==
    /\ OfTheApp /\ test.policy = "REQUIRED_FOR_RESULT" => Adopted
    /\ verdict = "APP_PASS" /\ (\E i \in Required : /\ test.assertions[i].needsRunner
                                                    /\ test.assertions[i].type \in TextTypes)
       => Adopted

\* The app is judged only on an execution of exactly the declared steps, in
\* their order, with the declared values, after all the preconditions; and
\* unless the flow model said otherwise, each within its attempts, observed,
\* not at odds with its gate and, if a goal, confirmed
\* (execution_verifier.py:25-207).
CompletedFollowsContract ==
    conformance = "COMPLETED" =>
        /\ Len(execution.steps) = Len(test.contract.steps)
        /\ \A k \in DOMAIN test.contract.preconditions : test.contract.preconditions[k] = "OK"
        /\ \A k \in DOMAIN execution.steps :
               LET result == execution.steps[k]
                   step == test.contract.steps[k]
               IN  /\ result.step = k /\ result.status = "STEP_COMPLETED" /\ result.value
                   /\ ~excused =>
                          /\ result.action /\ result.framed
                          /\ result.attempts \in 1..step.retries + 1
                          /\ result.gate \notin {"TEST_EXECUTION_FAIL", "RETRY", "ENV_BLOCKED",
                                                  "INCONCLUSIVE"}
                          /\ step.mode = "GOAL" => result.goal = "COMPLETED"
                          /\ step.mode = "ATOMIC" => ~result.done

\* Every run ends with a verdict.
VerdictIsReached == <>(stage = "done")

\* What the verification runner's module says of itself: it "may only collect
\* additional observations after conformant test execution"
\* (verification_runner.py:3-5).  A result that the business evidence had
\* shown to be satisfied is then not turned into a violation by a visit on
\* which nobody and no model saw anything against it.
DecidedStands ==
    \A i \in DOMAIN statuses :
        direct[i] = "SATISFIED" /\ test.assertions[i].type = "SUCCESS_SIGNAL"
            => statuses[i] # "VIOLATED"

\* "Persistent historical text without either proof must fail closed"
\* (evidence.py:312): unless a model said so, a text that was there before the
\* action passes as a new one only when some look shows more of it.
HistoricalTextFailsClosed ==
    verdict = "APP_PASS" /\ ~assisted /\ execution.evidence.initial > 0 =>
        \A i \in Required :
            test.assertions[i].fresh /\ test.assertions[i].type = "TEXT_VISIBLE" =>
                \E f \in JudgedFrames : f.screen.count > execution.evidence.initial
=============================================================================

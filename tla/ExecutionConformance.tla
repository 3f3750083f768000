------------------------ MODULE ExecutionConformance ------------------------
(***************************************************************************)
(* Whether the executor followed the test: verify_execution_conformance    *)
(* of app_test_agent/execution_verifier.py.                                *)
(*                                                                         *)
(* A contract is [steps, preconditions]: the steps in their order, each    *)
(* [mode, retries], and what each precondition comes to on the initial     *)
(* texts, in order ("OK", "ENV_BLOCKED", "FAIL", "UNSUPPORTED").  An       *)
(* execution is [initialSeen, steps]: whether there are initial texts, and *)
(* the step results [step, status, value, action, attempts, framed, gate,  *)
(* goal, done]: which step of the contract it is, whether value and        *)
(* action are those of the contract, whether it has post frames, the last  *)
(* gate decision, what it says of the goal, whether the model said "done". *)
(* The reason of an uncertain flow, by which the code recognises it, is    *)
(* the field uncertain.                                                    *)
(***************************************************************************)
EXTENDS Naturals, Sequences

ExecutionStatuses == {"COMPLETED", "TEST_EXECUTION_FAILED", "ENV_BLOCKED", "INCONCLUSIVE",
                      "UNSUPPORTED"}
FlowAnswers == {"OFF", "CONFORMANT", "NONCONFORMANT", "UNSURE"}
NoFailure == "NONE"

FirstIn(set) == CHOOSE k \in set : \A l \in set : k <= l

VerifyPreconditions(contract, execution) ==
    LET failing == {k \in DOMAIN contract.preconditions : contract.preconditions[k] # "OK"}
        first == contract.preconditions[FirstIn(failing)]
    IN  IF contract.preconditions = <<>> THEN NoFailure
        ELSE IF ~execution.initialSeen
        THEN IF \E k \in DOMAIN execution.steps : execution.steps[k].status = "ENV_BLOCKED"
             THEN "ENV_BLOCKED" ELSE "TEST_EXECUTION_FAILED"
        ELSE IF failing = {} THEN NoFailure
        ELSE IF first = "FAIL" THEN "TEST_EXECUTION_FAILED" ELSE first

\* The first step result that is not completed decides.
VerifyStatuses(execution) ==
    LET broken == {k \in DOMAIN execution.steps : execution.steps[k].status # "STEP_COMPLETED"}
        status == execution.steps[FirstIn(broken)].status
    IN  IF broken = {} THEN NoFailure
        ELSE IF status \in {"ENV_BLOCKED", "UNSUPPORTED", "INCONCLUSIVE"} THEN status
        ELSE "TEST_EXECUTION_FAILED"

\* Mutant: only the number of the step results is compared.
CountOnly(contract, execution) == Len(execution.steps) = Len(contract.steps)

InOrder(contract, execution) ==
    /\ Len(execution.steps) = Len(contract.steps)
    /\ \A k \in DOMAIN execution.steps : execution.steps[k].step = k

ValuesMatch(execution) == \A k \in DOMAIN execution.steps : execution.steps[k].value

Certain(status) == [status |-> status, uncertain |-> FALSE]
Uncertain(status) == [status |-> status, uncertain |-> TRUE]
Broken == Certain("TEST_EXECUTION_FAILED")

\* One step against its contract, in the code's order.
StepFlow(step, result) ==
    IF ~result.action \/ result.attempts \notin 1..step.retries + 1 \/ ~result.framed
    THEN Broken
    ELSE IF result.gate \in {"ENV_BLOCKED", "INCONCLUSIVE"} THEN Uncertain(result.gate)
    ELSE IF result.gate \in {"TEST_EXECUTION_FAIL", "RETRY"} THEN Broken
    ELSE IF step.mode = "GOAL"
    THEN CASE result.goal = "MISSING" -> Uncertain("INCONCLUSIVE")
           [] result.goal = "COMPLETED" -> Certain(NoFailure)
           [] OTHER -> Broken
    ELSE IF result.done THEN Broken
    ELSE Certain(NoFailure)

\* The first step that does not pass ends the check: later ones are not seen.
VerifyFlow(contract, execution) ==
    LET flow == [k \in DOMAIN contract.steps |->
                    StepFlow(contract.steps[k], execution.steps[k])]
        stopping == {k \in DOMAIN flow : flow[k].status # NoFailure}
    IN  IF stopping = {} THEN Certain(NoFailure) ELSE flow[FirstIn(stopping)]

\* The flow model is asked only about an uncertain flow; OFF also stands for
\* an answer below the threshold of confidence.
FlowStatus(flow, answer) ==
    IF ~flow.uncertain THEN flow.status
    ELSE CASE answer = "CONFORMANT" -> NoFailure
           [] answer = "NONCONFORMANT" -> "TEST_EXECUTION_FAILED"
           [] OTHER -> flow.status

\* contract.steps and execution.steps are joined by index once they are known
\* to be in the contract's order.
Conformance(contract, execution, answer) ==
    LET before == VerifyPreconditions(contract, execution)
        statuses == VerifyStatuses(execution)
        flow == FlowStatus(VerifyFlow(contract, execution), answer)
    IN  IF before # NoFailure THEN before
        ELSE IF statuses # NoFailure THEN statuses
        ELSE IF ~InOrder(contract, execution) \/ ~ValuesMatch(execution)
        THEN "TEST_EXECUTION_FAILED"
        ELSE IF flow # NoFailure THEN flow
        ELSE "COMPLETED"
=============================================================================

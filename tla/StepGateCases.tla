--------------------------- MODULE StepGateCases ----------------------------
(***************************************************************************)
(* The Step Gate over bounded inputs: a case is a step, the record of what *)
(* the runner did for it and what the screen showed; evaluating it must    *)
(* respect what the comments of step_gate.py and its callers promise,      *)
(* whatever order the gate's early returns come in.                        *)
(***************************************************************************)
EXTENDS StepGate

CONSTANTS MaxMicro,     \* bound: micro-actions of a goal
          MaxRetries    \* bound: max_retries of the steps

ASSUME BoundsAssumption == MaxMicro \in Nat /\ MaxRetries \in Nat

VARIABLES case, verdict

Pending == Gate("not evaluated", "UNKNOWN", "UNKNOWN", "UNKNOWN")

StepCases ==
    {[kind |-> k, mode |-> m, role |-> r, retries |-> n, value |-> k \in {"INPUT", "GUI_TASK"}] :
        k \in {"CLICK", "INPUT", "WAIT", "GUI_TASK"}, m \in {"ATOMIC", "GOAL"},
        r \in {"plain", "thread"}, n \in 0 .. MaxRetries}

MicroCases ==
    UNION {[1 .. n -> [decision : Decisions \ {"RETRY"}, target : Targets]] :
              n \in 0 .. MaxMicro}

RecordCases(s) ==
    {[type |-> t, continued |-> FALSE, sameText |-> t \in InputTypes, direction |-> TRUE,
      target |-> g, context |-> c, effect |-> e, micro |-> m] :
        t \in IF s.kind = "GUI_TASK" THEN {"gui_task"} ELSE AllowedTypes(s.kind) \cup {"abort"},
        g \in IF s.kind \in {"CLICK", "INPUT"} THEN Targets ELSE {"CONFORMANT"},
        c \in {"none", "CONFORMANT", "NON_CONFORMANT", "UNKNOWN"},
        e \in IF s.kind = "INPUT" THEN {"none", "CONFORMANT", "NON_CONFORMANT", "UNKNOWN"}
              ELSE {"none"},
        m \in IF s.kind = "GUI_TASK" THEN MicroCases ELSE {<<>>}}

ViewCases ==
    [env : BOOLEAN, shows : BOOLEAN, stage : BOOLEAN,
     next : {"no_next_step", "CONFORMANT", "UNKNOWN"}, nextText : {FALSE},
     delta : {"SAME", "PAGE_CHANGED"}]

WellFormed(s) == s.kind = "GUI_TASK" => s.mode = "GOAL"

Init ==
    /\ verdict = Pending
    /\ \E s \in {x \in StepCases : WellFormed(x)} :
        \E a \in RecordCases(s), v \in ViewCases, n \in 1 .. s.retries + 1 :
            case = [step |-> s, record |-> a, view |-> v, attempt |-> n]

Evaluate ==
    /\ verdict = Pending
    /\ verdict' = EvaluateStepGate(case.step, case.record, case.view, case.attempt)
    /\ UNCHANGED case

Next == Evaluate
Spec == Init /\ [][Next]_<<case, verdict>>

-----------------------------------------------------------------------------
Judged(decision) == verdict.decision = decision

\* The gate lets a step go on only past every blocker at once: no environment
\* signal, a declared destination reached, no micro-action that its own gate
\* held back, a confirmed stage result for a GOAL, and no proof that the action
\* hit something else.
ContinueIsEarned ==
    Judged("CONTINUE") =>
        LET s == case.step  a == case.record  v == case.view IN
        /\ ~v.env
        /\ a.context \in {"none", "CONFORMANT"}
        /\ a.type = "gui_task" => \A i \in DOMAIN a.micro : a.micro[i].decision = "CONTINUE"
        /\ s.mode = "GOAL" => v.stage \/ v.shows
        /\ a.type \in ClickTypes => a.target \notin {"NON_CONFORMANT", "OVERLAY_BLOCKED"}

\* "If it is absent, orchestration must not advance to a button that could
\* submit stale or empty content" (_evaluate_input_effect): an INPUT whose
\* editable surface was looked at continues only if it held the value.
InputContinuesOnEditableEvidence ==
    Judged("CONTINUE") /\ case.step.kind = "INPUT" =>
        case.record.effect \in {"CONFORMANT", "none"}

\* A retry after a dispatch is asked for only within the budget, never for
\* typing that failed and never when the environment is blocked: only for a
\* click that opened the wrong page, or that an overlay took (the step's own, or
\* one of a goal's).
RetryIsBoundedAndJustified ==
    Judged("RETRY") =>
        LET s == case.step  a == case.record IN
        /\ case.attempt <= s.retries
        /\ ~case.view.env
        /\ a.effect # "NON_CONFORMANT" \/ s.kind # "INPUT"
        /\ \/ s.kind = "CLICK" /\ a.context = "NON_CONFORMANT"
           \/ a.type \in ClickTypes /\ a.target = "OVERLAY_BLOCKED"
           \/ s.kind = "GUI_TASK" /\ \E i \in DOMAIN a.micro : a.micro[i].target = "OVERLAY_BLOCKED"
=============================================================================

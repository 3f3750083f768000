------------------------------ MODULE StepGate ------------------------------
(***************************************************************************)
(* The runtime Step Gate (app_test_agent/step_gate.py): given a test step, *)
(* the record of the action the runner emitted for it and the frames seen  *)
(* afterwards, may the executor continue?  The gate has no state of its    *)
(* own; every operator below is one function of that file.                 *)
(*                                                                         *)
(* Texts, hierarchies and coordinates are abstracted to the verdicts the   *)
(* gate's branches ask of them:                                            *)
(*   a step  s = [kind, mode, role, retries, value, context]               *)
(*   an action record a = [type, continued, sameText, direction, target,   *)
(*                         context, effect, micro]                         *)
(*   a view of the post frames                                             *)
(*           v = [env, shows, stage, next, nextText, delta]                *)
(***************************************************************************)
EXTENDS Naturals, Sequences

Decisions == {"CONTINUE", "RETRY", "TEST_EXECUTION_FAIL", "ENV_BLOCKED", "INCONCLUSIVE"}
Conformance == {"CONFORMANT", "NON_CONFORMANT", "UNKNOWN"}
Targets == Conformance \cup {"OVERLAY_BLOCKED"}

StepKinds == {"OPEN_APP", "CLICK", "INPUT", "WAIT", "BACK", "GUI_TASK"}
Roles == {"plain", "thread", "floating_action_button"}
ControlTypes == {"info", "call_user", "abort"}
InputTypes == {"input", "click_input"}
ClickTypes == {"click", "click_input"}

Progresses == {"GOAL_RESULT_CONFIRMED", "NEXT_STEP_TARGET_AVAILABLE", "INPUT_VALUE_CONFIRMED",
               "INPUT_DISPATCH_CONFIRMED", "SWIPE_DISPATCH_CONFIRMED", "PAGE_CHANGED",
               "ASYNC_PAGE_CHANGED", "LOADING_CLEARED", "ACTION_CONFORMANT_PROGRESS_UNKNOWN",
               "UNKNOWN"}

\* "ATOMIC" steps map to one runner action; a GUI_TASK may take any of them.
AllowedTypes(kind) ==
    CASE kind = "OPEN_APP" -> {"open_app"}
      [] kind = "CLICK"    -> {"click"}
      [] kind = "INPUT"    -> InputTypes
      [] kind = "WAIT"     -> {"wait"}
      [] kind = "BACK"     -> {"press_back"}
      [] kind = "GUI_TASK" -> {"gui_task", "click", "click_input", "input", "swipe", "wait",
                               "press_back", "long_press", "press_home"} \cup ControlTypes

\* What a gate (and a micro-gate) answers.
Gate(decision, conformance, target, progress) ==
    [decision |-> decision, conformance |-> conformance,
     target |-> target, progress |-> progress]

Verdict(conformance, target) == [action |-> conformance, target |-> target]

-----------------------------------------------------------------------------
(* Conformance of the action record to the step. *)

\* Only a click has a target to prove; a.target abstracts the hit-test, the
\* dispatched point and the visual check that _target_conformance weighs.
TargetConformance(a) ==
    IF a.type \notin ClickTypes THEN "CONFORMANT" ELSE a.target

\* The first micro-gate of a goal that is not clean decides for all of them.
MicroStops(g) == \/ g.target = "NON_CONFORMANT"
                 \/ g.decision \in {"TEST_EXECUTION_FAIL", "ENV_BLOCKED", "INCONCLUSIVE"}

GoalMicroConformance(a) ==
    LET stops == {i \in DOMAIN a.micro : MicroStops(a.micro[i])}
        first == a.micro[CHOOSE i \in stops : \A j \in stops : i <= j]
    IN  IF a.micro = <<>> THEN Verdict("UNKNOWN", "UNKNOWN")
        ELSE IF stops = {}
        THEN Verdict("CONFORMANT",
                     IF \E i \in DOMAIN a.micro : a.micro[i].target = "UNKNOWN"
                     THEN "UNKNOWN" ELSE "CONFORMANT")
        ELSE Verdict(IF \/ first.target = "NON_CONFORMANT"
                        \/ first.decision = "TEST_EXECUTION_FAIL"
                     THEN "NON_CONFORMANT" ELSE "UNKNOWN",
                     first.target)

\* A runner control action asks for the user; the record says if it was handled.
ControlConformance(a) ==
    IF a.continued THEN Verdict("CONFORMANT", "CONFORMANT") ELSE Verdict("UNKNOWN", "UNKNOWN")

DispatchConformance(s, a) ==
    LET target == TargetConformance(a)
    IN  IF s.value /\ a.type \in InputTypes /\ ~a.sameText
        THEN Verdict("NON_CONFORMANT", "CONFORMANT")
        ELSE IF a.type = "swipe" /\ ~a.direction THEN Verdict("NON_CONFORMANT", "UNKNOWN")
        ELSE IF target \in {"OVERLAY_BLOCKED", "NON_CONFORMANT"}
        THEN Verdict("NON_CONFORMANT", target)
        ELSE IF target = "UNKNOWN" THEN Verdict("UNKNOWN", "UNKNOWN")
        ELSE Verdict("CONFORMANT", target)

ActionConformance(s, a) ==
    IF a.type \in ControlTypes THEN ControlConformance(a)
    ELSE IF a.type \notin AllowedTypes(s.kind) THEN Verdict("NON_CONFORMANT", "UNKNOWN")
    ELSE IF a.type = "gui_task" /\ GoalMicroConformance(a).action # "CONFORMANT"
    THEN GoalMicroConformance(a)
    ELSE DispatchConformance(s, a)

-----------------------------------------------------------------------------
(* Progress seen on the screen. *)

IsInputAction(s, a) == s.kind = "INPUT" \/ a.type \in InputTypes

GoalResultSeen(s, a, v) ==
    s.mode = "GOAL" /\ ~IsInputAction(s, a) /\ ((s.value /\ v.shows) \/ v.stage)

\* Mutant: the text counts wherever it is, the editable surface is not asked.
InputProgressAnywhere(a, v) ==
    IF v.shows THEN "INPUT_VALUE_CONFIRMED"
    ELSE IF a.sameText THEN "INPUT_DISPATCH_CONFIRMED" ELSE "NOT_AN_INPUT"

\* For an input with a value to type: the editable surface's evidence when it
\* was taken, otherwise the text anywhere, otherwise the dispatched text.
InputProgress(a, v) ==
    IF a.effect # "none"
    THEN IF a.effect = "CONFORMANT" THEN "INPUT_VALUE_CONFIRMED" ELSE "UNKNOWN"
    ELSE IF v.shows THEN "INPUT_VALUE_CONFIRMED"
    ELSE IF a.sameText THEN "INPUT_DISPATCH_CONFIRMED"
    ELSE "NOT_AN_INPUT"

ScreenProgress(a, v) ==
    IF a.type = "swipe" THEN "SWIPE_DISPATCH_CONFIRMED"
    ELSE IF v.next = "CONFORMANT" \/ (v.next = "unresolved" /\ v.nextText)
    THEN "NEXT_STEP_TARGET_AVAILABLE"
    ELSE IF v.delta # "SAME" THEN v.delta
    ELSE IF v.next = "no_next_step" THEN "ACTION_CONFORMANT_PROGRESS_UNKNOWN"
    ELSE "UNKNOWN"

ProgressStatus(s, a, v) ==
    IF GoalResultSeen(s, a, v) THEN "GOAL_RESULT_CONFIRMED"
    ELSE IF IsInputAction(s, a) /\ s.value /\ InputProgress(a, v) # "NOT_AN_INPUT"
    THEN InputProgress(a, v)
    ELSE ScreenProgress(a, v)

StrongProgress == {"NEXT_STEP_TARGET_AVAILABLE", "GOAL_RESULT_CONFIRMED", "INPUT_VALUE_CONFIRMED",
                   "INPUT_DISPATCH_CONFIRMED", "SWIPE_DISPATCH_CONFIRMED"}

MicroStrongProgress == {"INPUT_VALUE_CONFIRMED", "INPUT_DISPATCH_CONFIRMED",
                        "GOAL_RESULT_CONFIRMED", "SWIPE_DISPATCH_CONFIRMED"}

\* The swipe status is strong evidence but not in the gate's list of
\* statuses that let a step continue.
ContinueProgress == {"NEXT_STEP_TARGET_AVAILABLE", "GOAL_RESULT_CONFIRMED", "INPUT_VALUE_CONFIRMED",
                     "INPUT_DISPATCH_CONFIRMED", "PAGE_CHANGED", "ASYNC_PAGE_CHANGED",
                     "LOADING_CLEARED", "ACTION_CONFORMANT_PROGRESS_UNKNOWN"}

-----------------------------------------------------------------------------
(* The three gates. *)

\* Roles for which the gate asks for a Back-and-retry after a wrong page.
RecoverableNavigation(s, a) ==
    s.kind = "CLICK" /\ a.type = "click" /\ s.role \in {"thread", "floating_action_button"}

ContextGate(s, a, attempt) ==
    IF a.context = "NON_CONFORMANT"
    THEN Gate(IF RecoverableNavigation(s, a) /\ attempt <= s.retries
              THEN "RETRY" ELSE "TEST_EXECUTION_FAIL",
              "NON_CONFORMANT", "NON_CONFORMANT", "UNKNOWN")
    ELSE Gate("INCONCLUSIVE", "UNKNOWN", "UNKNOWN", "UNKNOWN")

\* Mutant: what the micro-gates held back is forgotten.
MicroBlockersForgotten(s, a) == {}

MicroBlockers(s, a) ==
    IF s.mode = "GOAL" /\ a.type = "gui_task"
    THEN {i \in DOMAIN a.micro : a.micro[i].decision \in {"ENV_BLOCKED", "INCONCLUSIVE"}}
    ELSE {}

GoalMicroBlockingResult(s, a) ==
    LET blockers == MicroBlockers(s, a)
    IN  a.micro[CHOOSE i \in blockers : \A j \in blockers : i <= j]

NonConformantGate(s, attempt, verdict) ==
    Gate(IF verdict.target = "OVERLAY_BLOCKED" /\ attempt <= s.retries
         THEN "RETRY" ELSE "TEST_EXECUTION_FAIL",
         "NON_CONFORMANT", verdict.target, "UNKNOWN")

ProgressGate(s, verdict, progress) ==
    Gate(IF \/ verdict.action = "UNKNOWN" /\ progress \notin StrongProgress
            \/ s.mode = "GOAL" /\ progress # "GOAL_RESULT_CONFIRMED"
            \/ progress \notin ContinueProgress
         THEN "INCONCLUSIVE" ELSE "CONTINUE",
         verdict.action, verdict.target, progress)

EvaluateStepGate(s, a, v, attempt) ==
    LET verdict == ActionConformance(s, a)
    IN  IF v.env THEN Gate("ENV_BLOCKED", "UNKNOWN", "UNKNOWN", "UNKNOWN")
        ELSE IF a.context \in {"NON_CONFORMANT", "UNKNOWN"} THEN ContextGate(s, a, attempt)
        ELSE IF MicroBlockers(s, a) # {} THEN GoalMicroBlockingResult(s, a)
        ELSE IF s.kind = "INPUT" /\ a.effect = "NON_CONFORMANT"
        THEN Gate("TEST_EXECUTION_FAIL", "NON_CONFORMANT", verdict.target, "UNKNOWN")
        ELSE IF verdict.action = "NON_CONFORMANT" THEN NonConformantGate(s, attempt, verdict)
        ELSE ProgressGate(s, verdict, ProgressStatus(s, a, v))

\* One action of a goal; its view has no next step to look for.
EvaluateMicroActionGate(s, a, v) ==
    LET verdict == ActionConformance(s, a)
        progress == ProgressStatus(s, a, [v EXCEPT !.next = "no_next_step"])
    IN  IF v.env THEN Gate("ENV_BLOCKED", "UNKNOWN", "UNKNOWN", "UNKNOWN")
        ELSE Gate(CASE verdict.action = "NON_CONFORMANT" -> "TEST_EXECUTION_FAIL"
                    [] verdict.action = "UNKNOWN" /\ progress \notin MicroStrongProgress
                         -> "INCONCLUSIVE"
                    [] OTHER -> "CONTINUE",
                  verdict.action, verdict.target, progress)

\* Mutant: one retry too many.
DispatchFailureGateOffByOne(retryable, attempt, retries) ==
    Gate(IF retryable /\ attempt <= retries + 1 THEN "RETRY" ELSE "TEST_EXECUTION_FAIL",
         "UNKNOWN", "UNKNOWN", "UNKNOWN")

\* An attempt that ended before the gate: "retryable" abstracts the markers
\* _dispatch_failure_is_retryable looks for in the error text.
EvaluateDispatchFailureGate(retryable, attempt, retries) ==
    Gate(IF retryable /\ attempt <= retries THEN "RETRY" ELSE "TEST_EXECUTION_FAIL",
         "UNKNOWN", "UNKNOWN", "UNKNOWN")
=============================================================================

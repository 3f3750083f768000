--------------------------- MODULE MCStepExecutor ---------------------------
(* Test cases for TLC: short plans in which every branch of the loop is met. *)
EXTENDS StepExecutor

Step(kind, role, retries) ==
    [kind |-> kind, mode |-> IF kind = "GUI_TASK" THEN "GOAL" ELSE "ATOMIC", role |-> role,
     retries |-> retries, value |-> kind = "INPUT", context |-> role = "thread", budget |-> 2]
WithoutValue(s) == [s EXCEPT !.value = FALSE]

\* A goal, a conversation to open, a text to type, and an INPUT without a text.
WholePlan == << Step("GUI_TASK", "plain", 1), Step("CLICK", "thread", 1),
                Step("INPUT", "plain", 0), WithoutValue(Step("INPUT", "plain", 0)) >>

\* A goal between atomic steps; an INPUT without a value at the end.
GoalPlan == << Step("GUI_TASK", "plain", 1), Step("BACK", "plain", 0),
               WithoutValue(Step("INPUT", "plain", 1)) >>
=============================================================================

----------------------- MODULE MCEvaluationCampaign -----------------------
(***************************************************************************)
(* A task to collect and then a trace that exists, or not: the results are *)
(* sorted into the other order.  The calls are fresh, resumed, resumed     *)
(* with --fail-fast, and without --execute-runner.                         *)
(***************************************************************************)
EXTENDS EvaluationCampaign

MCPlan == <<[kind |-> "GENERIC_RUNNER_TRACE", run |-> 3, family |-> "unseen"],
            [kind |-> "EXISTING_TRACE", run |-> 2, family |-> "known"]>>

Mode(execute, resume, failFast, diagnostics) ==
    [execute |-> execute, resume |-> resume, failFast |-> failFast, diagnostics |-> diagnostics]

MCModes == {Mode(TRUE, FALSE, FALSE, FALSE), Mode(TRUE, TRUE, FALSE, TRUE),
            Mode(TRUE, TRUE, TRUE, FALSE), Mode(FALSE, TRUE, FALSE, FALSE)}
=============================================================================

---------------------------- MODULE MCHarmonyRun ----------------------------
(* Test cases for TLC: two test cases of which one id continues the other,  *)
(* and reports that are whole, cut short, contradictory or badly sealed.    *)
EXTENDS HarmonyRun

TwoCases == {"login", "login-2"}
Continues(c, d) == c = d \/ d = "login"
OneCase == {"login"}

Step(k, dispatch, conformance, post) ==
    [step |-> k, dispatch |-> dispatch, conformance |-> conformance, faithful |-> TRUE,
     pre |-> {}, post |-> post]
Good(k) == Step(k, "ACTION_DISPATCHED", "CONFORMANT", {k})
Ends(k) == {Good(k),
            Step(k, "ACTION_DISPATCHED", "CONFORMANT", {}),
            Step(k, "ACTION_NOT_DISPATCHED", "CONFORMANT", {k}),
            Step(k, "ACTION_DISPATCHED", "UNKNOWN", {k}),
            Step(k, "ENV_BLOCKED", "CONFORMANT", {})}
StepLists == {<<Good(2)>>} \cup {<<e>> : e \in Ends(1)} \cup {<<Good(1), e>> : e \in Ends(2)}

Trace(frames, acts, status) ==
    <<[sealed |-> TRUE, frames |-> frames, cites |-> {}, acts |-> acts, status |-> status]>>
Whole == [steps |-> <<Good(1), Good(2)>>, frames |-> {1, 2}]
ManyContents ==
    {[sealed |-> TRUE, manifest |-> [steps |-> steps, frames |-> {1, 2}],
      required |-> FALSE, trace |-> <<>>] : steps \in StepLists}
    \cup {[sealed |-> TRUE, manifest |-> [steps |-> <<Good(1), Good(2)>>, frames |-> {1}],
           required |-> FALSE, trace |-> <<>>]}
    \cup {[sealed |-> FALSE, manifest |-> Whole, required |-> FALSE, trace |-> <<>>]}
    \cup {[sealed |-> TRUE, manifest |-> Whole, required |-> TRUE, trace |-> trace] :
            trace \in {<<>>, Trace({}, TRUE, "ENV_BLOCKED"), Trace({}, TRUE, "COMPLETED"),
                       Trace({1}, TRUE, "COMPLETED")}}
OneContent == {[sealed |-> TRUE, manifest |-> Whole, required |-> FALSE, trace |-> <<>>]}

\* An executor stops after the first step that is not completed.
Result(k, status, actions) ==
    [step |-> k, status |-> status, actions |-> actions, pre |-> {},
     post |-> IF status = "STEP_COMPLETED" THEN {k} ELSE {}]
Stops(k) == {Result(k, status, FALSE) : status \in StepStatuses}
            \cup {Result(k, "INCONCLUSIVE", TRUE)}
ResultLists == {<<r>> : r \in {s \in Stops(1) : s.status # "STEP_COMPLETED"}}
               \cup {<<Result(1, "STEP_COMPLETED", TRUE), r>> : r \in Stops(2)}
SomeExecutions ==
    {[results |-> results, supplied |-> <<>>, decisions |-> decisions] :
        results \in ResultLists,
        decisions \in {<<"CONTINUE", "CONTINUE">>, <<"RETRY", "CONTINUE">>}}
    \cup {[results |-> <<Result(1, "STEP_COMPLETED", TRUE), Result(2, "STEP_COMPLETED", TRUE)>>,
           supplied |-> <<{1, 2}>>, decisions |-> <<"CONTINUE", "INCONCLUSIVE">>]}
=============================================================================

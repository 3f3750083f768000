---------------------------- MODULE MCAppVerdict ----------------------------
(***************************************************************************)
(* AppVerdict on small test cases, executions and screens.                 *)
(***************************************************************************)
EXTENDS AppVerdict

Marker == "profile"
Walk == <<[action |-> "NAVIGATE", retries |-> 2, target |-> {Marker}, allowed |-> TRUE],
          [action |-> "REFRESH", retries |-> 1, target |-> {}, allowed |-> TRUE]>>
Writing == <<[action |-> "NAVIGATE", retries |-> 0, target |-> {}, allowed |-> FALSE]>>
MCRoutes == {Walk, Writing, <<>>}

Look(count, overlay, state, surface) ==
    [count |-> count, overlay |-> overlay, state |-> state, surface |-> surface,
     forbidden |-> FALSE, markers |-> IF surface THEN {Marker} ELSE {}, blocked |-> FALSE]

Feed == Look(0, FALSE, "STABLE_SEMANTIC", FALSE)
Profile == Look(0, FALSE, "STABLE_SEMANTIC", TRUE)
Posted == Look(1, FALSE, "STABLE_SEMANTIC", TRUE)
PostedTwice == Look(2, FALSE, "STABLE_SEMANTIC", TRUE)
Clipboard == Look(1, TRUE, "STABLE_SEMANTIC", TRUE)
Spinner == Look(0, FALSE, "STABLE_LOADING", FALSE)
Harm == [Posted EXCEPT !.forbidden = TRUE]
Dialog == [Feed EXCEPT !.blocked = TRUE]

VisitScreens == {Feed, Profile, Posted, Dialog}

-----------------------------------------------------------------------------
(* Executions.                                                             *)

Frame(id, screen, offset, stable, after) ==
    [id |-> id, screen |-> screen, offset |-> offset, stable |-> stable, after |-> after]

\* One look before the action, then a burst.
Evidence(initial, first, last, complete, sufficient, changed, signals) ==
    [role |-> "BUSINESS_EXECUTION", initial |-> initial.count, sufficient |-> sufficient,
     changed |-> changed, signals |-> signals, reachedIn |-> {},
     frames |-> <<Frame(0, initial, 0, FALSE, FALSE), Frame(1, first, 0, first = initial, TRUE)>>
                \o IF complete THEN <<Frame(2, last, 1, last = first, TRUE)>> ELSE <<>>]

Clear == {
    Evidence(Feed, Spinner, Posted, TRUE, TRUE, "TRUE", "TRUE"),
    Evidence(Feed, Feed, Feed, TRUE, TRUE, "FALSE", "TRUE"),
    Evidence(Feed, Profile, Profile, TRUE, TRUE, "TRUE", "TRUE"),
    Evidence(Posted, Posted, PostedTwice, TRUE, TRUE, "TRUE", "FALSE"),
    Evidence(Feed, Harm, Feed, TRUE, TRUE, "TRUE", "TRUE")}
Doubtful == {
    Evidence(Profile, Profile, Profile, FALSE, TRUE, "NONE", "TRUE"),
    Evidence(Posted, Posted, Posted, TRUE, TRUE, "NONE", "TRUE")}
Unclear == {
    Evidence(Feed, Clipboard, Clipboard, TRUE, TRUE, "TRUE", "FALSE"),
    Evidence(Feed, Feed, Feed, TRUE, FALSE, "NONE", "FALSE")}

Done(step) == [step |-> step, status |-> "STEP_COMPLETED", value |-> TRUE, action |-> TRUE,
               attempts |-> 1, framed |-> TRUE, gate |-> "NONE", goal |-> "COMPLETED",
               done |-> FALSE]

\* A single departure from the contract, or two.
Faulty == {
    [Done(1) EXCEPT !.status = "ENV_BLOCKED"], [Done(1) EXCEPT !.status = "UNSUPPORTED"],
    [Done(1) EXCEPT !.status = "STEP_FAILED"],
    [Done(1) EXCEPT !.value = FALSE], [Done(1) EXCEPT !.action = FALSE],
    [Done(1) EXCEPT !.attempts = 2], [Done(1) EXCEPT !.attempts = 3],
    [Done(1) EXCEPT !.framed = FALSE], [Done(1) EXCEPT !.done = TRUE],
    [Done(1) EXCEPT !.gate = "INCONCLUSIVE"], [Done(1) EXCEPT !.gate = "RETRY"], Done(2)}
Seconds == {Done(2), Done(1), [Done(2) EXCEPT !.goal = "MISSING"],
            [Done(2) EXCEPT !.goal = "PENDING"], [Done(2) EXCEPT !.gate = "ENV_BLOCKED"],
            [Done(2) EXCEPT !.status = "INCONCLUSIVE"]}

Plain == Evidence(Feed, Posted, Posted, TRUE, TRUE, "TRUE", "TRUE")

Straight(e) == [initialSeen |-> TRUE, steps |-> <<Done(1), Done(2)>>, evidence |-> e]
Departing ==
    {[initialSeen |-> seen, steps |-> <<first, second>>, evidence |-> Plain] :
        seen \in BOOLEAN, first \in Faulty \cup {Done(1)}, second \in Seconds}
    \cup {[initialSeen |-> TRUE, steps |-> <<Done(1)>>, evidence |-> Plain]}

-----------------------------------------------------------------------------
(* Test cases.                                                             *)

Expect(type) == [type |-> type, valued |-> TRUE, required |-> TRUE, surface |-> FALSE,
                 after |-> FALSE, fresh |-> FALSE, needsRunner |-> FALSE]
Contract(conditions) == [steps |-> <<[mode |-> "ATOMIC", retries |-> 1],
                                     [mode |-> "GOAL", retries |-> 0]>>,
                         preconditions |-> conditions]
Case(assertions, forbids, policy, steps) ==
    [assertions |-> assertions, forbids |-> forbids, policy |-> policy,
     route |-> steps, contract |-> Contract(<<>>)]

Text == Expect("TEXT_VISIBLE")
OnProfile == [Text EXCEPT !.after = TRUE, !.surface = TRUE]
New == [Text EXCEPT !.after = TRUE, !.fresh = TRUE]
Independent == [Text EXCEPT !.needsRunner = TRUE, !.surface = TRUE]

Visited == {
    Case(<<OnProfile>>, TRUE, "IF_DIRECT_UNKNOWN", Walk),
    Case(<<Independent>>, FALSE, "IF_DIRECT_UNKNOWN", Walk),
    Case(<<New>>, FALSE, "IF_DIRECT_UNKNOWN", Walk),
    Case(<<New, Expect("SUCCESS_SIGNAL")>>, FALSE, "IF_DIRECT_UNKNOWN", Walk),
    Case(<<Expect("TEXT_ABSENT")>>, TRUE, "REQUIRED_FOR_RESULT", <<>>),
    Case(<<Expect("TEXT_ABSENT")>>, FALSE, "REQUIRED_FOR_RESULT", Walk),
    Case(<<Text>>, FALSE, "REQUIRED_FOR_RESULT", Writing)}
Direct == {
    Case(<<[Text EXCEPT !.valued = FALSE]>>, FALSE, "IF_DIRECT_UNKNOWN", <<>>),
    Case(<<OnProfile, New>>, TRUE, "NEVER", Walk),
    Case(<<Expect("TEXT_ABSENT"), [Expect("STATE_CHANGED") EXCEPT !.required = FALSE]>>,
         TRUE, "NEVER", Walk)}
Conditioned ==
    {[Case(<<Text>>, FALSE, "NEVER", Walk) EXCEPT !.contract = Contract(conditions)] :
        conditions \in {<<>>, <<"OK">>, <<"OK", "ENV_BLOCKED">>, <<"FAIL">>, <<"UNSUPPORTED">>}}

MCTestCases == Visited \cup Direct \cup Conditioned

\* Every departure from the contract meets the test cases without a visit, and
\* so does every kind of evidence; those with one meet what leaves it open.
MCExecutions ==
    [t \in MCTestCases |->
        IF t \in Conditioned THEN Departing
        ELSE {Straight(e) : e \in IF t \in Visited THEN Doubtful
                                  ELSE Clear \cup Doubtful \cup Unclear}]
=============================================================================

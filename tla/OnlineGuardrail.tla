--------------------------- MODULE OnlineGuardrail ---------------------------
(***************************************************************************)
(* OnlineDoneInterceptor (evaluation_framework/online_guardrail.py): each  *)
(* time the agent claims it is done, the host hands over the observable    *)
(* prefix of the run; the interceptor replays it against the contract and  *)
(* allows the claim, sends the agent back to work, abstains or stops.      *)
(*                                                                         *)
(* One action per way handle_done can return.  A candidate c is what the   *)
(* host hands over: the observations made since the previous candidate     *)
(* (one per criterion, as both hosts record them), the clocks and counters *)
(* of the run, and what the trace is able to prove.                        *)
(***************************************************************************)
EXTENDS TemporalAggregation, FiniteSets

CONSTANTS
    Setups,         \* the frozen [contract, policy] pairs
    Shows,          \* what a frame may show of each criterion
    Circumstances   \* [moment, profile] of a candidate

HardMaxInterventions == 3
AbstainActions == {"ALLOW_DONE_UNJUDGED", "FORCE_STOP_UNJUDGED", "ESCALATE_HUMAN"}

\* What passes GuardrailPolicy.validate.  An optional limit is a set of at most
\* one number.
AcceptedPolicy(p) ==
    /\ p.maxInterventions \in 0 .. HardMaxInterventions
    /\ p.onAbstain \in AbstainActions
    /\ p.maxExtraSteps \in Nat
    /\ \A n \in p.deadline \cup p.maxTokens \cup p.maxCalls : n \in Nat
    /\ \A n \in p.oscillations : n \in Nat \ {0}

\* A setup is what __init__ accepts: a contract, and a valid policy that protects
\* criteria of that contract.
ASSUME SetupsAssumption ==
    \A s \in Setups :
        LET criteria == DOMAIN s.contract.semantics IN
        /\ s.contract.semantics \in [criteria -> Semantics]
        /\ s.contract.required \subseteq criteria
        /\ AcceptedPolicy(s.policy)
        /\ s.policy.protected \subseteq criteria

Moment == [step : Nat, time : Nat, tokens : Nat, calls : Nat]

ASSUME CandidatesAssumption ==
    /\ \A s \in Setups : \A k \in DOMAIN s.contract.semantics : Shows[k] \subseteq Observation
    /\ \A x \in Circumstances : x.moment \in Moment /\ x.profile.valid \in BOOLEAN

VARIABLES
    setup,          \* self._contract, self._policy
    observations,   \* the host's prefix: per criterion, a sequence
    events,         \* self._events
    history,        \* self._history: [index, statuses]
    latestHistory,  \* self._observable_history
    interventions,  \* self._interventions
    first,          \* self._first_step, _first_timestamp: {} or {moment}
    candidates,     \* self._last_candidate
    status          \* self._operational_status; not RUNNING: self._terminal

vars == <<setup, observations, events, history, latestHistory, interventions, first,
          candidates, status>>

contract == setup.contract
policy == setup.policy
Criteria == DOMAIN contract.semantics

StopStatuses == {"FAIL_MAX_INTERVENTIONS_REACHED", "FAIL_STATE_REGRESSION",
                 "FAIL_CRITERION_OSCILLATION", "FAIL_STEP_BUDGET", "FAIL_TIME_BUDGET",
                 "FAIL_TOKEN_BUDGET", "FAIL_MODEL_CALL_BUDGET"}
Endings == {"DONE_ALLOWED", "DONE_ALLOWED_UNJUDGED", "FORCE_STOP_UNJUDGED", "ESCALATED_HUMAN"}
           \cup StopStatuses
TerminalKinds == {"FORCED_STOP", "DONE_ALLOWED", "HUMAN_ESCALATION"}
Terminal == status # "RUNNING"

News == {n \in [Criteria -> UNION {Shows[k] : k \in Criteria}] : \A k \in Criteria : n[k] \in Shows[k]}

Candidates ==
    {[news |-> n, moment |-> x.moment, profile |-> x.profile] : n \in News, x \in Circumstances}

-----------------------------------------------------------------------------
(* What the interceptor sees in a candidate. *)

Prefix(c) == [k \in Criteria |-> Append(observations[k], c.news[k])]
Replayed(c) == Replay(contract, Prefix(c), c.profile)

\* The latest observation of each criterion, whatever its state.
Latest(c) == [k \in Criteria |-> c.news[k].status]

\* States, with the process criteria as they were last seen when enforced.
States(c) ==
    [k \in Criteria |->
        IF policy.enforceProcess /\ contract.semantics[k] = "PROCESS_OBLIGATION"
        THEN Latest(c)[k] ELSE Replayed(c)[k]]

EnforcementScope ==
    IF policy.enforceProcess THEN contract.required ELSE OutcomeCriteria(contract)

Failed(c) == {k \in EnforcementScope : States(c)[k] = "VIOLATED"}
Outcome(c) == OutcomeVerdict(contract, Replayed(c), c.profile)

Before == history[Len(history)].statuses
LatestBefore == latestHistory[Len(latestHistory)].statuses

StateRegressions(c, criteria) ==
    IF history = <<>> THEN {}
    ELSE {k \in criteria : Before[k] = "SATISFIED" /\ States(c)[k] = "VIOLATED"}

StateCorruptions(c, criteria) ==
    IF history = <<>> THEN {}
    ELSE {k \in criteria : /\ LatestBefore[k] = "SATISFIED"
                           /\ Latest(c)[k] \in {"VIOLATED", "UNKNOWN_EVIDENCE"}}

Snapshot(statuses) == [index |-> interventions, statuses |-> statuses]

\* SATISFIED <-> VIOLATED flips of a criterion between the snapshots that
\* decide it, the others skipped.
Decided(snapshots, k) ==
    {i \in DOMAIN snapshots : snapshots[i].statuses[k] \in {"SATISFIED", "VIOLATED"}}

Flips(snapshots, k) ==
    {i \in Decided(snapshots, k) :
        \E j \in Decided(snapshots, k) :
            /\ j < i /\ \A m \in Decided(snapshots, k) : m <= j \/ i <= m
            /\ snapshots[i].statuses[k] # snapshots[j].statuses[k]}

Oscillating(snapshots) ==
    {k \in Criteria : \E n \in policy.oscillations : Cardinality(Flips(snapshots, k)) >= n}

ProcessAllowsDone(c) ==
    policy.enforceProcess =>
        \A k \in ProcessCriteria(contract) : States(c)[k] = "SATISFIED"

Exceeds(amount, limit) == \E n \in limit : amount > n

Start(c) == IF first = {} THEN c.moment ELSE CHOOSE m \in first : TRUE

\* The first budget that is overrun, in the order the code asks.
BudgetFailure(c) ==
    IF c.moment.step > Start(c).step + policy.maxExtraSteps THEN {"FAIL_STEP_BUDGET"}
    ELSE IF \E n \in policy.deadline : c.moment.time > Start(c).time + n
    THEN {"FAIL_TIME_BUDGET"}
    ELSE IF Exceeds(c.moment.tokens, policy.maxTokens) THEN {"FAIL_TOKEN_BUDGET"}
    ELSE IF Exceeds(c.moment.calls, policy.maxCalls) THEN {"FAIL_MODEL_CALL_BUDGET"}
    ELSE {}

-----------------------------------------------------------------------------
(* The trace. *)

\* Mutant: the ordinal of the previous candidate.
EventOfPrevious(kind, c, index, ids) ==
    [kind |-> kind, candidate |-> candidates, moment |-> c.moment, index |-> index,
     ids |-> ids]

Event(kind, c, index, ids) ==
    [kind |-> kind, candidate |-> candidates + 1, moment |-> c.moment, index |-> index,
     ids |-> ids]

Only(condition, event) == IF condition THEN <<event>> ELSE <<>>

UnknownLosses(c) == StateCorruptions(c, Criteria) \ StateRegressions(c, Criteria)

\* What handle_done appends before it decides.
Observed(c) ==
    <<Event("CANDIDATE_OBSERVED", c, interventions, {})>>
    \o Only(history # <<>>, Event("POST_INTERVENTION_SNAPSHOT", c, interventions, {}))
    \o Only(policy.trackCorruption /\ UnknownLosses(c) # {},
            Event("OBSERVABLE_STATE_CORRUPTION_DETECTED", c, interventions, UnknownLosses(c)))
    \o Only(StateRegressions(c, Criteria) # {},
            Event("STATE_REGRESSION_DETECTED", c, interventions, StateRegressions(c, Criteria)))

OscillationNote(c, snapshots) ==
    Only(Oscillating(snapshots) # {},
         Event("CRITERION_OSCILLATION_DETECTED", c, interventions, Oscillating(snapshots)))

-----------------------------------------------------------------------------
Init ==
    /\ setup \in Setups
    /\ observations = [k \in Criteria |-> <<>>]
    /\ events = <<>> /\ history = <<>> /\ latestHistory = <<>>
    /\ interventions = 0 /\ first = {} /\ candidates = 0
    /\ status = "RUNNING"

\* A candidate that is refused with an error changes nothing: the run is over,
\* an ordinal or a hash is wrong, or it precedes the first candidate.
Admissible(c) == \A m \in first : c.moment.step >= m.step /\ c.moment.time >= m.time

Accept(c) ==
    /\ observations' = Prefix(c)
    /\ first' = {Start(c)}
    /\ candidates' = candidates + 1
    /\ history' = Append(history, Snapshot(States(c)))
    /\ latestHistory' = Append(latestHistory, Snapshot(Latest(c)))
    /\ UNCHANGED setup

Finish(c, ending, notes) ==
    /\ events' = events \o Observed(c) \o notes
    /\ status' = ending
    /\ UNCHANGED interventions

ForceStop(c, ending, notes, ids) ==
    Finish(c, ending, notes \o <<Event("FORCED_STOP", c, interventions, ids)>>)

\* The decisions, each with what the earlier ones left.
Regressed(c) ==
    policy.stopOnRegression /\ StateRegressions(c, policy.protected) # {} /\ Failed(c) # {}

Oscillated(c) ==
    policy.stopOnOscillation /\ Failed(c) # {}
    /\ Oscillating(Append(history, Snapshot(States(c)))) # {}

Passes(c) == Outcome(c) = "PASS" /\ ProcessAllowsDone(c)

Notes(c) == OscillationNote(c, Append(history, Snapshot(States(c))))

StopForRegression(c) ==
    /\ Regressed(c)
    /\ Accept(c)
    /\ ForceStop(c, "FAIL_STATE_REGRESSION", <<>>, StateRegressions(c, policy.protected))

StopForOscillation(c) ==
    /\ ~Regressed(c) /\ Oscillated(c)
    /\ Accept(c)
    /\ ForceStop(c, "FAIL_CRITERION_OSCILLATION", Notes(c),
                 Oscillating(Append(history, Snapshot(States(c)))))

AllowDone(c) ==
    /\ ~Regressed(c) /\ ~Oscillated(c) /\ Passes(c)
    /\ Accept(c)
    /\ Finish(c, "DONE_ALLOWED", Notes(c) \o <<Event("DONE_ALLOWED", c, interventions, {})>>)

\* Nothing failed and nothing is proved: the policy says what to do.
Abstain(c) ==
    /\ Failed(c) = {} /\ ~Passes(c)
    /\ Accept(c)
    /\ LET ending == CASE policy.onAbstain = "ALLOW_DONE_UNJUDGED" -> "DONE_ALLOWED_UNJUDGED"
                       [] policy.onAbstain = "FORCE_STOP_UNJUDGED" -> "FORCE_STOP_UNJUDGED"
                       [] policy.onAbstain = "ESCALATE_HUMAN"      -> "ESCALATED_HUMAN"
           kind == CASE policy.onAbstain = "ALLOW_DONE_UNJUDGED" -> "DONE_ALLOWED"
                     [] policy.onAbstain = "FORCE_STOP_UNJUDGED" -> "FORCED_STOP"
                     [] policy.onAbstain = "ESCALATE_HUMAN"      -> "HUMAN_ESCALATION"
       IN  Finish(c, ending, Notes(c) \o <<Event("ABSTAIN_RECORDED", c, interventions, {}),
                                           Event(kind, c, interventions, {})>>)

\* Mutant: the correctable branch is not told of a regression.
CorrectableAnyway(c) == ~Oscillated(c) /\ ~Passes(c) /\ Failed(c) # {}

\* Something failed, and the agent may perhaps try again.
Correctable(c) == ~Regressed(c) /\ ~Oscillated(c) /\ ~Passes(c) /\ Failed(c) # {}

StopForBudget(c) ==
    /\ Correctable(c)
    /\ Accept(c)
    /\ \E ending \in BudgetFailure(c) : ForceStop(c, ending, Notes(c), {})

StopForInterventions(c) ==
    /\ Correctable(c) /\ BudgetFailure(c) = {}
    /\ interventions >= policy.maxInterventions
    /\ Accept(c)
    /\ ForceStop(c, "FAIL_MAX_INTERVENTIONS_REACHED", Notes(c), {})

\* Mutant: one intervention too many.
InterveneOnceMore(c) ==
    /\ Correctable(c) /\ BudgetFailure(c) = {}
    /\ interventions <= policy.maxInterventions
    /\ Accept(c)
    /\ interventions' = interventions + 1
    /\ events' = events \o Observed(c) \o Notes(c)
                        \o <<Event("INTERVENTION_ISSUED", c, interventions + 1, Failed(c))>>
    /\ UNCHANGED status

Intervene(c) ==
    /\ Correctable(c) /\ BudgetFailure(c) = {}
    /\ interventions < policy.maxInterventions
    /\ Accept(c)
    /\ interventions' = interventions + 1
    /\ events' = events \o Observed(c) \o Notes(c)
                        \o <<Event("INTERVENTION_ISSUED", c, interventions + 1, Failed(c))>>
    /\ UNCHANGED status

HandleDone(c) ==
    \/ StopForRegression(c) \/ StopForOscillation(c) \/ AllowDone(c) \/ Abstain(c)
    \/ StopForBudget(c) \/ StopForInterventions(c) \/ Intervene(c)

\* The host asks nothing more of an interceptor whose run is over.
Answered == Terminal /\ UNCHANGED vars

Next ==
    \/ ~Terminal /\ \E c \in Candidates : Admissible(c) /\ HandleDone(c)
    \/ Answered
Spec == Init /\ [][Next]_vars

-----------------------------------------------------------------------------
(* What the interceptor promises. *)

Kinds == {"CANDIDATE_OBSERVED", "POST_INTERVENTION_SNAPSHOT", "STATE_REGRESSION_DETECTED",
          "OBSERVABLE_STATE_CORRUPTION_DETECTED", "CRITERION_OSCILLATION_DETECTED",
          "INTERVENTION_ISSUED", "ABSTAIN_RECORDED"} \cup TerminalKinds

TraceEvent == [kind : Kinds, candidate : Nat \ {0}, moment : Moment,
               index : 0 .. HardMaxInterventions, ids : SUBSET Criteria]

\* The interceptor's attributes hold what their annotations say; the snapshots
\* and the counter never pass the policy's limit.
TypeOK ==
    /\ setup \in Setups
    /\ observations \in [Criteria -> Seq(Observation)]
    /\ events \in Seq(TraceEvent)
    /\ \A h \in {history, latestHistory} :
        h \in Seq([index : 0 .. policy.maxInterventions, statuses : [Criteria -> Statuses]])
    /\ interventions \in 0 .. policy.maxInterventions
    /\ first \subseteq Moment /\ \A m, n \in first : m = n
    /\ candidates \in Nat
    /\ status \in {"RUNNING"} \cup Endings

\* GuardrailTrace.validate, but for the times: candidates are numbered from 1, each
\* opened by its observation, a further one only after an intervention; one moment
\* per candidate; interventions are numbered from 1 and carried by every event
\* after; nothing follows a terminal event, and no group is left undecided.
Opens(e) == e.kind = "CANDIDATE_OBSERVED"

ValidGroups(es) ==
    /\ es # <<>> => Opens(es[1]) /\ es[1].candidate = 1 /\ es[1].index = 0
    /\ \A i \in 2 .. Len(es) :
        LET e == es[i]  before == es[i - 1] IN
        /\ IF Opens(e)
           THEN before.kind = "INTERVENTION_ISSUED" /\ e.candidate = before.candidate + 1
           ELSE e.candidate = before.candidate /\ e.moment = before.moment
        /\ e.index = IF e.kind = "INTERVENTION_ISSUED" THEN before.index + 1 ELSE before.index
        /\ before.kind \notin TerminalKinds
    /\ es # <<>> => es[Len(es)].kind \in TerminalKinds \cup {"INTERVENTION_ISSUED"}

\* An observation is not earlier than the one before; the rest of a group has its time.
ValidTimes(es) ==
    \A i \in 2 .. Len(es) : es[i - 1].moment.time <= es[i].moment.time

\* result() may be asked for after every answer, and its trace must then pass
\* the validation of its groups.
TraceGrammar == ValidGroups(events)

\* The trace is the record of the decisions: as many interventions in it as were
\* counted, a terminal event exactly when the run is over, and every candidate
\* but the one that ended the run was sent back.
TraceTellsTheDecisions ==
    /\ Cardinality({i \in DOMAIN events : events[i].kind = "INTERVENTION_ISSUED"}) = interventions
    /\ Terminal <=> \E i \in DOMAIN events : events[i].kind \in TerminalKinds
    /\ candidates = interventions + (IF Terminal THEN 1 ELSE 0)
    /\ Len(history) = candidates

\* An agent that breaks a protected criterion is not sent back to work on the
\* rest: in whatever way the answer comes out, it is the last one.
ProtectedRegressionEndsTheRun ==
    policy.stopOnRegression =>
        \A i \in 2 .. Len(history) : \A k \in policy.protected :
            /\ history[i - 1].statuses[k] = "SATISFIED"
            /\ history[i].statuses[k] = "VIOLATED"
            => Terminal /\ i = Len(history)

\* Nor is one that flips a criterion back and forth up to the policy's limit.
OscillationEndsTheRun ==
    policy.stopOnOscillation /\ ~Terminal => Oscillating(history) = {}

\* A run whose "done" was allowed as judged rests on decisive evidence: every
\* required outcome criterion was seen satisfied on a frame that was neither
\* loading nor unstable, and no later decisive frame undid it - unless reaching
\* it once is what the criterion asks, or only a revocation undoes it.
AllowedDoneIsEvidenced ==
    status = "DONE_ALLOWED" =>
        \A k \in OutcomeCriteria(contract) :
            \E i \in Where(observations[k], Success) :
                \A j \in Where(observations[k], Violation) :
                    \/ j < i
                    \/ contract.semantics[k] = "EVENTUAL_STATE"
                    \/ contract.semantics[k] = "LATCHED_EVENT" /\ ~observations[k][j].revokes
                    \/ observations[k][j].state = "OBSCURED_BUT_PERSISTENT"

\* The agent is sent back only for what a decisive frame showed violated, within
\* the budgets; process criteria are enforced as last seen, on any frame.
InterventionsAreEvidenced ==
    \A i \in DOMAIN events :
        events[i].kind = "INTERVENTION_ISSUED" =>
            LET e == events[i]  n == e.candidate  IN
            /\ e.moment.step <= events[1].moment.step + policy.maxExtraSteps
            /\ \A d \in policy.deadline : e.moment.time <= events[1].moment.time + d
            /\ e.ids # {}
            /\ \A k \in e.ids : \E j \in 1 .. n :
                \/ Violation(observations[k][j])
                \/ /\ contract.semantics[k] = "PROCESS_OBLIGATION"
                   /\ j = n /\ observations[k][j].status = "VIOLATED"

Negotiation == INSTANCE DoneNegotiation
               WITH HardLimit <- HardMaxInterventions,
                    limit <- policy.maxInterventions, sentBack <- interventions,
                    ending <- IF Terminal THEN {status} ELSE {}

\* The agent's claim is sent back at most as often as its policy allows, and
\* every other answer is final (DoneNegotiation).
NegotiationHolds == Negotiation!Spec

StatusOf(k, obs) == AggregateCriterion(contract.semantics[k], obs)

\* What further frames may do to a status that was decided, for each semantics:
\* an eventual success and a process violation stand; an event is undone only by
\* a revocation; a state changes only on a decisive frame that shows it.
DecidedStatusesStand ==
    [][\A k \in Criteria :
        LET old == StatusOf(k, observations[k])
            new == StatusOf(k, observations'[k])
            shown == observations'[k][Len(observations'[k])]
        IN  old # new =>
            /\ contract.semantics[k] = "EVENTUAL_STATE" => old # "SATISFIED"
            /\ contract.semantics[k] = "PROCESS_OBLIGATION" => old # "VIOLATED"
            /\ contract.semantics[k] = "LATCHED_EVENT" /\ old = "SATISFIED" =>
                   Violation(shown) /\ shown.revokes
            /\ contract.semantics[k] = "PERSISTENT_STATE" /\ old \in {"SATISFIED", "VIOLATED"} =>
                   Decisive(shown) /\ new = shown.status]_vars

-----------------------------------------------------------------------------
(* What the code says and does not keep. *)

\* "Guardrail candidate timestamps must be monotonic": the interceptor compares
\* a candidate with the first one only, result() with the previous one.
CandidateTimesMonotone == ValidTimes(events)

\* "Emit only the UNKNOWN_EVIDENCE supplement here".
CorruptionIsEvidenceLoss ==
    \A i \in DOMAIN events :
        events[i].kind = "OBSERVABLE_STATE_CORRUPTION_DETECTED" =>
            \A k \in events[i].ids :
                latestHistory[events[i].candidate].statuses[k] = "UNKNOWN_EVIDENCE"
=============================================================================

------------------------ MODULE TemporalAggregation ------------------------
(***************************************************************************)
(* From the observations of one criterion to its status, and from the      *)
(* criteria of a contract to a verdict: evaluation_framework/temporal.py   *)
(* and aggregation.py, as replay.py applies them to an event trace.        *)
(*                                                                         *)
(* An observation is o = [status, state, revokes]; the observations of a   *)
(* criterion are a sequence in frame order, one per frame, so that an      *)
(* index stands for frame_index.  Every index of the trace is inside the   *)
(* evaluation window: the hosts replay prefixes that end where it ends.    *)
(***************************************************************************)
EXTENDS Naturals, Sequences

Statuses == {"SATISFIED", "VIOLATED", "UNKNOWN_EVIDENCE", "SOURCE_EVIDENCE_MISSING",
             "UNSUPPORTED_CAPABILITY"}
ObservationStates == {"STABLE_SEMANTIC", "STABLE_LOADING", "UNSTABLE_TRANSITION",
                      "OBSCURED_BUT_PERSISTENT", "DEGRADED", "UNKNOWN"}
Semantics == {"LATCHED_EVENT", "PERSISTENT_STATE", "EVENTUAL_STATE", "PROCESS_OBLIGATION"}
Verdicts == {"PASS", "FAIL", "ABSTAIN", "UNSUPPORTED", "INVALID_TRACE"}

Observation == [status : Statuses, state : ObservationStates, revokes : BOOLEAN]

NonDecisive == {"UNSTABLE_TRANSITION", "DEGRADED", "UNKNOWN"}
Decisive(o) == o.state \notin NonDecisive
Loading(o) == o.state = "STABLE_LOADING"

\* A loading page is no success, but a violation seen on it counts.
Success(o) == Decisive(o) /\ o.status = "SATISFIED" /\ ~Loading(o)
Violation(o) == Decisive(o) /\ o.status = "VIOLATED"

Where(obs, P(_)) == {i \in DOMAIN obs : P(obs[i])}
LastOf(indices) == CHOOSE i \in indices : \A j \in indices : j <= i

UnknownStatus(obs) ==
    IF \E i \in DOMAIN obs : obs[i].status = "SOURCE_EVIDENCE_MISSING"
    THEN "SOURCE_EVIDENCE_MISSING"
    ELSE IF obs # <<>> /\ \A i \in DOMAIN obs : obs[i].status = "UNSUPPORTED_CAPABILITY"
    THEN "UNSUPPORTED_CAPABILITY"
    ELSE "UNKNOWN_EVIDENCE"

\* Once seen, an event stays: only an explicit revocation after it counts.
AggregateLatched(obs) ==
    LET seen == Where(obs, Success)
        revoked == {i \in Where(obs, Violation) : obs[i].revokes}
    IN  IF \E r \in revoked : \A i \in seen : i <= r THEN "VIOLATED"
        ELSE IF seen # {} THEN "SATISFIED"
        ELSE UnknownStatus(obs)

\* Mutant: a state that was reached once is taken to persist.
PersistentOnceReached(obs) ==
    IF Where(obs, Success) # {} THEN "SATISFIED"
    ELSE IF Where(obs, Violation) # {} THEN "VIOLATED" ELSE UnknownStatus(obs)

\* The last decisive look; an overlay over the state does not change it.
AggregatePersistent(obs) ==
    LET looks == {i \in Where(obs, Success) \cup Where(obs, Violation) :
                     obs[i].state # "OBSCURED_BUT_PERSISTENT"}
    IN  IF looks = {} THEN UnknownStatus(obs) ELSE obs[LastOf(looks)].status

\* Reached once is enough; not reached needs a decisive last frame.
AggregateEventual(obs) ==
    IF Where(obs, Success) # {} THEN "SATISFIED"
    ELSE IF /\ Where(obs, Violation) # {}
            /\ Violation(obs[Len(obs)]) /\ ~Loading(obs[Len(obs)])
    THEN "VIOLATED"
    ELSE UnknownStatus(obs)

\* One violation is for good.
AggregateProcess(obs) ==
    IF Where(obs, Violation) # {} THEN "VIOLATED"
    ELSE IF \E i \in DOMAIN obs : Decisive(obs[i]) /\ obs[i].status = "SATISFIED"
    THEN "SATISFIED"
    ELSE UnknownStatus(obs)

AggregateCriterion(semantics, obs) ==
    CASE semantics = "LATCHED_EVENT"      -> AggregateLatched(obs)
      [] semantics = "PERSISTENT_STATE"   -> AggregatePersistent(obs)
      [] semantics = "EVENTUAL_STATE"     -> AggregateEventual(obs)
      [] semantics = "PROCESS_OBLIGATION" -> AggregateProcess(obs)

-----------------------------------------------------------------------------
(* A contract: [semantics : criteria -> Semantics, required : set of       *)
(* criteria].  A capability profile: [valid, lacking], whether the trace   *)
(* is usable at all and which criteria it lacks a capability for.          *)

Replay(contract, observations, profile) ==
    [k \in DOMAIN contract.semantics |->
        IF k \in profile.lacking THEN "UNSUPPORTED_CAPABILITY"
        ELSE AggregateCriterion(contract.semantics[k], observations[k])]

ProcessCriteria(contract) ==
    {k \in contract.required : contract.semantics[k] = "PROCESS_OBLIGATION"}
OutcomeCriteria(contract) == contract.required \ ProcessCriteria(contract)

CriterionVerdict(results) ==
    IF results = {} THEN "ABSTAIN"
    ELSE IF "VIOLATED" \in results THEN "FAIL"
    ELSE IF results = {"SATISFIED"} THEN "PASS"
    ELSE IF results = {"UNSUPPORTED_CAPABILITY"} THEN "UNSUPPORTED"
    ELSE "ABSTAIN"

OutcomeVerdict(contract, statuses, profile) ==
    IF ~profile.valid THEN "INVALID_TRACE"
    ELSE CriterionVerdict({statuses[k] : k \in OutcomeCriteria(contract)})
=============================================================================

-------------------------- MODULE MCOnlineGuardrail --------------------------
(* Contracts, policies and candidates for TLC. *)
EXTENDS OnlineGuardrail

Contract(a, b) == [semantics |-> [k \in {"a", "b"} |-> IF k = "a" THEN a ELSE b],
                   required |-> {"a", "b"}]

\* The live host's policy, with fewer interventions.
LivePolicy == [maxInterventions |-> 2, maxExtraSteps |-> 2, deadline |-> {2},
               maxTokens |-> {}, maxCalls |-> {}, protected |-> {"a"},
               stopOnRegression |-> TRUE, oscillations |-> {2}, stopOnOscillation |-> TRUE,
               onAbstain |-> "FORCE_STOP_UNJUDGED", trackCorruption |-> TRUE,
               enforceProcess |-> FALSE]

LiveContract == Contract("PERSISTENT_STATE", "PROCESS_OBLIGATION")

MCSetups ==
    {[contract |-> LiveContract, policy |-> LivePolicy],
     [contract |-> LiveContract,
      policy |-> [LivePolicy EXCEPT !.enforceProcess = TRUE, !.oscillations = {1},
                                    !.onAbstain = "ESCALATE_HUMAN"]],
     [contract |-> Contract("LATCHED_EVENT", "EVENTUAL_STATE"),
      policy |-> [LivePolicy EXCEPT !.maxTokens = {1}, !.maxCalls = {1},
                                    !.stopOnOscillation = FALSE, !.onAbstain = "ALLOW_DONE_UNJUDGED"]]}

See(seen, state) == [status |-> seen, state |-> state, revokes |-> FALSE]

MCShows ==
    [a |-> {See("SATISFIED", "STABLE_SEMANTIC"), See("VIOLATED", "STABLE_SEMANTIC"),
            See("UNKNOWN_EVIDENCE", "STABLE_SEMANTIC"),
            [See("VIOLATED", "STABLE_SEMANTIC") EXCEPT !.revokes = TRUE]},
     b |-> {See("SATISFIED", "STABLE_SEMANTIC"), See("SATISFIED", "STABLE_LOADING"),
            See("VIOLATED", "STABLE_SEMANTIC"), See("VIOLATED", "UNSTABLE_TRANSITION")}]

Able == [valid |-> TRUE, lacking |-> {}]

When(step, time, tokens, calls, profile) ==
    [moment |-> [step |-> step, time |-> time, tokens |-> tokens, calls |-> calls],
     profile |-> profile]

\* Within every budget, and past each of them; a corrupt trace; one that lacks a
\* capability.
MCCircumstances ==
    {When(0, 1, 0, 0, Able), When(2, 0, 1, 1, Able), When(3, 0, 1, 1, Able),
     When(2, 4, 1, 1, Able), When(1, 1, 2, 1, Able), When(1, 1, 1, 2, Able),
     When(1, 1, 1, 1, [valid |-> FALSE, lacking |-> {}]),
     When(1, 1, 1, 1, [valid |-> TRUE, lacking |-> {"b"}])}

\* A host whose clock is set back after the second candidate.
MCClockSetBack ==
    {When(0, 0, 0, 0, Able), When(1, 2, 0, 0, Able), When(2, 1, 0, 0, Able)}
=============================================================================

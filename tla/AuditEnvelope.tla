--------------------------- MODULE AuditEnvelope ---------------------------
(***************************************************************************)
(* From the status of every criterion to the formal record of a run:       *)
(* aggregate_contract (aggregation.py) makes the verdict, and the audit    *)
(* envelope (audit_envelope.py) recomputes it from the criteria it holds,  *)
(* names the failures and claims a guarantee.                              *)
(*                                                                         *)
(* A contract is [criteria, mandatory]: [dimension, required, needs] by    *)
(* criterion and the capabilities without which the trace is invalid; a    *)
(* profile is [integrity, available].                                      *)
(***************************************************************************)
EXTENDS Naturals, FiniteSets

-----------------------------------------------------------------------------
(* Aggregation.                                                            *)

_criterion_verdict(statuses) ==
    CASE statuses = {} -> "ABSTAIN"
      [] "VIOLATED" \in statuses -> "FAIL"
      [] statuses = {"SATISFIED"} -> "PASS"
      [] statuses = {"UNSUPPORTED_CAPABILITY"} -> "UNSUPPORTED"
      [] OTHER -> "ABSTAIN"

\* A criterion whose checker capability the trace lacks is not judged.
_apply_capability_gate(contract, statuses, profile) ==
    [c \in DOMAIN contract.criteria |->
        IF ~(contract.criteria[c].needs \subseteq profile.available) THEN "UNSUPPORTED_CAPABILITY"
        ELSE IF c \in DOMAIN statuses THEN statuses[c] ELSE "UNKNOWN_EVIDENCE"]

RequiredStatuses(contract, statuses, dimension) ==
    {statuses[c] : c \in {d \in DOMAIN contract.criteria :
        contract.criteria[d].required /\ contract.criteria[d].dimension = dimension}}

InvalidTrace(contract, profile) ==
    profile.integrity = "INVALID" \/ ~(contract.mandatory \subseteq profile.available)

\* The report [outcome, process, statuses]; no process verdict without a required
\* process criterion.
aggregate_contract(contract, statuses, profile) ==
    LET gated == _apply_capability_gate(contract, statuses, profile)
        process == RequiredStatuses(contract, gated, "PROCESS")
        invalid == InvalidTrace(contract, profile)
    IN  [outcome |-> IF invalid THEN "INVALID_TRACE"
                     ELSE _criterion_verdict(RequiredStatuses(contract, gated, "OUTCOME")),
         process |-> IF process = {} THEN "NONE"
                     ELSE IF invalid THEN "INVALID_TRACE" ELSE _criterion_verdict(process),
         statuses |-> gated]

-----------------------------------------------------------------------------
(* The envelope.                                                           *)

\* The failures the statuses and the verdict of a run stand for.
_derive_failures(contract, report, profile) ==
    LET outcome == RequiredStatuses(contract, report.statuses, "OUTCOME")
        process == RequiredStatuses(contract, report.statuses, "PROCESS")
        when(condition, code) == IF condition THEN {code} ELSE {}
    IN  UNION {
            when(report.outcome = "INVALID_TRACE" \/ profile.integrity = "INVALID", "TRACE_INVALID"),
            when("SOURCE_EVIDENCE_MISSING" \in outcome \cup process, "SOURCE_EVIDENCE_MISSING"),
            when(report.outcome = "UNSUPPORTED" \/ "UNSUPPORTED_CAPABILITY" \in outcome,
                 "CAPABILITY_UNSUPPORTED"),
            when(\/ "UNKNOWN_EVIDENCE" \in outcome
                 \/ /\ report.outcome = "ABSTAIN"
                    /\ {"UNSUPPORTED_CAPABILITY", "SOURCE_EVIDENCE_MISSING"} \cap outcome = {},
                 "OUTCOME_EVIDENCE_UNKNOWN"),
            when(report.outcome = "FAIL" \/ "VIOLATED" \in outcome, "OUTCOME_VIOLATED"),
            when("UNSUPPORTED_CAPABILITY" \in process, "PROCESS_CAPABILITY_UNSUPPORTED"),
            when("UNKNOWN_EVIDENCE" \in process, "PROCESS_EVIDENCE_UNKNOWN"),
            when("VIOLATED" \in process, "PROCESS_OBLIGATION_VIOLATED")}

\* What validate() derives again from the record: the builder raises when it differs.
_derived_verdicts(contract, report, profile) ==
    LET outcome == RequiredStatuses(contract, report.statuses, "OUTCOME")
        process == RequiredStatuses(contract, report.statuses, "PROCESS")
    IN  IF InvalidTrace(contract, profile)
        THEN [outcome |-> "INVALID_TRACE",
              process |-> IF process = {} THEN "NONE" ELSE "INVALID_TRACE"]
        ELSE [outcome |-> _criterion_verdict(outcome),
              process |-> IF process = {} THEN "NONE" ELSE _criterion_verdict(process)]

\* An envelope of the report passes its own validation.
EnvelopeValidates(contract, report, profile) ==
    LET derived == _derived_verdicts(contract, report, profile)
    IN  report.outcome = derived.outcome /\ report.process = derived.process

\* The envelope of a report: none, when the builder raises.
build_audit_report_envelope(contract, report, profile) ==
    {[verdict |-> r.outcome, failures |-> _derive_failures(contract, r, profile)] :
        r \in {r \in {report} : EnvelopeValidates(contract, r, profile)}}

=============================================================================

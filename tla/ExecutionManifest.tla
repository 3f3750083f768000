-------------------------- MODULE ExecutionManifest -------------------------
(***************************************************************************)
(* The execution manifest (app_test_agent/manifest.py): what an execution  *)
(* says of itself to whoever judges it later, on this machine or from a    *)
(* phone.  A manifest is [steps, frames]; a step's evidence is [step,      *)
(* dispatch, conformance, faithful, pre, post]: which step of the test it  *)
(* is about (0: none of them), the two declared statuses, whether action   *)
(* type and expected value are those of the test, and the frames it cites. *)
(***************************************************************************)
EXTENDS Naturals, Sequences

StepStatuses == {"STEP_COMPLETED", "STEP_FAILED", "ENV_BLOCKED", "INCONCLUSIVE",
                 "UNSUPPORTED"}
DispatchStatuses == {"ACTION_DISPATCHED", "ACTION_NOT_DISPATCHED", "ENV_BLOCKED",
                     "UNSUPPORTED"}
ConformanceStatuses == {"CONFORMANT", "NONCONFORMANT", "UNKNOWN", "ENV_BLOCKED",
                        "UNSUPPORTED"}

Earned(evidence) == /\ evidence.dispatch = "ACTION_DISPATCHED"
                    /\ evidence.conformance = "CONFORMANT"

to_step_result(evidence) ==
    LET says == {evidence.dispatch, evidence.conformance} IN
    IF "ENV_BLOCKED" \in says THEN "ENV_BLOCKED"
    ELSE IF "UNSUPPORTED" \in says THEN "UNSUPPORTED"
    ELSE IF evidence.conformance = "UNKNOWN" THEN "INCONCLUSIVE"
    ELSE IF Earned(evidence) THEN "STEP_COMPLETED"
    ELSE "STEP_FAILED"

StatusesOf(manifest) == [k \in DOMAIN manifest.steps |-> to_step_result(manifest.steps[k])]

\* A truncated manifest must end in a step that explains the truncation; frames
\* are only compared when the manifest declares any.
validate_against(manifest, length) ==
    LET steps == manifest.steps IN
    /\ steps # <<>> /\ Len(steps) <= length
    /\ \A k \in DOMAIN steps : steps[k].step = k
    /\ Len(steps) < length => ~Earned(steps[Len(steps)])
    /\ \A k \in DOMAIN steps :
        /\ steps[k].faithful
        /\ Earned(steps[k]) => steps[k].post # {}
        /\ manifest.frames # {} => steps[k].pre \cup steps[k].post \subseteq manifest.frames

\* A step result is [step, status, actions, pre, post]: actions tells whether it
\* has action ids.
\* Mutant: an undecided step counts as not conformant.
UndecidedFails(result) ==
    IF result.status \in {"ENV_BLOCKED", "UNSUPPORTED"} THEN <<result.status, result.status>>
    ELSE IF result.status = "STEP_COMPLETED" THEN <<"ACTION_DISPATCHED", "CONFORMANT">>
    ELSE <<"ACTION_NOT_DISPATCHED", "NONCONFORMANT">>

Declared(result) ==
    CASE result.status \in {"ENV_BLOCKED", "UNSUPPORTED"} -> <<result.status, result.status>>
      [] result.status = "INCONCLUSIVE" ->
            <<IF result.actions THEN "ACTION_DISPATCHED" ELSE "ACTION_NOT_DISPATCHED",
              "UNKNOWN">>
      [] result.status = "STEP_COMPLETED" -> <<"ACTION_DISPATCHED", "CONFORMANT">>
      [] result.status = "STEP_FAILED" -> <<"ACTION_NOT_DISPATCHED", "NONCONFORMANT">>

Evidence(result) ==
    [step |-> result.step, dispatch |-> Declared(result)[1],
     conformance |-> Declared(result)[2], faithful |-> TRUE,
     pre |-> result.pre, post |-> result.post]

\* supplied is <<>>, or <<frames>> when the executor listed its frames itself.
_frames_from_execution(results, supplied) ==
    IF supplied # <<>> THEN supplied[1]
    ELSE UNION {results[k].pre \cup results[k].post : k \in DOMAIN results}

build_manifest_from_execution_record(results, supplied) ==
    [steps |-> [k \in DOMAIN results |-> Evidence(results[k])],
     frames |-> _frames_from_execution(results, supplied)]

\* A manifest that is not bound to today's test case and contract is taken only
\* through a registered migration, which binds it to both hashes.
load_app_test_manifest_evidence(manifest, length, binding) ==
    binding \in {"current", "migrated"} /\ validate_against(manifest, length)

-----------------------------------------------------------------------------
(* recompute_step_gates_from_raw_trace: the steps of a saved execution are  *)
(* judged again by today's gate, given as decisions; a RETRY cannot be      *)
(* followed up, and the replay ends with the first step that is not done.   *)

_status_from_gate(decision) ==
    CASE decision = "CONTINUE" -> "STEP_COMPLETED"
      [] decision = "ENV_BLOCKED" -> "ENV_BLOCKED"
      [] decision \in {"INCONCLUSIVE", "RETRY"} -> "INCONCLUSIVE"
      [] OTHER -> "STEP_FAILED"

_recompute_one_step(status, decision) ==
    IF status \in {"ENV_BLOCKED", "UNSUPPORTED"} THEN status ELSE _status_from_gate(decision)

Replayed(statuses, decisions) ==
    [k \in DOMAIN statuses |-> _recompute_one_step(statuses[k], decisions[k])]

recompute_step_gates_from_raw_trace(statuses, decisions) ==
    LET again == Replayed(statuses, decisions)
        stops == {k \in DOMAIN again : again[k] # "STEP_COMPLETED"}
    IN  IF stops = {} THEN again
        ELSE SubSeq(again, 1, CHOOSE k \in stops : \A l \in stops : k <= l)
=============================================================================

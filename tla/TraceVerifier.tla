--------------------------- MODULE TraceVerifier ---------------------------
(***************************************************************************)
(* verify_trace_case of upgraded_verifier.py: the contract, the binding of *)
(* the trace to its intake receipt, the capability profile, the G1 quality *)
(* of the frames, the checkers (facts first, the model after them), the    *)
(* dependencies between criteria, the frames that block a conclusion, the  *)
(* temporal replay and the two verdicts: the report's and the public one.  *)
(*                                                                         *)
(* A frame is "stable" (also when it merely differs from the one before),  *)
(* "loading" or under an "overlay".  A checker's record is [status, by]:   *)
(* by the facts of the trace, by the model, or by nothing.  The trace does *)
(* not change while it is verified; EvaluationCampaign lets it change      *)
(* after its hash was compared.  trace.integrity is left out (an invalid   *)
(* one ends the verification before) and so are the optional quality       *)
(* criteria, which no verdict uses.                                        *)
(***************************************************************************)
EXTENDS ContractSelection, EventLog

VARIABLES recorder,   \* whether a model is configured
          trace,      \* [bound, valid, tree, pictures, source, done]: receipt, profile,
                      \* UI tree, screenshots, source frame, index of the last done action
          look,       \* G1: [made, source, terminal], the quality of the two frames
          records,    \* what the checkers concluded, by criterion: [status, by]
          result      \* [verdict, review, outcome, atDone, afterGrace, quality]

verification == <<recorder, trace, look, records, result>>
verifierVars == <<selection, verification>>

NoTrace == [bound |-> FALSE, valid |-> FALSE, tree |-> FALSE, pictures |-> FALSE,
            source |-> FALSE, done |-> Unset]
NoLook == [made |-> FALSE, source |-> "stable", terminal |-> "stable"]
NoRecords == [k \in {} |-> k]
NoResult == [verdict |-> "NONE", review |-> FALSE, outcome |-> "NONE", atDone |-> "NONE",
             afterGrace |-> "NONE", quality |-> "UNKNOWN"]

Criteria(kind) ==
    CASE kind = "phase5" -> {"query", "sort", "rule", "open", "outcome", "done"}
      [] kind = "family" -> {"process", "page_domain", "semantics", "negative", "done"}
      [] kind = "jit"    -> {"dag_execution", "semantics", "done"}
      [] OTHER           -> {}

\* Criteria on the actions, which the quality of a frame does not touch.
ActionCriteria == {"open", "process", "done"}

\* As _uses_current_frame_semantics when every conclusion depends on its frame.
UsesFrameAlways(k) == TRUE

_uses_current_frame_semantics(k) == k \notin ActionCriteria

\* The frame a criterion is observed on, of the two the checkers look at.
SourceFrame == 1
TerminalFrame == 2
EvidenceFrame(k) ==
    IF k \in {"sort", "rule"} THEN SourceFrame
    ELSE IF contract.kind # "phase5" /\ ~trace.pictures THEN Unset ELSE TerminalFrame

Quality(k) == IF EvidenceFrame(k) = SourceFrame THEN look.source ELSE look.terminal
Prerequisites(kind, k) == IF kind = "phase5" /\ k = "rule" THEN {"sort"} ELSE {}

\* The criteria as temporal.py takes them: the state of a page persists, the rest is
\* an obligation of the process.
Terms(c) ==
    [semantics |-> [k \in Criteria(c.kind) |->
        IF k \in {"outcome", "page_domain", "semantics", "negative", "dag_execution"}
        THEN "PERSISTENT_STATE" ELSE "PROCESS_OBLIGATION"],
     required |-> Criteria(c.kind)]

\* The criteria whose required evidence the trace does not have.
Lacking(c) ==
    (IF c.needs = "criterion" /\ ~trace.tree THEN {"semantics"} ELSE {})
      \cup (IF trace.pictures THEN {} ELSE Criteria(c.kind) \ ActionCriteria)

\* The same of the contract: it invalidates the outcome of the report.
Profile(c) ==
    [valid |-> trace.valid /\ trace.pictures /\ (c.needs = "contract" => trace.tree),
     lacking |-> Lacking(c)]

VerifierInit ==
    /\ SelectionInit
    /\ recorder \in BOOLEAN
    /\ trace = NoTrace /\ look = NoLook /\ records = NoRecords /\ result = NoResult

-----------------------------------------------------------------------------
(* The stages.                                                             *)

\* A stage that fails ends the verification undecided (_early_result); when the caller
\* does not continue on errors, the exception is raised instead.
Fail(verdict) ==
    /\ pc' = "done"
    /\ result' = [NoResult EXCEPT !.verdict = verdict, !.review = TRUE]
    /\ UNCHANGED <<recorder, trace, look, records>>

FailOrRaise(verdict) == Fail(verdict) \/ Fail("RAISED")

StageOnly == UNCHANGED <<purpose, compiles, offer, attempts, proposals, contract, freeze>>

\* A router error is reported whatever the caller asked for.
RejectContract ==
    /\ \/ pc = "rejected" /\ Fail("UNSUPPORTED")
       \/ pc = "refused" /\ FailOrRaise("INVALID_TRACE")
    /\ StageOnly

_validate_intake_binding ==
    /\ pc = "routed"
    /\ \/ /\ trace' = [trace EXCEPT !.bound = TRUE]
          /\ pc' = "load" /\ UNCHANGED <<recorder, look, records, result>>
       \/ FailOrRaise("INVALID_TRACE")
    /\ StageOnly

\* The files may be unreadable; a profile with corrupt artifacts ends the verification;
\* missing actions raise before anything is judged.
load_trace_directory ==
    /\ pc = "load"
    /\ \/ /\ \E tree, pictures, source \in BOOLEAN, done \in {Unset, SourceFrame, TerminalFrame} :
                /\ contract.needs = "none" => tree
                /\ contract.kind # "phase5" => pictures = source
                /\ trace' = [trace EXCEPT !.valid = TRUE, !.tree = tree, !.pictures = pictures,
                                          !.source = source, !.done = done]
          /\ pc' = "look" /\ UNCHANGED <<recorder, look, records, result>>
       \/ Fail("INVALID_TRACE")
       \/ FailOrRaise("INVALID_TRACE") \/ FailOrRaise("ABSTAIN")
    /\ StageOnly

\* The optional quality layer: an exception before the assembly is complete leaves none.
assemble_contract_g1_observations ==
    /\ pc = "look" /\ pc' = "check"
    /\ \/ \E source, terminal \in {"stable", "loading", "overlay"} :
             /\ contract.kind # "phase5" => source = "stable"
             /\ look' = [made |-> TRUE, source |-> source, terminal |-> terminal]
       \/ look' = NoLook
    /\ UNCHANGED <<recorder, trace, records, result>>
    /\ StageOnly

-----------------------------------------------------------------------------
(* The checkers.                                                           *)

Answers == {"SATISFIED", "VIOLATED", "UNKNOWN_EVIDENCE"}
ByFacts(statuses) == [status : statuses, by : {"facts"}]
Nothing == [status |-> "UNKNOWN_EVIDENCE", by |-> "nothing"]
Asked == [status : Answers, by : {"model"}]
AskModel == IF recorder THEN Asked ELSE {Nothing}
Decided == {"SATISFIED", "VIOLATED"}

\* The state of a control: the UI tree, a lasting local change of the picture, and the
\* model only if both are silent.  Without a source frame nothing is known.
_state_record ==
    IF ~trace.source THEN {Nothing}
    ELSE ByFacts(Decided) \cup (IF trace.pictures THEN AskModel ELSE {Nothing})

\* The deterministic checks of the cross-app contract: done counts only after the
\* target application was opened.
verify_case_without_ground_truth ==
    {facts \in [{"open", "done"} -> ByFacts(Decided)] :
        facts["done"].status = "SATISFIED" =>
            facts["open"].status = "SATISFIED" /\ trace.done # Unset}

\* The bundled judgement of the two pages, in the selective pipeline without the sort
\* control, whose layered state it must not judge again.
evaluate_full_case(judge) == [{"query", "rule", "outcome"} -> judge]

StrongGates == {"sort", "open", "done"}

\* The facts, the layered state of the sort control, and then the bundled judgement,
\* unless a strong gate is violated (the facts never decide the rule, the fourth gate).
\* It needs the source frame and the pictures; its exceptions are not caught here.
SelectivePhase5 ==
    /\ pc = "check" /\ contract.kind = "phase5"
    /\ \E facts \in verify_case_without_ground_truth, sort \in _state_record :
         LET known(k) == IF k = "sort" THEN sort ELSE facts[k]
             gated == \E k \in StrongGates : known(k).status = "VIOLATED"
             judge == IF gated THEN {Nothing} ELSE AskModel
         IN \/ \E answers \in evaluate_full_case(judge) :
                 /\ ~gated /\ recorder => trace.source /\ trace.pictures
                 /\ records' = [k \in Criteria("phase5") |->
                        IF k \in DOMAIN answers THEN answers[k] ELSE known(k)]
                 /\ pc' = "replay" /\ UNCHANGED <<recorder, trace, look, result>>
            \/ ~gated /\ recorder /\ FailOrRaise("INVALID_TRACE") /\ ~(trace.source /\ trace.pictures)
            \/ ~gated /\ recorder /\ FailOrRaise("ABSTAIN") /\ trace.source /\ trace.pictures
    /\ StageOnly

\* One value decides ALL_OF (a violation) and ANY_OF (a satisfaction) alone.
_logical_status(operator, statuses) ==
    LET alone == IF operator = "ALL_OF" THEN "VIOLATED" ELSE "SATISFIED"
        every == IF operator = "ALL_OF" THEN "SATISFIED" ELSE "VIOLATED"
    IN IF alone \in statuses THEN alone
       ELSE IF statuses = {every} THEN every ELSE "UNKNOWN_EVIDENCE"

\* Two nodes, the second one depending on the first, and both named by the success
\* condition: text and tree checkers are facts, an llm checker asks the model.
_dag_status ==
    LET node == ByFacts(Decided) \cup AskModel
        second(a, b) == _logical_status("ALL_OF", {a.status, b.status})
        joined(operator, a, b) ==
            [status |-> _logical_status(operator, {a.status, second(a, b)}),
             by |-> IF a.by = b.by THEN a.by ELSE IF recorder THEN "model" ELSE "nothing"]
    IN {joined(operator, a, b) : operator \in {"ALL_OF", "ANY_OF"}, a \in node, b \in node}

\* The family's interactions, or the submission it asks for followed by done, are in the
\* actions or not.
_action_precheck == ByFacts(Decided)
_process_obligation_status == _action_precheck

\* Quoted entities in the tree satisfy; nothing in the tree contradicts.
_hierarchy_semantic_status == ByFacts({"SATISFIED"})

\* The pair of frames around the last effectful action: the model's answer, or a
\* violation if no frame follows the action.
_effect_delta_status == ByFacts({"VIOLATED"}) \cup AskModel

\* Tree first, then the model on the page, then the effect.
_semantic_records == _hierarchy_semantic_status \cup AskModel \cup _effect_delta_status

\* Markers of a prohibited or an expected domain (or no constraint) before the model.
_page_domain_status == ByFacts(Decided) \cup AskModel

\* Visible markers of a forbidden state (or no prohibition) before the model.
_negative_status == ByFacts(Decided) \cup AskModel

\* The checkers of one criterion of CriterionCheckerRegistry.
Checker(k) ==
    CASE k = "process"       -> _process_obligation_status
      [] k = "done"          -> {r \in ByFacts(Decided) :
                                    r.status = "SATISFIED" => trace.done # Unset}
      [] k = "dag_execution" -> _dag_status
      [] k = "semantics"     -> _semantic_records
      [] k = "page_domain"   -> _page_domain_status
      [] k = "negative"      -> _negative_status

\* The second call for an effect is the only one whose exception is not caught.
CriterionCheckerRegistry ==
    /\ pc = "check" /\ contract.kind # "phase5"
    /\ \/ /\ records' \in {r \in [Criteria(contract.kind) -> [status : Answers, by : {"facts", "model", "nothing"}]] :
                              \A k \in DOMAIN r : r[k] \in Checker(k)}
          /\ pc' = "replay" /\ UNCHANGED <<recorder, trace, look, result>>
       \/ recorder /\ FailOrRaise("ABSTAIN")
    /\ StageOnly

-----------------------------------------------------------------------------
(* From the records to the verdicts.                                       *)

_apply_criterion_dependencies(kind, k) ==
    LET parents == {records[p].status : p \in Prerequisites(kind, k)} IN
    IF records[k].status = "VIOLATED" \/ "VIOLATED" \in parents THEN "VIOLATED"
    ELSE IF parents \subseteq {"SATISFIED"} THEN records[k].status
    ELSE "UNKNOWN_EVIDENCE"

Loads(k) == look.made /\ Quality(k) = "loading"

\* As _explicit_frame_blocker when only a loading page blocks.
BlockedByLoadingOnly(k) == Loads(k)

_explicit_frame_blocker(k) == ~look.made \/ Quality(k) # "stable"

\* A conclusion under a loading page counts for nothing, a positive one neither under an
\* overlay or without a look; a contradiction seen there counts.
_checker_observation(k, status) ==
    LET blocked == /\ _uses_current_frame_semantics(k) /\ status \in Decided
                   /\ _explicit_frame_blocker(k) /\ (Loads(k) \/ status = "SATISFIED")
    IN [status |-> IF blocked THEN "UNKNOWN_EVIDENCE" ELSE status,
        state |-> IF ~blocked THEN "STABLE_SEMANTIC"
                  ELSE IF Loads(k) THEN "STABLE_LOADING" ELSE "DEGRADED",
        revokes |-> ~blocked /\ status = "VIOLATED"]

\* The trace as events: its frames, an action on the first one and the last done action.
Told ==
    trace_bundle_to_event_trace((IF trace.source THEN {SourceFrame} ELSE {}) \cup {TerminalFrame},
                                {SourceFrame} \cup ({trace.done} \ {Unset}), trace.done)

_checker_observations(c) ==
    {[criterion |-> k, frame |-> EvidenceFrame(k),
      seen |-> _checker_observation(k, _apply_criterion_dependencies(c.kind, k))] :
        k \in Criteria(c.kind)}

_combined_verdict(statuses) ==
    IF "VIOLATED" \in statuses THEN "FAIL"
    ELSE IF statuses = {"SATISFIED"} THEN "PASS"
    ELSE IF statuses \subseteq {"UNSUPPORTED_CAPABILITY", "SOURCE_EVIDENCE_MISSING"}
    THEN "UNSUPPORTED" ELSE "ABSTAIN"

\* The public result of a report.
_simple_result(report) ==
    LET verdict == _combined_verdict({report.statuses[k] : k \in DOMAIN report.statuses})
    IN [verdict |-> verdict, review |-> verdict \notin {"PASS", "FAIL"},
        outcome |-> report.outcome, atDone |-> report.atDone,
        afterGrace |-> report.afterGrace, quality |-> report.quality]

\* Dependencies, observations, replay and the two verdicts; without a frame to look at
\* the observations cannot be attached, and the audit of the report may raise.
replay_event_trace ==
    /\ pc = "replay"
    /\ LET observations == _checker_observations(contract)
           attached == attach_criterion_observations(Told, observations)
           events == _termination(attached, records["done"].status = "SATISFIED")
       IN \/ /\ Attachable(Told, Criteria(contract.kind), observations) /\ Valid(events)
             /\ \E report \in {Report(Terms(contract), events, Profile(contract))} :
                    result' = _simple_result(report)
             /\ pc' = "done" /\ UNCHANGED <<recorder, trace, look, records>>
          \/ FailOrRaise("ABSTAIN")
    /\ StageOnly

Stage ==
    \/ RejectContract \/ _validate_intake_binding \/ load_trace_directory
    \/ assemble_contract_g1_observations \/ SelectivePhase5 \/ CriterionCheckerRegistry
    \/ replay_event_trace

VerifierNext == Stage \/ (SelectionStep /\ UNCHANGED verification)

VerifierSpec == VerifierInit /\ [][VerifierNext]_verifierVars

-----------------------------------------------------------------------------
(* What should hold of them.                                               *)

Conclusive == result.verdict \in {"PASS", "FAIL"}
Judged == Criteria(contract.kind)

\* PASS means that every criterion and every prerequisite of one was found satisfied,
\* each that is about the screen on a frame G1 looked at and found neither loading nor
\* covered, and with the evidence it requires, on a trace found bound to its receipt; the run
\* is told to have ended on time, and the outcome of its grace window, if it has one, is
\* that of the report.
PassIsEarned ==
    result.verdict = "PASS" =>
        /\ trace.bound /\ trace.valid
        /\ trace.done # Unset /\ result.quality = "ON_TIME"
        /\ result.afterGrace \in {"NONE", result.outcome}
        /\ \A k \in Judged :
            /\ k \notin Lacking(contract)
            /\ k \notin ActionCriteria => look.made /\ Quality(k) = "stable"
            /\ \A p \in {k} \cup Prerequisites(contract.kind, k) : records[p].status = "SATISFIED"

\* FAIL names a violation that was seen: of a criterion or of a prerequisite of one, and
\* if it is about the screen, not on a page known to be loading.
FailIsSeen ==
    result.verdict = "FAIL" =>
        \E k \in Judged \ Lacking(contract) :
            /\ \E p \in {k} \cup Prerequisites(contract.kind, k) : records[p].status = "VIOLATED"
            /\ k \in ActionCriteria \/ ~look.made \/ Quality(k) # "loading"

\* "Action/trace/logical facts must not be invalidated merely because the UI changed"
\* (upgraded_verifier.py:787): a violated action fact that reaches the replay makes the
\* verdict FAIL whatever the frames look like and the model says, and the model is not
\* asked to judge the pages of a cross-app run it contradicts.
ActionFactsDecide ==
    \A k \in DOMAIN records \cap ActionCriteria : records[k].status = "VIOLATED" =>
        /\ result.outcome # "NONE" => result.verdict = "FAIL"
        /\ contract.kind = "phase5" =>
              \A q \in {"query", "rule", "outcome"} : records[q].by # "model"

\* "G0 invalidity and contract-level mandatory evidence are handled before criterion
\* verdicts" (aggregation.py:78): a report whose outcome is invalid for want of mandatory
\* evidence is not published as PASS or FAIL.  It does not hold: see README.md.
FinalAgreesWithReport == result.outcome = "INVALID_TRACE" => ~Conclusive
=============================================================================

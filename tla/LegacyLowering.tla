--------------------------- MODULE LegacyLowering ---------------------------
(***************************************************************************)
(* From the frames of a recorded run to its verdict, without a network:    *)
(* what every checker of a task DAG signals of every frame                 *)
(* (legacy_checker_acquisition.py: local checkers, answers recorded        *)
(* beforehand, a visual-state cache) and what the DAG makes of the signals *)
(* (legacy_checker_lowering.py).                                           *)
(*                                                                         *)
(* A task DAG is [cond, checkers, edges, success, operator]: a node's      *)
(* condition operator and checkers, the dependency edges [parent, child,   *)
(* kind], the success nodes and how they combine.  A checker is [kind,     *)
(* request, word, expected], one of a kind at a node; a frame is [image,   *)
(* fields, shows, denies]: its screenshot (or NoImage), the sources it     *)
(* carries, the words they show and the forbidden words they show.         *)
(***************************************************************************)
EXTENDS Integers, Sequences, FiniteSets, FiniteSetsExt

CONSTANT NoImage

Nodes(dag) == DOMAIN dag.cond

\* What a contract's validation asks of a DAG: edges and success nodes are among the nodes,
\* there is a success node, and the nodes have a topological order.
ValidDag(dag) ==
    /\ IsFiniteSet(Nodes(dag))
    /\ dag.success # {} /\ dag.success \subseteq Nodes(dag)
    /\ \A e \in dag.edges : e.parent \in Nodes(dag) /\ e.child \in Nodes(dag)
    /\ \E rank \in [Nodes(dag) -> 0 .. Cardinality(Nodes(dag))] :
            \A e \in dag.edges : rank[e.parent] < rank[e.child]

-----------------------------------------------------------------------------
(* Acquisition.  The context is [answers, bound, visual, classify]: the    *)
(* recorded answers [decision, words] by composite key, the bound          *)
(* <<node, kind>> pairs, the visual-state cache [on, decisions], and       *)
(* whether missing sources are told apart.                                 *)

\* The exact identity of a recorded answer: no field of it is optional.
EvidenceCacheKey(checker, image) ==
    [kind |-> checker.kind, image |-> image, request |-> checker.request]

\* The sources each local checker reads.
SourcesOf(kind) ==
    CASE kind \in {"text", "regex"} -> {"text"}
      [] kind = "ui" -> {"ui"}
      [] kind = "action" -> {"action"}
      [] kind = "xml" -> {"xml"}
      [] kind = "dynamic_match" -> {"task", "xml"}

\* Only an explicit negative assertion on the XML contradicts.
LocalSignal(checker, frame) ==
    IF ~(SourcesOf(checker.kind) \subseteq frame.fields) THEN "SOURCE_EVIDENCE_MISSING"
    ELSE IF checker.kind = "xml" /\ checker.word \in frame.denies THEN "STRONG_CONTRADICTION"
    ELSE IF checker.word \in frame.shows THEN "MATCH" ELSE "NO_MATCH"

\* The text of an OCR answer or the decision of an LLM answer against the checker.
Answered(checker, answer) ==
    CASE checker.kind = "ocr" -> IF checker.word \in answer.words THEN "MATCH" ELSE "NO_MATCH"
      [] checker.kind = "llm" /\ answer.decision = "UNKNOWN" -> "UNAVAILABLE"
      [] OTHER -> IF answer.decision = checker.expected THEN "MATCH" ELSE "NO_MATCH"

RecordedSignal(node, checker, frame, context) ==
    LET key == EvidenceCacheKey(checker, frame.image) IN
    CASE <<node, checker.kind>> \notin context.bound -> "UNAVAILABLE"
      [] <<node, checker.kind>> \in context.bound /\ frame.image = NoImage
            -> "SOURCE_EVIDENCE_MISSING"
      [] OTHER -> IF key \in DOMAIN context.answers
                  THEN Answered(checker, context.answers[key]) ELSE "UNAVAILABLE"

\* The visual-state plan binds every visual_state checker of the DAG; a loading
\* skeleton contradicts.
VisualSignal(checker, frame, context) ==
    CASE ~context.visual.on -> "UNAVAILABLE"
      [] context.visual.on /\ frame.image = NoImage -> "SOURCE_EVIDENCE_MISSING"
      [] OTHER -> IF frame.image \notin DOMAIN context.visual.decisions THEN "UNAVAILABLE"
                  ELSE IF context.visual.decisions[frame.image] = "LOADING_SKELETON"
                       THEN "STRONG_CONTRADICTION" ELSE "MATCH"

CheckerSignal(node, checker, frame, context) ==
    CASE checker.kind \in {"ocr", "llm"} -> RecordedSignal(node, checker, frame, context)
      [] checker.kind = "visual_state" -> VisualSignal(checker, frame, context)
      [] checker.kind = "icons" -> "UNAVAILABLE"
      [] OTHER -> LocalSignal(checker, frame)

\* What the outcome table holds; missing sources are told apart from a missing
\* provider only when the batch binds a visual-state cache.
acquire_legacy_checker_outcomes(dag, frames, context) ==
    [entry \in UNION {{n} \X dag.checkers[n] \X DOMAIN frames : n \in Nodes(dag)} |->
        LET signal == CheckerSignal(entry[1], entry[2], frames[entry[3]], context) IN
        IF signal = "SOURCE_EVIDENCE_MISSING" /\ ~context.classify
            THEN "UNAVAILABLE" ELSE signal]

-----------------------------------------------------------------------------
(* Lowering.                                                               *)

\* The first of the statuses in order that is present.
Foremost(order, present) ==
    LET held == {k \in DOMAIN order : order[k] \in present} IN
    IF held = {} THEN "UNKNOWN_EVIDENCE" ELSE order[Min(held)]

\* Missing evidence outranks a decision in an alternative, a contradiction outranks
\* missing evidence in a conjunction.
ConditionStatus(operator, signals, deadline) ==
    LET missing == IF "SOURCE_EVIDENCE_MISSING" \in signals THEN "SOURCE_EVIDENCE_MISSING"
                   ELSE "UNSUPPORTED_CAPABILITY"
        gap == signals \cap {"SOURCE_EVIDENCE_MISSING", "UNAVAILABLE"} # {}
        settled == IF deadline THEN "VIOLATED" ELSE "UNKNOWN_EVIDENCE"
    IN  IF operator = "ANY_OF"
        THEN CASE "MATCH" \in signals -> "SATISFIED"
               [] "MATCH" \notin signals /\ gap -> missing
               [] "MATCH" \notin signals /\ ~gap /\ "STRONG_CONTRADICTION" \in signals -> "VIOLATED"
               [] OTHER -> settled
        ELSE CASE "STRONG_CONTRADICTION" \in signals -> "VIOLATED"
               [] "STRONG_CONTRADICTION" \notin signals /\ gap -> missing
               [] signals = {"MATCH"} -> "SATISFIED"
               [] OTHER -> settled

ParentsBy(dag, node, kind) == {e.parent : e \in {d \in dag.edges : d.child = node /\ d.kind = kind}}

\* A node that has conjunctive dependencies ignores its alternative ones.
EffectiveMode(dag, node) ==
    CASE ParentsBy(dag, node, "DEPS_AND") # {} -> "ALL_OF"
      [] ParentsBy(dag, node, "DEPS_AND") = {} /\ ParentsBy(dag, node, "NEXT_OR") # {} -> "ANY_OF"
      [] OTHER -> "ROOT"

EffectiveParents(dag, node) ==
    IF EffectiveMode(dag, node) = "ALL_OF" THEN ParentsBy(dag, node, "DEPS_AND")
    ELSE ParentsBy(dag, node, "NEXT_OR")

\* How alternatives combine when none of them is satisfied.
NoAlternative(statuses) ==
    CASE statuses = {"VIOLATED"} -> "VIOLATED"
      [] "SOURCE_EVIDENCE_MISSING" \in statuses -> "SOURCE_EVIDENCE_MISSING"
      [] statuses = {"UNSUPPORTED_CAPABILITY"}
         \/ statuses = {"VIOLATED", "UNSUPPORTED_CAPABILITY"} -> "UNSUPPORTED_CAPABILITY"
      [] OTHER -> "UNKNOWN_EVIDENCE"

NotAll == <<"VIOLATED", "SOURCE_EVIDENCE_MISSING", "UNSUPPORTED_CAPABILITY">>
NotSeen == <<"SOURCE_EVIDENCE_MISSING", "UNSUPPORTED_CAPABILITY", "VIOLATED">>

BlockedStatus(mode, statuses) ==
    IF mode = "ALL_OF" THEN Foremost(NotAll, statuses) ELSE NoAlternative(statuses)

\* Mutant: a node may match on the frame its parent matched on.
SameFrameAllowed(mode, matched) ==
    CASE mode = "ROOT" -> 1
      [] mode = "ANY_OF" -> Min(matched)
      [] mode = "ALL_OF" -> Max(matched)

\* The first frame a node may match on: after its earliest alternative, after its
\* latest conjunct.
StartFrame(mode, matched) ==
    CASE mode = "ROOT" -> 1
      [] mode = "ANY_OF" -> Min(matched) + 1
      [] mode = "ALL_OF" -> Max(matched) + 1

\* A node that is not a success node stops at its first match.
CandidateFrames(dag, node, hits) == IF node \in dag.success THEN hits ELSE {Min(hits)}

\* What the condition of a node comes to on a frame.
FrameStatus(dag, table, node, f, deadline) ==
    ConditionStatus(dag.cond[node], {table[<<node, c, f>>] : c \in dag.checkers[node]}, deadline)

\* The [status, matched, candidates] of a node whose effective parents have these results.
NodeResult(dag, frames, table, deadline, node, parents) ==
    LET mode == EffectiveMode(dag, node)
        matched == {r.matched : r \in parents} \ {0}
        blocked == IF mode = "ALL_OF" THEN \E r \in parents : r.matched = 0
                   ELSE mode = "ANY_OF" /\ matched = {}
        window == IF blocked THEN {} ELSE StartFrame(mode, matched) .. Len(frames)
        status(f) == FrameStatus(dag, table, node, f, deadline)
        hits == {f \in window : status(f) = "SATISFIED"}
    IN  CASE blocked ->
                [status |-> BlockedStatus(mode, {r.status : r \in parents}),
                 matched |-> 0, candidates |-> {}]
          [] ~blocked /\ hits # {} ->
                [status |-> "SATISFIED", matched |-> Min(hits),
                 candidates |-> CandidateFrames(dag, node, hits)]
          [] OTHER ->
                [status |-> Foremost(NotSeen, {status(f) : f \in window}),
                 matched |-> 0, candidates |-> {}]

\* The results of all nodes, parents first.
NodeResults(dag, frames, table, deadline) ==
    LET result[n \in Nodes(dag)] ==
            NodeResult(dag, frames, table, deadline, n,
                       {result[p] : p \in EffectiveParents(dag, n)})
    IN  result

\* A success node must hold on the final frame; one that does not and is not
\* undecided is violated once the deadline is reached.
TargetStatus(last, result, deadline) ==
    CASE last > 0 /\ last \in result.candidates -> "SATISFIED"
      [] ~(last > 0 /\ last \in result.candidates)
         /\ result.status \in {"UNSUPPORTED_CAPABILITY", "SOURCE_EVIDENCE_MISSING", "VIOLATED"}
            -> result.status
      [] OTHER -> IF deadline /\ last > 0 THEN "VIOLATED" ELSE "UNKNOWN_EVIDENCE"

SuccessStatus(dag, frames, results, deadline) ==
    LET targets == {TargetStatus(Len(frames), results[n], deadline) : n \in dag.success}
    IN  IF dag.operator = "ANY_OF"
        THEN IF "SATISFIED" \in targets THEN "SATISFIED" ELSE NoAlternative(targets)
        ELSE IF targets = {"SATISFIED"} THEN "SATISFIED" ELSE Foremost(NotAll, targets)

\* The status of the one macro criterion of a lowered contract; a replay has reached
\* its deadline.
acquire_and_evaluate_legacy_contract(dag, frames, context) ==
    LET table == acquire_legacy_checker_outcomes(dag, frames, context)
    IN  SuccessStatus(dag, frames, NodeResults(dag, frames, table, TRUE), TRUE)

-----------------------------------------------------------------------------
(* The reference: what a passing run must show.                            *)

\* One frame per needed node, 0 for the others: every condition met on its frame, and
\* every needed node after the parents it depends on.
WalksTo(dag, table, at) ==
    \A n \in Nodes(dag) : at[n] # 0 =>
        /\ FrameStatus(dag, table, n, at[n], TRUE) = "SATISFIED"
        /\ CASE EffectiveMode(dag, n) = "ROOT" -> TRUE
             [] EffectiveMode(dag, n) = "ALL_OF" ->
                    \A p \in EffectiveParents(dag, n) : 0 < at[p] /\ at[p] < at[n]
             [] EffectiveMode(dag, n) = "ANY_OF" ->
                    \E p \in EffectiveParents(dag, n) : 0 < at[p] /\ at[p] < at[n]

\* Some such choice ends with the success nodes on the last frame.
Walks(dag, frames, context) ==
    LET table == acquire_legacy_checker_outcomes(dag, frames, context)
        last == Len(frames)
        ends(n) == \E at \in [Nodes(dag) -> 0 .. last] :
                        WalksTo(dag, table, at) /\ at[n] = last
    IN  /\ last > 0
        /\ IF dag.operator = "ANY_OF" THEN \E n \in dag.success : ends(n)
           ELSE \A n \in dag.success : ends(n)

=============================================================================

------------------------- MODULE StepGateCasesProofs -------------------------
(***************************************************************************)
(* The invariants of StepGateCases, for goals with any number of           *)
(* micro-actions and steps with any retry budget; and those of             *)
(* TargetAlignment, which makes the target evidence the gate reads, for    *)
(* every surface, palette of nodes, page, target element and box: where    *)
(* the runner types, what it touches for an identity, where a wrong or a   *)
(* doubtful box leads, and what a conformant target proves of the click.   *)
(***************************************************************************)
EXTENDS StepGateCases, TargetAlignment, StepGateProofs, FiniteSetTheorems,
        WellFoundedInduction

(* What is known of a case and, once it was evaluated, of its verdict.     *)
CaseInv ==
    /\ case.step \in StepCases /\ WellFormed(case.step)
    /\ case.record \in RecordCases(case.step)
    /\ case.view \in ViewCases
    /\ \/ verdict = Pending
       \/ verdict = EvaluateStepGate(case.step, case.record, case.view, case.attempt)

\* A case that was not evaluated has no decision of the gate.
LEMMA PendingIsNoDecision == Pending.decision = "not evaluated"
BY DEF Pending, Gate

\* Every enumerated action record has a type, a context and micro-gates.
LEMMA RecordCasesTyped ==
    ASSUME NEW s \in StepCases, NEW a \in RecordCases(s)
    PROVE  /\ a.micro \in Seq(MicroGateAnswers)
           /\ a.type = "gui_task" => s.kind = "GUI_TASK"
<1>1. MicroCases \subseteq Seq(MicroGateAnswers)
  <2> SUFFICES ASSUME NEW n \in 0 .. MaxMicro,
                      NEW m \in [1 .. n -> [decision : Decisions \ {"RETRY"},
                                            target : Targets]]
               PROVE  m \in Seq(MicroGateAnswers)
    BY DEF MicroCases
  <2>1. n \in Nat
    BY BoundsAssumption
  <2>2. m \in [1 .. n -> MicroGateAnswers]
    BY DEF MicroGateAnswers
  <2>3. QED
    BY <2>1, <2>2
<1>2. a.micro \in MicroCases \/ a.micro = <<>>
  BY DEF RecordCases
<1>3. s.kind \in {"CLICK", "INPUT", "WAIT"} => "gui_task" \notin AllowedTypes(s.kind) \cup {"abort"}
  BY DEF AllowedTypes, InputTypes
<1>4. s.kind \in {"CLICK", "INPUT", "WAIT", "GUI_TASK"}
  BY DEF StepCases
<1>5. a.micro \in Seq(MicroGateAnswers)
  <2>1. <<>> \in Seq(MicroGateAnswers)
    OBVIOUS
  <2> QED BY <1>1, <1>2, <2>1
<1>6. a.type = "gui_task" => s.kind = "GUI_TASK"
  BY <1>3, <1>4 DEF RecordCases
<1>7. QED
  BY <1>5, <1>6

\* The chosen case and the gate's answer to it agree in every state.
LEMMA Inductive == Spec => []CaseInv
<1>1. Init => CaseInv
  BY DEF Init, CaseInv
<1>2. CaseInv /\ [Next]_<<case, verdict>> => CaseInv'
  BY DEF CaseInv, Next, Evaluate
<1>3. QED
  BY <1>1, <1>2, PTL DEF Spec

-----------------------------------------------------------------------------
(* The early returns of evaluate_step_gate that a CONTINUE went past.      *)
LEMMA ContinuePassed ==
    ASSUME NEW s, NEW a, NEW v, NEW n,
           a.micro \in Seq(MicroGateAnswers),
           EvaluateStepGate(s, a, v, n).decision = "CONTINUE"
    PROVE  /\ ~v.env
           /\ a.context \notin {"NON_CONFORMANT", "UNKNOWN"}
           /\ MicroBlockers(s, a) = {}
           /\ ~(s.kind = "INPUT" /\ a.effect = "NON_CONFORMANT")
           /\ ActionConformance(s, a).action # "NON_CONFORMANT"
           /\ s.mode = "GOAL" => ProgressStatus(s, a, v) = "GOAL_RESULT_CONFIRMED"
<1>1. ContextGate(s, a, n).decision # "CONTINUE"
  BY DEF ContextGate, Gate
<1>2. \A w : NonConformantGate(s, n, w).decision # "CONTINUE"
  BY DEF NonConformantGate, Gate
<1>3. MicroBlockers(s, a) # {} => GoalMicroBlockingResult(s, a).decision # "CONTINUE"
  BY BlockingResult
<1>4. \A w, p : ProgressGate(s, w, p).decision = "CONTINUE" /\ s.mode = "GOAL"
                  => p = "GOAL_RESULT_CONFIRMED"
  BY DEF ProgressGate, Gate
<1>5. QED
  BY <1>1, <1>2, <1>3, <1>4 DEF EvaluateStepGate, Gate

(* A goal whose micro-gates were not all clean is not CONFORMANT.          *)
LEMMA UncleanGoal ==
    ASSUME NEW a, a.micro \in Seq(MicroGateAnswers),
           NEW k \in DOMAIN a.micro, MicroStops(a.micro[k]),
           \A i \in DOMAIN a.micro : a.micro[i].decision \notin {"ENV_BLOCKED", "INCONCLUSIVE"}
    PROVE  GoalMicroConformance(a).action = "NON_CONFORMANT"
<1> DEFINE stops == {i \in DOMAIN a.micro : MicroStops(a.micro[i])}
           m == CHOOSE i \in stops : \A j \in stops : i <= j
<1>1. stops \in SUBSET Nat /\ stops # {}
  OBVIOUS
<1>2. m \in stops
  <2> HIDE DEF stops
  <2> QED BY <1>1, LeastPosition
<1>3. a.micro[m].target = "NON_CONFORMANT" \/ a.micro[m].decision = "TEST_EXECUTION_FAIL"
  <2>1. m \in DOMAIN a.micro /\ MicroStops(a.micro[m])
    <3> HIDE DEF m
    <3> QED BY <1>2
  <2> HIDE DEF m
  <2> QED BY <2>1 DEF MicroStops
<1>4. a.micro # <<>>
  OBVIOUS
<1>5. GoalMicroConformance(a) =
        Verdict(IF a.micro[m].target = "NON_CONFORMANT" \/ a.micro[m].decision = "TEST_EXECUTION_FAIL"
                THEN "NON_CONFORMANT" ELSE "UNKNOWN", a.micro[m].target)
  BY <1>1, <1>4 DEF GoalMicroConformance
<1> HIDE DEF m
<1>6. QED
  BY <1>3, <1>5 DEF Verdict

(* A CONTINUE passed every blocker the gate has (evaluate_step_gate), in   *)
(* whatever order the early returns are taken.                             *)
THEOREM ContinueTheorem == Spec => []ContinueIsEarned
<1>1. CaseInv => ContinueIsEarned
  <2> SUFFICES ASSUME CaseInv, verdict.decision = "CONTINUE"
               PROVE  ContinueIsEarned
    BY DEF ContinueIsEarned, Judged
  <2> DEFINE s == case.step  a == case.record  v == case.view
  <2>1. EvaluateStepGate(s, a, v, case.attempt).decision = "CONTINUE"
    BY PendingIsNoDecision DEF CaseInv
  <2>2. /\ s \in StepCases /\ a \in RecordCases(s) /\ v \in ViewCases
        /\ s.kind = "GUI_TASK" => s.mode = "GOAL"
    BY DEF CaseInv, WellFormed
  <2> HIDE DEF s, a, v
  <2>3. /\ a.micro \in Seq(MicroGateAnswers)
        /\ a.type = "gui_task" => s.mode = "GOAL"
    BY <2>2, RecordCasesTyped
  <2>4. /\ ~v.env
        /\ a.context \notin {"NON_CONFORMANT", "UNKNOWN"}
        /\ MicroBlockers(s, a) = {}
        /\ ActionConformance(s, a).action # "NON_CONFORMANT"
        /\ s.mode = "GOAL" => ProgressStatus(s, a, v) = "GOAL_RESULT_CONFIRMED"
    BY <2>1, <2>3, ContinuePassed
  <2>5. a.context \in {"none", "CONFORMANT"}
    BY <2>2, <2>4 DEF RecordCases
  <2>6. ASSUME a.type = "gui_task"
        PROVE  \A i \in DOMAIN a.micro : a.micro[i].decision = "CONTINUE"
    <3>1. \A i \in DOMAIN a.micro : a.micro[i].decision \notin {"ENV_BLOCKED", "INCONCLUSIVE"}
      BY <2>3, <2>4, <2>6 DEF MicroBlockers
    <3>2. \A i \in DOMAIN a.micro : a.micro[i].decision \in Decisions \ {"RETRY"}
      BY <2>2 DEF RecordCases, MicroCases
    <3>3. \A i \in DOMAIN a.micro : ~MicroStops(a.micro[i])
      <4>1. GoalMicroConformance(a).action = "NON_CONFORMANT"
              => ActionConformance(s, a).action = "NON_CONFORMANT"
        BY <2>6 DEF ActionConformance, ControlTypes, Verdict
      <4>2. QED
        BY <2>3, <2>4, <3>1, <4>1, UncleanGoal
    <3>4. QED
      BY <3>1, <3>2, <3>3 DEF MicroStops, Decisions
  <2>7. ASSUME s.mode = "GOAL"
        PROVE  v.stage \/ v.shows
    <3>1. InputProgress(a, v) # "GOAL_RESULT_CONFIRMED"
      BY DEF InputProgress
    <3>2. v.delta # "GOAL_RESULT_CONFIRMED" => ScreenProgress(a, v) # "GOAL_RESULT_CONFIRMED"
      BY DEF ScreenProgress
    <3>3. v.delta # "GOAL_RESULT_CONFIRMED"
      BY <2>2 DEF ViewCases
    <3>4. QED
      BY <2>4, <2>7, <3>1, <3>2, <3>3 DEF ProgressStatus, GoalResultSeen
  <2>8. ASSUME a.type \in ClickTypes
        PROVE  a.target \notin {"NON_CONFORMANT", "OVERLAY_BLOCKED"}
    BY <2>4, <2>8 DEF ActionConformance, DispatchConformance, TargetConformance, ClickTypes,
                      ControlTypes, Verdict
  <2>9. QED
    BY <2>4, <2>5, <2>6, <2>7, <2>8 DEF ContinueIsEarned, s, a, v
<1>2. QED
  BY <1>1, Inductive, PTL

(* An INPUT whose editable surface was looked at and did not hold the      *)
(* value does not continue, whatever the rest of the screen shows          *)
(* (_evaluate_input_effect and the progress it leaves unknown).            *)
THEOREM InputTheorem == Spec => []InputContinuesOnEditableEvidence
<1>1. CaseInv => InputContinuesOnEditableEvidence
  <2> SUFFICES ASSUME CaseInv, verdict.decision = "CONTINUE", case.step.kind = "INPUT"
               PROVE  case.record.effect \in {"CONFORMANT", "none"}
    BY DEF InputContinuesOnEditableEvidence, Judged
  <2> DEFINE s == case.step  a == case.record  v == case.view  n == case.attempt
  <2>1. EvaluateStepGate(s, a, v, n).decision = "CONTINUE"
    BY PendingIsNoDecision DEF CaseInv
  <2>2. s \in StepCases /\ a \in RecordCases(s) /\ s.kind = "INPUT"
    BY DEF CaseInv
  <2> HIDE DEF s, a, v, n
  <2>3. a.micro \in Seq(MicroGateAnswers)
    BY <2>2, RecordCasesTyped
  <2>4. MicroBlockers(s, a) = {} /\ a.effect # "NON_CONFORMANT" /\ ~v.env
        /\ a.context \notin {"NON_CONFORMANT", "UNKNOWN"}
        /\ ActionConformance(s, a).action # "NON_CONFORMANT"
    BY <2>1, <2>2, <2>3, ContinuePassed
  <2>5. EvaluateStepGate(s, a, v, n) =
          ProgressGate(s, ActionConformance(s, a), ProgressStatus(s, a, v))
    BY <2>2, <2>4 DEF EvaluateStepGate
  <2>6. ProgressStatus(s, a, v) # "UNKNOWN"
    BY <2>1, <2>5 DEF ProgressGate, Gate, ContinueProgress
  <2>7. s.value /\ IsInputAction(s, a)
    <3>1. PICK k \in {"CLICK", "INPUT", "WAIT", "GUI_TASK"}, m \in {"ATOMIC", "GOAL"},
               r \in {"plain", "thread"}, retries \in 0 .. MaxRetries :
            s = [kind |-> k, mode |-> m, role |-> r, retries |-> retries,
                 value |-> k \in {"INPUT", "GUI_TASK"}]
      BY <2>2 DEF StepCases
    <3>2. k = "INPUT" /\ s.value = (k \in {"INPUT", "GUI_TASK"})
      BY <2>2, <3>1
    <3>3. s.value
      BY <3>2
    <3>4. QED
      BY <2>2, <3>3 DEF IsInputAction
  <2>8. a.effect # "none" /\ a.effect # "CONFORMANT" => ProgressStatus(s, a, v) = "UNKNOWN"
    BY <2>7 DEF ProgressStatus, GoalResultSeen, InputProgress
  <2>9. a.effect \in {"none", "CONFORMANT", "NON_CONFORMANT", "UNKNOWN"}
    BY <2>2 DEF RecordCases
  <2>10. QED
    BY <2>6, <2>8, <2>9 DEF s, a, v, n
<1>2. QED
  BY <1>1, Inductive, PTL

(* The two places where the gate asks for another attempt.                 *)
LEMMA RetryReasons ==
    ASSUME NEW s, NEW a, NEW v, NEW n,
           a.micro \in Seq(MicroGateAnswers),
           EvaluateStepGate(s, a, v, n).decision = "RETRY"
    PROVE  /\ ~v.env
           /\ n <= s.retries
           /\ \/ a.context = "NON_CONFORMANT" /\ s.kind = "CLICK"
              \/ /\ ~(s.kind = "INPUT" /\ a.effect = "NON_CONFORMANT")
                 /\ ActionConformance(s, a).target = "OVERLAY_BLOCKED"
                 /\ MicroBlockers(s, a) = {}
                 /\ ActionConformance(s, a).action = "NON_CONFORMANT"
<1>1. ContextGate(s, a, n).decision = "RETRY"
        => a.context = "NON_CONFORMANT" /\ s.kind = "CLICK" /\ n <= s.retries
  BY DEF ContextGate, RecoverableNavigation, Gate
<1>2. \A w : NonConformantGate(s, n, w).decision = "RETRY"
               => w.target = "OVERLAY_BLOCKED" /\ n <= s.retries
  BY DEF NonConformantGate, Gate
<1>3. MicroBlockers(s, a) # {} => GoalMicroBlockingResult(s, a).decision # "RETRY"
  BY BlockingResult
<1>4. \A w, p : ProgressGate(s, w, p).decision # "RETRY"
  BY DEF ProgressGate, Gate
<1>5. QED
  BY <1>1, <1>2, <1>3, <1>4 DEF EvaluateStepGate, Gate

(* An overlay in a goal's verdict was one of its micro-gates'.              *)
LEMMA OverlayInGoal ==
    ASSUME NEW a, a.micro \in Seq(MicroGateAnswers),
           GoalMicroConformance(a).target = "OVERLAY_BLOCKED"
    PROVE  \E i \in DOMAIN a.micro : a.micro[i].target = "OVERLAY_BLOCKED"
<1> DEFINE stops == {i \in DOMAIN a.micro : MicroStops(a.micro[i])}
           m == CHOOSE i \in stops : \A j \in stops : i <= j
<1>1. stops \in SUBSET Nat
  OBVIOUS
<1>2. stops # {} => m \in stops
  <2> HIDE DEF stops
  <2> QED BY <1>1, LeastPosition
<1>3. stops # {} => GoalMicroConformance(a).target = a.micro[m].target
  BY DEF GoalMicroConformance, Verdict
<1>4. stops # {}
  BY DEF GoalMicroConformance, Verdict
<1>5. m \in DOMAIN a.micro
  <2> HIDE DEF m
  <2> QED BY <1>2, <1>4
<1> HIDE DEF m
<1>6. QED
  BY <1>3, <1>4, <1>5

(* A RETRY is within the budget and answers a wrong page or an overlay:    *)
(* never typing that failed, never a goal, never a blocked environment.    *)
THEOREM RetryTheorem == Spec => []RetryIsBoundedAndJustified
<1>1. CaseInv => RetryIsBoundedAndJustified
  <2> SUFFICES ASSUME CaseInv, verdict.decision = "RETRY"
               PROVE  RetryIsBoundedAndJustified
    BY DEF RetryIsBoundedAndJustified, Judged
  <2> DEFINE s == case.step  a == case.record  v == case.view  n == case.attempt
  <2>1. EvaluateStepGate(s, a, v, n).decision = "RETRY"
    BY PendingIsNoDecision DEF CaseInv
  <2>2. s \in StepCases /\ a \in RecordCases(s)
    BY DEF CaseInv
  <2> HIDE DEF s, a, v, n
  <2>3. a.micro \in Seq(MicroGateAnswers)
    BY <2>2, RecordCasesTyped
  <2>4. /\ ~v.env
        /\ n <= s.retries
        /\ \/ a.context = "NON_CONFORMANT" /\ s.kind = "CLICK"
           \/ /\ ~(s.kind = "INPUT" /\ a.effect = "NON_CONFORMANT")
              /\ ActionConformance(s, a).target = "OVERLAY_BLOCKED"
    BY <2>1, <2>3, RetryReasons
  <2>5. ASSUME ActionConformance(s, a).target = "OVERLAY_BLOCKED"
        PROVE  \/ a.type \in ClickTypes /\ a.target = "OVERLAY_BLOCKED"
               \/ /\ s.kind = "GUI_TASK"
                  /\ \E i \in DOMAIN a.micro : a.micro[i].target = "OVERLAY_BLOCKED"
    <3>1. GoalMicroConformance(a).target = "OVERLAY_BLOCKED"
            => \E i \in DOMAIN a.micro : a.micro[i].target = "OVERLAY_BLOCKED"
      BY <2>3, OverlayInGoal
    <3>2. a.type = "gui_task" => s.kind = "GUI_TASK"
      BY <2>2, RecordCasesTyped
    <3>3. CASE a.type = "gui_task"
      BY <2>5, <3>1, <3>2, <3>3 DEF ActionConformance, DispatchConformance, TargetConformance,
                        ControlTypes, ClickTypes, Verdict
    <3>4. CASE a.type # "gui_task"
      BY <2>5, <3>4 DEF ActionConformance, DispatchConformance, TargetConformance,
                        ControlConformance, Verdict
    <3>5. QED
      BY <3>3, <3>4
  <2>6. QED
    BY <2>4, <2>5 DEF RetryIsBoundedAndJustified, s, a, v, n
<1>2. QED
  BY <1>1, Inductive, PTL

-----------------------------------------------------------------------------
(* Nodes, pages and the two rankings of nodes.                             *)

\* A node of the palette has a proper rectangle, and a page finitely many nodes.
LEMMA NodesHaveBounds ==
  ASSUME NEW i \in DOMAIN Palette
  PROVE  /\ Bounds(i) \in Int \X Int \X Int \X Int
         /\ Bounds(i)[1] < Bounds(i)[3] /\ Bounds(i)[2] < Bounds(i)[4]
BY PagesAssumption DEF Bounds

LEMMA PagesAreFinite == ASSUME NEW page \in SUBSET DOMAIN Palette PROVE IsFiniteSet(page)
<1>1. DOMAIN Palette = 1 .. Len(Palette) /\ Len(Palette) \in Nat
  BY PagesAssumption
<1>2. IsFiniteSet(1 .. Len(Palette))
  BY <1>1, FS_Interval
<1>3. QED
  BY <1>1, <1>2, FS_Subset

\* The centre of a proper rectangle lies in it.
LEMMA CentreIsInside ==
  ASSUME NEW b \in Int \X Int \X Int \X Int, b[1] <= b[3], b[2] <= b[4]
  PROVE  Inside(Centre(b), b)
<1>1. \A x, y \in Int : x <= y => x <= (x + y) \div 2 /\ (x + y) \div 2 <= y
  OBVIOUS
<1>2. b[1] \in Int /\ b[2] \in Int /\ b[3] \in Int /\ b[4] \in Int
  OBVIOUS
<1>3. QED
  BY <1>1, <1>2 DEF Inside, Centre

\* A set with one element has one.
LEMMA OneIsSome == ASSUME NEW S, Cardinality(S) = 1 PROVE Only(S) \in S
<1>1. S # {}
  BY FS_EmptySet
<1>2. QED
  BY <1>1 DEF Only

\* What a grounding target is.
LEMMA GroundingTargets ==
  ASSUME NEW v, v.page \subseteq DOMAIN Palette, NEW i \in _android_clickable_nodes(v)
  PROVE  /\ i \in v.page /\ Palette[i].enabled /\ Palette[i].visible
         /\ Inside(Centre(Bounds(i)), Bounds(i))
<1>1. i \in v.page /\ Palette[i].enabled /\ Palette[i].visible
  BY DEF _android_clickable_nodes
<1>2. /\ Bounds(i) \in Int \X Int \X Int \X Int
      /\ Bounds(i)[1] <= Bounds(i)[3] /\ Bounds(i)[2] <= Bounds(i)[4]
  <2>1. \A b \in Int \X Int \X Int \X Int :
          b[1] < b[3] /\ b[2] < b[4] => b[1] <= b[3] /\ b[2] <= b[4]
    OBVIOUS
  <2>2. QED
    BY <1>1, <2>1, NodesHaveBounds
<1>3. QED
  BY <1>1, <1>2, CentreIsInside

\* What an alignment says.
LEMMA AlignmentSays ==
  ASSUME NEW i, NEW p, NEW selected, NEW direct, NEW basis, NEW reason, NEW entry \in BOOLEAN
  PROVE  /\ Snapped(i, direct, basis, entry).point = Centre(Bounds(i))
         /\ Kept(p, selected, direct, basis, entry).point = p
         /\ reason \notin {"", "no_candidate"} =>
              _alignment_rejection_blocks_click(Rejected(p, direct, reason, entry))
BY DEF Snapped, Kept, Rejected, Audit, _alignment_rejection_blocks_click

-----------------------------------------------------------------------------
(* Text entries.                                                           *)

\* An alignment to text entries that does not refuse the click leads into one.
LEMMA EntryIsEntered ==
  ASSUME NEW v, v.page \subseteq DOMAIN Palette, NEW t, NEW p, NEW nodes,
         nodes = _android_clickable_nodes(v),
         ~_alignment_rejection_blocks_click(AlignEntry(v, t, p, nodes))
  PROVE  \E i \in nodes : _node_is_text_entry(i) /\ Inside(AlignEntry(v, t, p, nodes).point, Bounds(i))
<1> DEFINE inputs == {i \in nodes : _node_is_text_entry(i)}
           direct == Direct(nodes, p)
           meant  == {i \in inputs : _target_semantic_score(v, t, i) >= 4}
           hit    == direct \cap inputs
           a      == AlignEntry(v, t, p, nodes)
<1>1. a = AmongEntries(v, t, p, inputs, direct)
  BY DEF AlignEntry
<1>2. \A i \in inputs : i \in nodes /\ _node_is_text_entry(i) /\ Inside(Centre(Bounds(i)), Bounds(i))
  BY GroundingTargets
<1>3. \A i \in hit : i \in nodes /\ _node_is_text_entry(i) /\ Inside(p, Bounds(i))
  BY DEF Direct
<1>4. ASSUME NEW reason, reason \notin {"", "no_candidate"}, a = Rejected(p, direct, reason, TRUE)
      PROVE  FALSE
  <2> HIDE DEF inputs, direct, meant, hit
  <2>1. ~_alignment_rejection_blocks_click(a)
    OBVIOUS
  <2> HIDE DEF a
  <2>2. QED
    BY <1>4, <2>1, AlignmentSays
<1>5. \/ Cardinality(meant) = 1 /\ a = Snapped(Only(meant), direct, "semantic_text_entry_recovery", TRUE)
      \/ Cardinality(hit) = 1 /\ a = Kept(p, hit, direct, "direct_text_entry_hit", TRUE)
      \/ /\ Cardinality(inputs) = 1
         /\ a = Snapped(Only(inputs), direct, "unique_text_entry_semantic_recovery", TRUE)
  <2>1. ASSUME NEW reason \in {"ambiguous_text_entry_candidates",
                               "text_entry_candidate_semantics_insufficient",
                               "text_entry_target_rejects_non_input_node", "no_text_entry_candidate"}
        PROVE  a # Rejected(p, direct, reason, TRUE)
    BY <1>4, <2>1
  <2> HIDE DEF inputs, direct, meant, hit, a
  <2>2. a = LET hit_ == direct \cap inputs
                meant_ == {i \in inputs : _target_semantic_score(v, t, i) >= 4}
            IN  IF Cardinality(meant_) = 1 /\ hit_ # {} /\ meant_ \cap hit_ = {}
                THEN Snapped(Only(meant_), direct, "semantic_text_entry_recovery", TRUE)
                ELSE IF Cardinality(hit_) = 1 THEN Kept(p, hit_, direct, "direct_text_entry_hit", TRUE)
                ELSE IF hit_ # {} THEN Rejected(p, direct, "ambiguous_text_entry_candidates", TRUE)
                ELSE IF Cardinality(inputs) = 1
                THEN IF meant_ = inputs
                     THEN Snapped(Only(inputs), direct, "unique_text_entry_semantic_recovery", TRUE)
                     ELSE Rejected(p, direct, "text_entry_candidate_semantics_insufficient", TRUE)
                ELSE Rejected(p, direct, IF direct # {} THEN "text_entry_target_rejects_non_input_node"
                                         ELSE "no_text_entry_candidate", TRUE)
    BY <1>1 DEF AmongEntries
  <2>3. QED
    BY <2>1, <2>2 DEF hit, meant
<1>6. ASSUME NEW i, NEW basis, a = Snapped(i, direct, basis, TRUE) PROVE a.point = Centre(Bounds(i))
  <2> HIDE DEF inputs, direct, meant, hit, a
  <2>1. QED
    BY <1>6, AlignmentSays
<1>7. CASE Cardinality(meant) = 1 /\ a = Snapped(Only(meant), direct, "semantic_text_entry_recovery", TRUE)
  <2>1. Only(meant) \in meant
    BY <1>7, OneIsSome
  <2>2. QED
    BY <1>2, <1>6, <1>7, <2>1
<1>8. CASE Cardinality(hit) = 1 /\ a = Kept(p, hit, direct, "direct_text_entry_hit", TRUE)
  <2>1. Only(hit) \in hit
    BY <1>8, OneIsSome
  <2>2. a.point = p
    <3> HIDE DEF inputs, direct, meant, hit, a
    <3>1. QED
      BY <1>8, AlignmentSays
  <2>3. QED
    BY <1>3, <2>1, <2>2
<1>9. CASE /\ Cardinality(inputs) = 1
           /\ a = Snapped(Only(inputs), direct, "unique_text_entry_semantic_recovery", TRUE)
  <2>1. Only(inputs) \in inputs
    BY <1>9, OneIsSome
  <2>2. QED
    BY <1>2, <1>6, <1>9, <2>1
<1>10. QED
  BY <1>5, <1>7, <1>8, <1>9

-----------------------------------------------------------------------------
(* What is known of a step.                                                *)

Chosen == IF asked.hook THEN Native(asked.decision.box)
          ELSE ArbitratedBox(view, asked.element, Native(asked.decision.box), Native(asked.grounded))
RunnerAnswer ==
    IF asked.step.family = "INPUT"
    THEN handle_click_input_action(view, asked.element, asked.decision)
    ELSE handle_click_action(view, asked.element, asked.decision, Chosen,
                             IdentityTarget(view, asked.step))

\* The record is the answer of one of the two dispatchers to the page and the
\* decision, and the evidence is the gate's reading of that record.
AlignmentInv ==
    /\ view.page \subseteq DOMAIN Palette
    /\ \/ record = Undispatched
       \/ \E i \in HierarchyTargets : record = _dispatch_hierarchy_target(asked.step, i)
       \/ record = _attach_hierarchy_hit_test_evidence(view, RunnerAnswer)
    /\ record = Undispatched => target = "PENDING"
    /\ target # "PENDING" => target = _target_conformance(view, asked.step, record)

\* Nothing of a step changes once it was dispatched and judged.
LEMMA AlignmentIsInvariant == AlignmentSpec => []AlignmentInv
<1>1. AlignmentInit => AlignmentInv
  BY PagesAssumption DEF AlignmentInit, AlignmentInv
<1>2. ASSUME AlignmentInv, [AlignmentNext]_alignmentVars PROVE AlignmentInv'
  <2>1. ASSUME UNCHANGED <<view, asked>>
        PROVE  HierarchyTargets' = HierarchyTargets /\ RunnerAnswer' = RunnerAnswer
    BY <2>1 DEF HierarchyTargets, RunnerAnswer, Chosen
  <2>2. CASE DispatchHierarchyTarget
    <3>1. UNCHANGED <<view, asked, target>> /\ target = "PENDING"
      BY <1>2, <2>2 DEF DispatchHierarchyTarget, AlignmentInv
    <3>2. \E i \in HierarchyTargets' : record' = _dispatch_hierarchy_target(asked'.step, i)
      BY <2>1, <2>2, <3>1 DEF DispatchHierarchyTarget
    <3>3. QED
      BY <1>2, <3>1, <3>2 DEF AlignmentInv
  <2>3. CASE DispatchRunnerDecision
    <3>1. UNCHANGED <<view, asked, target>> /\ target = "PENDING"
      BY <1>2, <2>3 DEF DispatchRunnerDecision, AlignmentInv
    <3>2. record' = _attach_hierarchy_hit_test_evidence(view, RunnerAnswer)
      BY <2>3 DEF DispatchRunnerDecision, RunnerAnswer, Chosen, Native
    <3>3. record' = _attach_hierarchy_hit_test_evidence(view', RunnerAnswer')
      BY <2>1, <3>1, <3>2
    <3>4. QED
      BY <1>2, <3>1, <3>3 DEF AlignmentInv
  <2>4. CASE Judge
    <3>1. /\ UNCHANGED <<view, asked, record>> /\ record # Undispatched
          /\ target' = _target_conformance(view, asked.step, record)
      BY <2>4 DEF Judge, Undispatched, Refused
    <3>2. target' = _target_conformance(view', asked'.step, record')
      BY <3>1
    <3>3. HierarchyTargets' = HierarchyTargets /\ RunnerAnswer' = RunnerAnswer
      BY <2>1, <3>1
    <3>4. record' # Undispatched'
      BY <3>1 DEF Undispatched
    <3>5. QED
      BY <1>2, <3>1, <3>2, <3>3, <3>4 DEF AlignmentInv
  <2>5. CASE UNCHANGED alignmentVars
    <3>1. UNCHANGED <<view, asked, record, target>>
      BY <2>5 DEF alignmentVars
    <3>2. HierarchyTargets' = HierarchyTargets /\ RunnerAnswer' = RunnerAnswer
      BY <2>1, <3>1
    <3>3. QED
      BY <1>2, <3>1, <3>2 DEF AlignmentInv
  <2>6. QED
    BY <1>2, <2>2, <2>3, <2>4, <2>5 DEF AlignmentNext
<1>3. QED
  BY <1>1, <1>2, PTL DEF AlignmentSpec

\* The fields of an answer of the runner's handlers, which the hit test keeps.
Answer(r) == r = [dispatched |-> r.dispatched, type |-> r.type, point |-> r.point, box |-> r.box,
                  source |-> r.source, xml |-> r.xml, clicked |-> r.clicked]

LEMMA HandlersAnswer ==
  ASSUME NEW v, NEW t, NEW decision, NEW box, NEW identity
  PROVE  /\ Answer(handle_click_action(v, t, decision, box, identity))
         /\ handle_click_action(v, t, decision, box, identity).type \in {"click", "none"}
         /\ Answer(handle_click_input_action(v, t, decision))
         /\ handle_click_input_action(v, t, decision).type \in {"click_input", "none"}
<1>1. \A reason : Answer(Refused(reason)) /\ Refused(reason).type = "none"
  BY DEF Refused, Answer
<1>2. \A type, point, b, source, xml :
        Answer(Clicked(type, point, b, source, xml)) /\ Clicked(type, point, b, source, xml).type = type
  BY DEF Clicked, Answer
<1>3. QED
  BY <1>1, <1>2 DEF handle_click_action, handle_click_input_action, ClickBox

\* The hit test of the executor adds nodes to a record and changes nothing else.
LEMMA AttachmentKeeps ==
  ASSUME NEW v, NEW r, Answer(r), NEW s, s = _attach_hierarchy_hit_test_evidence(v, r)
  PROVE  /\ s.dispatched = r.dispatched /\ s.type = r.type /\ s.point = r.point /\ s.box = r.box
         /\ s.source = r.source /\ s.clicked = r.clicked
         /\ \/ s.xml = r.xml
            \/ s.xml = FrameHitTest(v, r) /\ r.point # <<>> /\ ~_xml_hit_test_result_is_decisive(r.xml)
<1>1. CASE r.point = <<>> \/ _xml_hit_test_result_is_decisive(r.xml)
  BY <1>1 DEF _attach_hierarchy_hit_test_evidence
<1>2. CASE ~(r.point = <<>> \/ _xml_hit_test_result_is_decisive(r.xml))
  <2>1. s = [r EXCEPT !.xml = FrameHitTest(v, r)]
    BY <1>2 DEF _attach_hierarchy_hit_test_evidence
  <2>2. QED
    BY <1>2, <2>1 DEF Answer
<1>3. QED
  BY <1>1, <1>2

\* What the runner dispatched is what one of its two handlers answered.
OfTheFamily(r) == IF asked.step.family = "INPUT" THEN r.type \in {"click_input", "none"}
                                                 ELSE r.type \in {"click", "none"}
LEMMA RunnerDispatches ==
  ASSUME AlignmentInv, ByRunner
  PROVE  /\ record.type = RunnerAnswer.type /\ record.point = RunnerAnswer.point
         /\ record.box = RunnerAnswer.box /\ record.source = RunnerAnswer.source
         /\ \/ record.xml = RunnerAnswer.xml
            \/ record.xml = FrameHitTest(view, RunnerAnswer) /\ RunnerAnswer.point # <<>>
               /\ ~_xml_hit_test_result_is_decisive(RunnerAnswer.xml)
         /\ RunnerAnswer.dispatched /\ OfTheFamily(RunnerAnswer)
<1>1. record # Undispatched
  BY DEF ByRunner, Undispatched, Refused
<1>2. \A i \in HierarchyTargets : record # _dispatch_hierarchy_target(asked.step, i)
  <2>1. \A i : _dispatch_hierarchy_target(asked.step, i).clicked = TRUE
    BY DEF _dispatch_hierarchy_target
  <2>2. record.clicked # TRUE
    BY DEF ByRunner
  <2>3. QED
    BY <2>1, <2>2
<1>3. record = _attach_hierarchy_hit_test_evidence(view, RunnerAnswer)
  BY <1>1, <1>2 DEF AlignmentInv
<1>4. Answer(RunnerAnswer) /\ OfTheFamily(RunnerAnswer)
  <2>1. CASE asked.step.family = "INPUT"
    BY <2>1, HandlersAnswer DEF RunnerAnswer, OfTheFamily
  <2>2. CASE asked.step.family # "INPUT"
    BY <2>2, HandlersAnswer DEF RunnerAnswer, OfTheFamily
  <2>3. QED
    BY <2>1, <2>2
<1>5. QED
  BY <1>3, <1>4, AttachmentKeeps DEF ByRunner

-----------------------------------------------------------------------------
\* Text only ever goes into an enabled, visible editor of the page, for every page,
\* label, box and number of nodes (runner/mobiagent/mobiagent.py:2754-2843, 1940-1998).
THEOREM EditorTheorem == AlignmentSpec => []TextGoesIntoAnEditor
<1>1. ASSUME AlignmentInv PROVE TextGoesIntoAnEditor
  <2> SUFFICES ASSUME record.type = "click_input", ByRunner
               PROVE  \E i \in view.page :
                         /\ _node_is_text_entry(i) /\ Palette[i].enabled /\ Palette[i].visible
                         /\ Inside(record.point, Bounds(i))
    BY DEF TextGoesIntoAnEditor
  <2> DEFINE native == convert_qwen3_coordinates_to_absolute(asked.decision.box)
             p   == Centre(native)
             box == IF asked.decision.kind = "coords" THEN <<p[1], p[2], p[1], p[2]>> ELSE native
             a   == align_click_to_xml_node(view, asked.element, p, box, "click_input")
  <2>1. /\ RunnerAnswer = handle_click_input_action(view, asked.element, asked.decision)
        /\ RunnerAnswer.type = "click_input" /\ record.point = RunnerAnswer.point
    BY <1>1, RunnerDispatches DEF RunnerAnswer, OfTheFamily
  <2>2. RunnerAnswer = IF _alignment_rejection_blocks_click(a) THEN Refused(a.rejection)
                       ELSE Clicked("click_input", a.point, box, "box", a)
    BY <2>1 DEF handle_click_input_action
  <2>3. a = AlignEntry(view, asked.element, p, _android_clickable_nodes(view))
    BY DEF align_click_to_xml_node, _target_wants_text_entry
  <2> HIDE DEF a, box, p, native
  <2>4. ~_alignment_rejection_blocks_click(a) /\ record.point = a.point
    BY <2>1, <2>2 DEF Refused, Clicked
  <2>5. view.page \subseteq DOMAIN Palette
    BY <1>1 DEF AlignmentInv
  <2>6. PICK i \in _android_clickable_nodes(view) : _node_is_text_entry(i) /\ Inside(a.point, Bounds(i))
    BY <2>3, <2>4, <2>5, EntryIsEntered
  <2>7. QED
    BY <2>4, <2>5, <2>6, GroundingTargets
<1>2. QED
  BY <1>1, AlignmentIsInvariant, PTL

\* A box never dispatches a click outside the one place the hierarchy shows for an
\* identity, unless to the only red create button (_identity_target_guard).
THEOREM IdentityTheorem == AlignmentSpec => []IdentityIsHit
<1>1. ASSUME AlignmentInv PROVE IdentityIsHit
  <2> DEFINE identity == IdentityTarget(view, asked.step)
             a == align_click_to_xml_node(view, asked.element, Centre(Chosen), Chosen, "click")
  <2> SUFFICES ASSUME record.type = "click", ByRunner, record.box # <<>>, identity # <<>>,
                      record.source # "visual"
               PROVE  Inside(record.point, identity)
    BY DEF IdentityIsHit
  <2>1. /\ RunnerAnswer = handle_click_action(view, asked.element, asked.decision, Chosen, identity)
        /\ RunnerAnswer.type = "click" /\ RunnerAnswer.box # <<>> /\ RunnerAnswer.source # "visual"
        /\ record.point = RunnerAnswer.point
    BY <1>1, RunnerDispatches DEF RunnerAnswer, OfTheFamily
  <2>2. RunnerAnswer = ClickBox(view, asked.element, Chosen, identity)
    BY <2>1 DEF handle_click_action, Clicked, Refused
  <2>3. Inside(a.point, identity) /\ RunnerAnswer = Clicked("click", a.point, Chosen, "box", a)
    <3> HIDE DEF identity
    <3>1. QED
      BY <2>1, <2>2 DEF ClickBox, Clicked, Refused
  <2>4. QED
    BY <2>1, <2>3 DEF Clicked
<1>2. QED
  BY <1>1, AlignmentIsInvariant, PTL

-----------------------------------------------------------------------------
(* The best of a page's nodes.                                             *)

\* A nonempty set of numbers has a least one.
LEMMA LeastOf ==
  ASSUME NEW S \in SUBSET Nat, S # {}
  PROVE  \E m \in S : \A k \in S : m <= k
<1> DEFINE Less == {ss \in Nat \X Nat : ss[1] < ss[2]}
<1>1. IsWellFoundedOn(Less, Nat)
  BY NatLessThanWellFounded DEF OpToRel
<1>2. PICK m \in S : \A k \in S : <<k, m>> \notin Less
  <2> HIDE DEF Less
  <2>1. \E m \in S : \A k \in S : ~(<<k, m>> \in Less)
    BY <1>1, WFMin
  <2>2. QED
    BY <2>1
<1>3. \A k \in S : k \in Nat /\ m \in Nat /\ ~(k < m)
  BY <1>2
<1>4. QED
  BY <1>3

\* A score is a number, and no higher than the whole page gives.
Highest(v) == 4 + 4 * Cardinality(v.page)
LEMMA ScoresAreBounded ==
  ASSUME NEW v, v.page \subseteq DOMAIN Palette, NEW t, NEW i
  PROVE  _target_semantic_score(v, t, i) \in 0 .. Highest(v)
<1> DEFINE named == {j \in Context(v, i) : Named(t, j)}
           own == IF Named(t, i) THEN 4 ELSE 0
<1>1. named \subseteq v.page
  BY DEF Context
<1>2. IsFiniteSet(v.page) /\ Cardinality(v.page) \in Nat
  BY PagesAreFinite, FS_CardinalityType
<1>3. Cardinality(named) \in Nat /\ Cardinality(named) <= Cardinality(v.page)
  <2> HIDE DEF named
  <2>1. IsFiniteSet(named) /\ Cardinality(named) <= Cardinality(v.page)
    BY <1>1, <1>2, FS_Subset
  <2>2. QED
    BY <2>1, FS_CardinalityType
<1>4. own \in {0, 4}
  OBVIOUS
<1>5. _target_semantic_score(v, t, i) = own + 4 * Cardinality(named)
  BY DEF _target_semantic_score
<1> HIDE DEF own, named
<1>6. own + 4 * Cardinality(named) \in 0 .. 4 + 4 * Cardinality(v.page)
  BY <1>2, <1>3, <1>4
<1>7. QED
  BY <1>5, <1>6 DEF Highest

\* Some node of a nonempty set has the highest score.
LEMMA SomeIsHighest ==
  ASSUME NEW v, v.page \subseteq DOMAIN Palette, NEW t, NEW S, S # {}
  PROVE  HighestScored(v, t, S) # {} /\ HighestScored(v, t, S) \subseteq S
<1> DEFINE score(i) == _target_semantic_score(v, t, i)
           n == Highest(v)
           lacks == {n - score(i) : i \in S}
<1>1. n \in Nat
  <2>1. Cardinality(v.page) \in Nat
    BY PagesAreFinite, FS_CardinalityType
  <2>2. QED
    BY <2>1 DEF Highest
<1>2. \A i \in S : score(i) \in Nat /\ score(i) <= n
  <2>1. \A i \in S : score(i) \in 0 .. n
    BY ScoresAreBounded
  <2> HIDE DEF score, n
  <2>2. QED
    BY <1>1, <2>1
<1> HIDE DEF score, n
<1>3. lacks \in SUBSET Nat /\ lacks # {}
  <2>1. \A i \in S : n - score(i) \in Nat
    BY <1>1, <1>2
  <2>2. QED
    BY <2>1
<1>4. PICK m \in lacks : \A k \in lacks : m <= k
  <2> HIDE DEF lacks
  <2>1. QED
    BY <1>3, LeastOf
<1>5. PICK i \in S : m = n - score(i)
  BY <1>4
<1>6. \A j \in S : score(j) <= score(i)
  <2>1. \A j \in S : n - score(i) <= n - score(j)
    BY <1>4, <1>5
  <2>2. QED
    BY <1>1, <1>2, <2>1
<1>7. i \in HighestScored(v, t, S)
  BY <1>6 DEF HighestScored, score
<1>8. QED
  BY <1>7 DEF HighestScored

\* Some node of a nonempty set is the smallest.
LEMMA SomeIsSmallest ==
  ASSUME NEW S \in SUBSET DOMAIN Palette, S # {}
  PROVE  Smallest(S) \in S
<1> DEFINE area(i) == Area(Bounds(i))
           areas == {area(i) : i \in S}
<1>1. \A i \in S : area(i) \in Nat
  <2> SUFFICES ASSUME NEW i \in S PROVE area(i) \in Nat
    OBVIOUS
  <2> DEFINE w == Bounds(i)[3] - Bounds(i)[1]
             h == Bounds(i)[4] - Bounds(i)[2]
  <2>1. w \in Nat /\ h \in Nat
    BY NodesHaveBounds
  <2>2. area(i) = w * h
    BY DEF Area
  <2>3. \A x, y \in Nat : x * y \in Nat
    OBVIOUS
  <2> HIDE DEF w, h, area
  <2>4. QED
    BY <2>1, <2>2, <2>3
<1> HIDE DEF area
<1>2. areas \in SUBSET Nat /\ areas # {}
  BY <1>1
<1>3. PICK m \in areas : \A k \in areas : m <= k
  <2> HIDE DEF areas
  <2>1. QED
    BY <1>2, LeastOf
<1>4. PICK i \in S : m = area(i)
  BY <1>3
<1>5. \A j \in S : area(i) <= area(j)
  BY <1>3, <1>4
<1>6. \E x \in S : \A j \in S : Area(Bounds(x)) <= Area(Bounds(j))
  BY <1>5 DEF area
<1>7. QED
  BY <1>6 DEF Smallest

-----------------------------------------------------------------------------
(* Where an alignment leads a click.                                       *)

\* An alignment keeps the point, or leads to a node that is named or centred in the
\* box; it names visible nodes of the page only; and one that has a basis rejects
\* nothing and needs no second hit test.
Shows(v) == {i \in v.page : Palette[i].visible}
Justified(v, t, p, box, a) ==
    /\ a.selected \cup a.direct \subseteq Shows(v)
    /\ \/ a.point = p
       \/ \E i \in _android_clickable_nodes(v) :
             /\ a.point = Centre(Bounds(i))
             /\ _target_semantic_score(v, t, i) > 0 \/ Inside(Centre(Bounds(i)), box)
    /\ a.basis # "" => a.rejection = "" /\ _xml_hit_test_result_is_decisive(a)

LEMMA FormsOfAnAudit ==
  ASSUME NEW v, NEW t, NEW p, NEW box, NEW selected, NEW direct, NEW basis, NEW reason, NEW entry,
         selected \cup direct \subseteq Shows(v)
  PROVE  /\ direct # {} => Justified(v, t, p, box, Kept(p, selected, direct, basis, entry))
         /\ Justified(v, t, p, box, Rejected(p, direct, reason, entry))
         /\ Justified(v, t, p, box, Audit(p, FALSE, selected, direct, "", reason, entry))
         /\ \A i \in _android_clickable_nodes(v) :
              _target_semantic_score(v, t, i) > 0 \/ Inside(Centre(Bounds(i)), box)
                => Justified(v, t, p, box, Snapped(i, direct, basis, entry))
<1>1. \A i \in _android_clickable_nodes(v) : i \in Shows(v)
  BY DEF Shows, _android_clickable_nodes
<1>2. QED
  BY <1>1 DEF Justified, Kept, Rejected, Snapped, Audit, _xml_hit_test_result_is_decisive

LEMMA EntriesAreJustified ==
  ASSUME NEW v, v.page \subseteq DOMAIN Palette, NEW t, NEW p, NEW box, NEW nodes,
         nodes = _android_clickable_nodes(v)
  PROVE  Justified(v, t, p, box, AlignEntry(v, t, p, nodes))
<1> DEFINE inputs == {i \in nodes : _node_is_text_entry(i)}
           direct == Direct(nodes, p)
           meant  == {i \in inputs : _target_semantic_score(v, t, i) >= 4}
           hit    == direct \cap inputs
           a      == AlignEntry(v, t, p, nodes)
<1>1. a = AmongEntries(v, t, p, inputs, direct)
  BY DEF AlignEntry
<1>0. direct \subseteq Shows(v) /\ hit \subseteq Shows(v)
  BY DEF Direct, Shows, _android_clickable_nodes
<1>2. \A i \in meant : i \in nodes /\ _target_semantic_score(v, t, i) > 0
  <2>1. \A i : _target_semantic_score(v, t, i) \in Int
    BY ScoresAreBounded
  <2>2. QED
    BY <2>1
<1>3. Cardinality(hit) = 1 => direct # {}
  <2>1. Cardinality(hit) = 1 => Only(hit) \in hit
    <3> HIDE DEF hit
    <3>1. QED
      BY OneIsSome
  <2>2. QED
    BY <2>1
<1>4. \/ Cardinality(meant) = 1 /\ a = Snapped(Only(meant), direct, "semantic_text_entry_recovery", TRUE)
      \/ Cardinality(hit) = 1 /\ a = Kept(p, hit, direct, "direct_text_entry_hit", TRUE)
      \/ /\ Cardinality(meant) = 1
         /\ a = Snapped(Only(meant), direct, "unique_text_entry_semantic_recovery", TRUE)
      \/ \E reason : a = Rejected(p, direct, reason, TRUE)
  <2> HIDE DEF inputs, direct, meant, hit, a
  <2>2. a = LET hit_ == direct \cap inputs
                meant_ == {i \in inputs : _target_semantic_score(v, t, i) >= 4}
            IN  IF Cardinality(meant_) = 1 /\ hit_ # {} /\ meant_ \cap hit_ = {}
                THEN Snapped(Only(meant_), direct, "semantic_text_entry_recovery", TRUE)
                ELSE IF Cardinality(hit_) = 1 THEN Kept(p, hit_, direct, "direct_text_entry_hit", TRUE)
                ELSE IF hit_ # {} THEN Rejected(p, direct, "ambiguous_text_entry_candidates", TRUE)
                ELSE IF Cardinality(inputs) = 1
                THEN IF meant_ = inputs
                     THEN Snapped(Only(inputs), direct, "unique_text_entry_semantic_recovery", TRUE)
                     ELSE Rejected(p, direct, "text_entry_candidate_semantics_insufficient", TRUE)
                ELSE Rejected(p, direct, IF direct # {} THEN "text_entry_target_rejects_non_input_node"
                                         ELSE "no_text_entry_candidate", TRUE)
    BY <1>1 DEF AmongEntries
  <2>3. QED
    BY <2>2 DEF hit, meant
<1>5. Cardinality(meant) = 1 => Only(meant) \in meant
  <2> HIDE DEF meant
  <2>1. QED
    BY OneIsSome
<1>6. Cardinality(meant) = 1 =>
        /\ Only(meant) \in _android_clickable_nodes(v)
        /\ _target_semantic_score(v, t, Only(meant)) > 0
  <2> HIDE DEF meant
  <2>1. QED
    BY <1>2, <1>5
<1> HIDE DEF inputs, direct, meant, hit, a
<1>7. QED
  <2>1. Justified(v, t, p, box, a)
    BY <1>0, <1>3, <1>4, <1>6, FormsOfAnAudit
  <2>2. QED
    BY <2>1 DEF a

LEMMA ControlsAreJustified ==
  ASSUME NEW v, v.page \subseteq DOMAIN Palette, NEW t, NEW p, NEW box, NEW nodes,
         nodes = _android_clickable_nodes(v)
  PROVE  Justified(v, t, p, box, AlignControl(v, t, p, box, nodes))
<1> DEFINE direct == Direct(nodes, p)
           scored == {i \in nodes : _target_semantic_score(v, t, i) > 0}
           candidates == {i \in nodes : \/ Shared(box, Bounds(i)) > 0
                                        \/ Distance2(Centre(Bounds(i)), p) <= Square(64)}
           finer == {i \in candidates \ direct : /\ _target_semantic_score(v, t, i) >= 4
                                                 /\ \E d \in direct : Within(i, d)}
           best == Smallest(HighestScored(v, t, candidates))
           a == AlignControl(v, t, p, box, nodes)
<1>1. a = AmongControls(v, t, p, box, direct, scored, candidates)
  BY DEF AlignControl
<1>0. direct \subseteq Shows(v)
  BY DEF Direct, Shows, _android_clickable_nodes
<1>2. \A i \in finer : i \in _android_clickable_nodes(v) /\ _target_semantic_score(v, t, i) > 0
  <2>1. \A i : _target_semantic_score(v, t, i) \in Int
    BY ScoresAreBounded
  <2>2. QED
    BY <2>1
<1>3. candidates # {} => best \in _android_clickable_nodes(v)
  <2>1. candidates \subseteq _android_clickable_nodes(v)
    OBVIOUS
  <2>2. candidates \subseteq DOMAIN Palette
    BY <2>1 DEF _android_clickable_nodes
  <2> HIDE DEF candidates
  <2>3. candidates # {} => /\ HighestScored(v, t, candidates) # {}
                           /\ HighestScored(v, t, candidates) \subseteq candidates
    BY SomeIsHighest
  <2>4. candidates # {} => best \in HighestScored(v, t, candidates)
    BY <2>2, <2>3, SomeIsSmallest
  <2>5. QED
    BY <2>1, <2>3, <2>4
<1>4. finer # {} => Only(HighestScored(v, t, finer)) \in finer
  <2> HIDE DEF finer
  <2>1. finer # {} => /\ HighestScored(v, t, finer) # {}
                      /\ HighestScored(v, t, finer) \subseteq finer
    BY SomeIsHighest
  <2>2. QED
    BY <2>1 DEF Only
<1>5. ASSUME _alignment_acceptance_reason(v, t, best, p, box)
      PROVE  _target_semantic_score(v, t, best) > 0 \/ Inside(Centre(Bounds(best)), box)
  <2> HIDE DEF best
  <2>1. QED
    BY <1>5 DEF _alignment_acceptance_reason
<1>6. \/ direct # {} /\ a = Kept(p, {}, direct, "direct_supported_hit", FALSE)
      \/ \E reason : a = Rejected(p, direct, reason, FALSE)
      \/ /\ finer # {}
         /\ a = Snapped(Only(HighestScored(v, t, finer)), direct, "semantic_descendant_recovery", FALSE)
      \/ /\ candidates # {} /\ _alignment_acceptance_reason(v, t, best, p, box)
         /\ a = Snapped(best, direct, "accepted_candidate", FALSE)
      \/ candidates # {} /\ \E reason : a = Audit(p, FALSE, {best}, direct, "", reason, FALSE)
  <2> HIDE DEF direct, scored, candidates, a
  <2>1. QED
    BY <1>1 DEF AmongControls
<1> HIDE DEF direct, scored, candidates, finer, best, a
<1>7. CASE direct # {} /\ a = Kept(p, {}, direct, "direct_supported_hit", FALSE)
  BY <1>0, <1>7, FormsOfAnAudit DEF a
<1>8. CASE \E reason : \/ a = Rejected(p, direct, reason, FALSE)
                       \/ candidates # {} /\ a = Audit(p, FALSE, {best}, direct, "", reason, FALSE)
  <2>1. \A reason : Justified(v, t, p, box, Rejected(p, direct, reason, FALSE))
    <3>1. {} \cup direct \subseteq Shows(v)
      BY <1>0
    <3>2. QED
      BY <3>1, FormsOfAnAudit
  <2>2. candidates # {} =>
          \A reason : Justified(v, t, p, box, Audit(p, FALSE, {best}, direct, "", reason, FALSE))
    <3>1. candidates # {} => {best} \cup direct \subseteq Shows(v)
      BY <1>0, <1>3 DEF Shows, _android_clickable_nodes
    <3>2. QED
      BY <3>1, FormsOfAnAudit
  <2>3. Justified(v, t, p, box, a)
    BY <1>8, <2>1, <2>2
  <2>4. QED
    BY <2>3 DEF a
<1>9. CASE /\ finer # {}
           /\ a = Snapped(Only(HighestScored(v, t, finer)), direct, "semantic_descendant_recovery", FALSE)
  <2> DEFINE i == Only(HighestScored(v, t, finer))
  <2>1. i \in _android_clickable_nodes(v) /\ _target_semantic_score(v, t, i) > 0
    BY <1>2, <1>4, <1>9
  <2> HIDE DEF i
  <2>2. a = Snapped(i, direct, "semantic_descendant_recovery", FALSE)
    BY <1>9 DEF i
  <2>3. QED
    BY <1>0, <2>1, <2>2, FormsOfAnAudit DEF a
<1>10. CASE /\ candidates # {} /\ _alignment_acceptance_reason(v, t, best, p, box)
            /\ a = Snapped(best, direct, "accepted_candidate", FALSE)
  BY <1>0, <1>3, <1>5, <1>10, FormsOfAnAudit DEF a
<1>11. QED
  BY <1>6, <1>7, <1>8, <1>9, <1>10 DEF a

LEMMA AlignmentIsJustified ==
  ASSUME NEW v, v.page \subseteq DOMAIN Palette, NEW t, NEW p, NEW box, NEW action
  PROVE  Justified(v, t, p, box, align_click_to_xml_node(v, t, p, box, action))
BY EntriesAreJustified, ControlsAreJustified DEF align_click_to_xml_node

\* The click of a box: as the alignment has it, or to the only red create button.
LEMMA BoxIsClicked ==
  ASSUME NEW v, NEW t, NEW box, NEW identity, ClickBox(v, t, box, identity).type = "click"
  PROVE  LET r == ClickBox(v, t, box, identity)
             a == align_click_to_xml_node(v, t, Centre(box), box, "click")
         IN  /\ r.box = box
             /\ \/ /\ ~_alignment_rejection_blocks_click(a)
                   /\ r.point = a.point /\ r.xml = a
                \/ /\ _alignment_rejection_blocks_click(a) /\ t.create
                   /\ Cardinality(VisualButtons(v, t)) = 1
                   /\ r.point = Centre(Bounds(Only(VisualButtons(v, t))))
                   /\ r.xml = Snapped(Only(VisualButtons(v, t)), a.direct,
                                      "visual_floating_action_button_recovery", a.entry)
<1> DEFINE r == ClickBox(v, t, box, identity)
           a == align_click_to_xml_node(v, t, Centre(box), box, "click")
           button == find_visual_floating_action_button(v, t)
<1>1. \A reason : Refused(reason).type # "click"
  BY DEF Refused
<1>2. \A point, source, xml : /\ Clicked("click", point, box, source, xml).box = box
                              /\ Clicked("click", point, box, source, xml).point = point
                              /\ Clicked("click", point, box, source, xml).xml = xml
  BY DEF Clicked
<1>3. Cardinality(button) = 1 => t.create /\ button = VisualButtons(v, t)
  <2>1. Cardinality({}) = 0
    BY FS_EmptySet
  <2>2. QED
    BY <2>1 DEF find_visual_floating_action_button
<1> HIDE DEF a, button
<1>4. \/ \E reason : r = Refused(reason)
      \/ ~_alignment_rejection_blocks_click(a) /\ r = Clicked("click", a.point, box, "box", a)
      \/ /\ _alignment_rejection_blocks_click(a) /\ Cardinality(button) = 1
         /\ r = Clicked("click", Centre(Bounds(Only(button))), box, "visual",
                        Snapped(Only(button), a.direct, "visual_floating_action_button_recovery",
                                a.entry))
  BY DEF ClickBox, a, button
<1> HIDE DEF r
<1>5. r.type = "click"
  BY DEF r
<1>6. QED
  BY <1>1, <1>2, <1>3, <1>4, <1>5 DEF a, r

\* What the runner sent as a click of a box.
LEMMA RunnerClicked ==
  ASSUME AlignmentInv, record.type = "click", ByRunner,
         record.point # <<>> \/ asked.decision.kind # "coords"
  PROVE  /\ Chosen # <<>> /\ asked.decision.kind # "coords"
         /\ RunnerAnswer = ClickBox(view, asked.element, Chosen, IdentityTarget(view, asked.step))
         /\ RunnerAnswer.type = "click"
<1>1. /\ RunnerAnswer = handle_click_action(view, asked.element, asked.decision, Chosen,
                                            IdentityTarget(view, asked.step))
      /\ RunnerAnswer.type = "click" /\ RunnerAnswer.point = record.point
  BY RunnerDispatches DEF RunnerAnswer, OfTheFamily
<1>2. asked.decision.kind # "coords"
  BY <1>1 DEF handle_click_action, Clicked
<1>3. Chosen # <<>>
  BY <1>1, <1>2 DEF handle_click_action, Refused
<1>4. QED
  BY <1>1, <1>2, <1>3 DEF handle_click_action

\* For every page, target element and box a click is moved off the model's point only
\* to a node that is named, or centred in the box, or to the only red create button
\* (runner/mobiagent/mobiagent.py:2754-2990).
THEOREM HijackTheorem == AlignmentSpec => []NoHijack
<1>1. ASSUME AlignmentInv PROVE NoHijack
  <2> SUFFICES ASSUME record.type = "click", ByRunner, record.point # <<>>, record.point # ModelPoint
               PROVE  \E i \in _android_clickable_nodes(view) :
                        /\ record.point = Centre(Bounds(i))
                        /\ \/ _target_semantic_score(view, asked.element, i) > 0
                           \/ Inside(record.point, record.box)
                           \/ asked.element.create /\ VisualButtons(view, asked.element) = {i}
    BY DEF NoHijack
  <2> DEFINE a == align_click_to_xml_node(view, asked.element, Centre(Chosen), Chosen, "click")
             buttons == VisualButtons(view, asked.element)
  <2>1. /\ RunnerAnswer = ClickBox(view, asked.element, Chosen, IdentityTarget(view, asked.step))
        /\ RunnerAnswer.type = "click"
        /\ record.point = RunnerAnswer.point /\ record.box = RunnerAnswer.box
    BY <1>1, RunnerClicked, RunnerDispatches
  <2>2. /\ record.box = Chosen
        /\ \/ record.point = a.point
           \/ /\ asked.element.create /\ Cardinality(buttons) = 1
              /\ record.point = Centre(Bounds(Only(buttons)))
    BY <2>1, BoxIsClicked
  <2>3. view.page \subseteq DOMAIN Palette
    BY <1>1 DEF AlignmentInv
  <2>4. CASE record.point = a.point
    <3>1. Justified(view, asked.element, Centre(Chosen), Chosen, a)
      BY <2>3, AlignmentIsJustified
    <3> HIDE DEF a
    <3>2. a.point # Centre(Chosen)
      BY <2>2, <2>4 DEF ModelPoint
    <3>3. QED
      BY <2>2, <2>4, <3>1, <3>2 DEF Justified
  <2>5. CASE /\ asked.element.create /\ Cardinality(buttons) = 1
             /\ record.point = Centre(Bounds(Only(buttons)))
    <3>1. buttons \subseteq _android_clickable_nodes(view)
      BY DEF VisualButtons
    <3> HIDE DEF buttons
    <3>2. Only(buttons) \in buttons
      BY <2>5, OneIsSome
    <3>3. buttons = {Only(buttons)}
      <4>1. PICK x : buttons = {x}
        <5>1. IsFiniteSet(buttons)
          <6>1. buttons \subseteq view.page
            BY <3>1 DEF _android_clickable_nodes
          <6>2. QED
            BY <2>3, <6>1, PagesAreFinite, FS_Subset
        <5>2. QED
          BY <2>5, <5>1, FS_Singleton
      <4>2. QED
        BY <3>2, <4>1
    <3>4. QED
      BY <2>5, <3>1, <3>2, <3>3 DEF buttons
  <2>6. QED
    BY <2>2, <2>4, <2>5
<1>2. QED
  BY <1>1, AlignmentIsInvariant, PTL

\* When Decider and Grounder point at disjoint places of a dumped page, what is clicked
\* has a basis in the hierarchy, and the other box has none
\* (runner/mobiagent/mobiagent.py, the arbitration of the two boxes).
THEOREM DisagreementTheorem == AlignmentSpec => []DisagreementNeedsTheHierarchy
<1>1. ASSUME AlignmentInv PROVE DisagreementNeedsTheHierarchy
  <2> DEFINE decided == Native(asked.decision.box)
             grounded == Native(asked.grounded)
             other == IF record.box = decided THEN grounded ELSE decided
             supported(box) == _bbox_has_alignment_support(view, asked.element, box)
             a == align_click_to_xml_node(view, asked.element, Centre(Chosen), Chosen, "click")
  <2> SUFFICES ASSUME record.type = "click", ByRunner, asked.decision.kind = "bbox", ~asked.hook,
                      view.hierarchy, _is_usable_click_bbox(decided),
                      _bboxes_do_not_overlap(decided, grounded)
               PROVE  /\ record.box \in {decided, grounded}
                      /\ record.xml.basis # "" /\ record.xml.rejection = ""
                      /\ ~supported(other)
    BY DEF DisagreementNeedsTheHierarchy
  <2>1. /\ Chosen # <<>>
        /\ RunnerAnswer = ClickBox(view, asked.element, Chosen, IdentityTarget(view, asked.step))
        /\ RunnerAnswer.type = "click"
    BY <1>1, RunnerClicked
  <2>2. /\ record.box = Chosen
        /\ ~_alignment_rejection_blocks_click(a) => RunnerAnswer.xml = a
    BY <1>1, <2>1, BoxIsClicked, RunnerDispatches
  <2>3. \/ Chosen = grounded /\ supported(grounded) /\ ~supported(decided)
        \/ Chosen = decided /\ supported(decided) /\ ~supported(grounded)
    <3>1. Chosen = ArbitratedBox(view, asked.element, decided, grounded)
      BY DEF Chosen
    <3> HIDE DEF decided, grounded, a
    <3>2. QED
      BY <2>1, <3>1 DEF ArbitratedBox
  <2>4. supported(Chosen)
    BY <2>3
  <2>5. a.basis # "" /\ ~_alignment_rejection_blocks_click(a)
    BY <2>4 DEF _bbox_has_alignment_support
  <2>6. a.rejection = "" /\ _xml_hit_test_result_is_decisive(a)
    <3>1. view.page \subseteq DOMAIN Palette
      BY <1>1 DEF AlignmentInv
    <3>2. Justified(view, asked.element, Centre(Chosen), Chosen, a)
      BY <3>1, AlignmentIsJustified
    <3> HIDE DEF a
    <3>3. QED
      BY <2>5, <3>2 DEF Justified
  <2> HIDE DEF a
  <2>7. record.xml = a
    BY <1>1, <2>2, <2>5, <2>6, RunnerDispatches
  <2>8. ~supported(other)
    <3> HIDE DEF supported, decided, grounded
    <3>1. QED
      BY <2>2, <2>3
  <2>9. QED
    BY <2>2, <2>3, <2>5, <2>6, <2>7, <2>8
<1>2. QED
  BY <1>1, AlignmentIsInvariant, PTL

-----------------------------------------------------------------------------
(* What the gate may call a conformant target.                             *)

\* What an audit names, and why it counts.
Says(a, selected, direct, basis, rejection) ==
    /\ a.selected = selected /\ a.direct = direct
    /\ a.basis = basis /\ a.rejection = rejection

LEMMA SnappedSays ==
  ASSUME NEW i, NEW direct, NEW basis, NEW entry
  PROVE  Says(Snapped(i, direct, basis, entry), {i}, direct, basis, "")
BY DEF Says, Snapped, Audit

LEMMA KeptSays ==
  ASSUME NEW p, NEW selected, NEW direct, NEW basis, NEW entry
  PROVE  Says(Kept(p, selected, direct, basis, entry), selected, direct, basis, "")
BY DEF Says, Kept, Audit

\* An alignment to text entries that does not refuse the click has a basis.
LEMMA EntriesRest ==
  ASSUME NEW v, NEW t, NEW p, NEW nodes,
         ~_alignment_rejection_blocks_click(AlignEntry(v, t, p, nodes))
  PROVE  AlignEntry(v, t, p, nodes).rejection = "" /\ AlignEntry(v, t, p, nodes).basis # ""
<1> DEFINE inputs == {i \in nodes : _node_is_text_entry(i)}
           direct == Direct(nodes, p)
           meant  == {i \in inputs : _target_semantic_score(v, t, i) >= 4}
           hit    == direct \cap inputs
           a      == AlignEntry(v, t, p, nodes)
<1>1. a = AmongEntries(v, t, p, inputs, direct)
  BY DEF AlignEntry
<1>2. \/ \E i : \/ a = Snapped(i, direct, "semantic_text_entry_recovery", TRUE)
                \/ a = Snapped(i, direct, "unique_text_entry_semantic_recovery", TRUE)
      \/ a = Kept(p, hit, direct, "direct_text_entry_hit", TRUE)
      \/ \E reason \in {"ambiguous_text_entry_candidates",
                        "text_entry_candidate_semantics_insufficient",
                        "text_entry_target_rejects_non_input_node", "no_text_entry_candidate"} :
            a = Rejected(p, direct, reason, TRUE)
  <2> HIDE DEF inputs, direct, a
  <2>1. QED
    BY <1>1 DEF AmongEntries, hit
<1>3. \A reason : /\ Rejected(p, direct, reason, TRUE).rejection = reason
                  /\ Rejected(p, direct, reason, TRUE).entry = TRUE
  BY DEF Rejected, Audit
<1>4. ASSUME \/ \E i : \/ a = Snapped(i, direct, "semantic_text_entry_recovery", TRUE)
                       \/ a = Snapped(i, direct, "unique_text_entry_semantic_recovery", TRUE)
             \/ a = Kept(p, hit, direct, "direct_text_entry_hit", TRUE)
      PROVE  a.rejection = "" /\ a.basis # ""
  <2> HIDE DEF inputs, direct, meant, hit, a
  <2>1. \A i, basis : Says(Snapped(i, direct, basis, TRUE), {i}, direct, basis, "")
    BY SnappedSays
  <2>2. Says(Kept(p, hit, direct, "direct_text_entry_hit", TRUE), hit, direct, "direct_text_entry_hit", "")
    BY KeptSays
  <2>3. \E selected : \/ Says(a, selected, direct, "semantic_text_entry_recovery", "")
                      \/ Says(a, selected, direct, "unique_text_entry_semantic_recovery", "")
                      \/ Says(a, selected, direct, "direct_text_entry_hit", "")
    BY <1>4, <2>1, <2>2
  <2>4. QED
    BY <2>3 DEF Says
<1>5. ~_alignment_rejection_blocks_click(a)
  OBVIOUS
<1> HIDE DEF inputs, direct, meant, hit, a
<1>6. ASSUME NEW reason \in {"ambiguous_text_entry_candidates",
                             "text_entry_candidate_semantics_insufficient",
                             "text_entry_target_rejects_non_input_node", "no_text_entry_candidate"},
             a = Rejected(p, direct, reason, TRUE)
      PROVE  FALSE
  <2>1. a.rejection = reason /\ a.entry = TRUE
    BY <1>3, <1>6
  <2>2. QED
    BY <1>5, <2>1 DEF _alignment_rejection_blocks_click
<1>7. a.rejection = "" /\ a.basis # ""
  BY <1>2, <1>4, <1>6
<1>8. QED
  BY <1>7 DEF a

\* The greater and the lesser of two numbers.
LEMMA OfTwo ==
  ASSUME NEW x \in Int, NEW y \in Int
  PROVE  /\ Max({x, y}) = IF x >= y THEN x ELSE y
         /\ Min({x, y}) = IF x <= y THEN x ELSE y
<1> DEFINE S == {x, y}
<1>1. \E m \in S : \A k \in S : m >= k
  OBVIOUS
<1>2. \E m \in S : \A k \in S : m <= k
  OBVIOUS
<1>3. Max(S) \in S /\ \A k \in S : Max(S) >= k
  <2> HIDE DEF S
  <2>1. QED
    BY <1>1 DEF Max
<1>4. Min(S) \in S /\ \A k \in S : Min(S) <= k
  <2> HIDE DEF S
  <2>1. QED
    BY <1>2 DEF Min
<1>5. QED
  BY <1>3, <1>4

\* A box with an interior shares some of it with every node its centre is in.
LEMMA CentreShares ==
  ASSUME NEW b \in Int \X Int \X Int \X Int, Wide(b),
         NEW c \in Int \X Int \X Int \X Int, c[1] < c[3], c[2] < c[4], Inside(Centre(b), c)
  PROVE  Shared(b, c) > 0
<1>1. ASSUME NEW x1 \in Int, NEW x2 \in Int, NEW y1 \in Int, NEW y2 \in Int,
             x1 + 1 < x2, y1 < y2, y1 <= (x1 + x2) \div 2, (x1 + x2) \div 2 <= y2
      PROVE  Min({x2, y2}) - Max({x1, y1}) \in Nat \ {0}
  <2>1. x1 < (x1 + x2) \div 2 /\ (x1 + x2) \div 2 < x2
    BY <1>1
  <2>2. x1 < x2 /\ x1 < y2 /\ y1 < x2
    BY <1>1, <2>1
  <2>3. Min({x2, y2}) = (IF x2 <= y2 THEN x2 ELSE y2) /\ Max({x1, y1}) = (IF x1 >= y1 THEN x1 ELSE y1)
    BY OfTwo
  <2>4. QED
    BY <1>1, <2>2, <2>3
<1>2. \A k \in 1 .. 4 : b[k] \in Int /\ c[k] \in Int
  OBVIOUS
<1>3. /\ Min({b[3], c[3]}) - Max({b[1], c[1]}) \in Nat \ {0}
      /\ Min({b[4], c[4]}) - Max({b[2], c[2]}) \in Nat \ {0}
  BY <1>1, <1>2 DEF Wide, Inside, Centre
<1>4. \A x, y \in Nat \ {0} : x > 0 /\ y > 0 /\ x * y > 0
  OBVIOUS
<1>5. QED
  BY <1>3, <1>4 DEF Shared

\* A control that is hit by the centre of a wide box is a candidate.
LEMMA ControlsRest ==
  ASSUME NEW v, v.page \subseteq DOMAIN Palette, NEW t, NEW box \in Int \X Int \X Int \X Int,
         Wide(box), NEW nodes, nodes = _android_clickable_nodes(v),
         ~_alignment_rejection_blocks_click(AlignControl(v, t, Centre(box), box, nodes)),
         AlignControl(v, t, Centre(box), box, nodes).direct # {}
  PROVE  AlignControl(v, t, Centre(box), box, nodes).rejection = ""
<1> DEFINE p == Centre(box)
           direct == Direct(nodes, p)
           scored == {i \in nodes : _target_semantic_score(v, t, i) > 0}
           candidates == {i \in nodes : \/ Shared(box, Bounds(i)) > 0
                                        \/ Distance2(Centre(Bounds(i)), p) <= Square(64)}
           a == AlignControl(v, t, p, box, nodes)
<1>1. a = AmongControls(v, t, p, box, direct, scored, candidates)
  BY DEF AlignControl
<1>2. ~_alignment_rejection_blocks_click(a) /\ a.direct # {}
  OBVIOUS
<1>3. direct \subseteq candidates
  <2>1. ASSUME NEW i \in direct PROVE i \in candidates
    <3>1. i \in nodes /\ Inside(Centre(box), Bounds(i)) /\ i \in DOMAIN Palette
      BY DEF Direct, _android_clickable_nodes
    <3>2. Shared(box, Bounds(i)) > 0
      BY <3>1, NodesHaveBounds, CentreShares
    <3>3. QED
      BY <3>1, <3>2
  <2>2. QED
    BY <2>1
<1>4. \/ a.rejection = ""
      \/ a = Rejected(p, direct, "no_candidate", FALSE) /\ candidates = {}
      \/ a.rejection \in {"semantic_descendant_candidate_missing",
                          "ambiguous_semantic_descendant_candidates",
                          "geometry_only_rejects_low_information_container",
                          "weak_geometry_without_semantics"}
  <2> HIDE DEF direct, scored, candidates, p, a
  <2>1. QED
    BY <1>1 DEF AmongControls, Kept, Rejected, Snapped, Audit
<1>5. Rejected(p, direct, "no_candidate", FALSE).direct = direct
  BY DEF Rejected, Audit
<1> HIDE DEF direct, scored, candidates, p, a
<1>6. a.rejection = ""
  BY <1>2, <1>3, <1>4, <1>5 DEF _alignment_rejection_blocks_click
<1>7. QED
  BY <1>6 DEF a, p

LEMMA AlignmentRests ==
  ASSUME NEW v, v.page \subseteq DOMAIN Palette, NEW t, NEW box \in Int \X Int \X Int \X Int,
         Wide(box), NEW action,
         ~_alignment_rejection_blocks_click(align_click_to_xml_node(v, t, Centre(box), box, action)),
         align_click_to_xml_node(v, t, Centre(box), box, action).direct # {}
  PROVE  align_click_to_xml_node(v, t, Centre(box), box, action).rejection = ""
BY EntriesRest, ControlsRest DEF align_click_to_xml_node

\* The boxes of a step are boxes, and stay so when they are turned into device pixels.
AskedInv == asked.decision.box \in Boxes /\ asked.grounded \in Boxes

LEMMA AskedInvariant == AlignmentSpec => []AskedInv
<1>1. AlignmentInit => AskedInv
  BY DEF AlignmentInit, AskedInv, Answers
<1>2. AskedInv /\ [AlignmentNext]_alignmentVars => AskedInv'
  BY DEF AskedInv, AlignmentNext, alignmentVars, DispatchHierarchyTarget, DispatchRunnerDecision, Judge
<1>3. QED
  BY <1>1, <1>2, PTL DEF AlignmentSpec

LEMMA NativeIsABox ==
  ASSUME NEW b \in Boxes
  PROVE  Native(b) \in Int \X Int \X Int \X Int
<1>1. \A n, high \in Int : _clamp(n, high) \in Int
  <2>1. ASSUME NEW n \in Int, NEW high \in Int PROVE _clamp(n, high) \in Int
    <3>1. Min({high, n}) \in Int
      BY OfTwo
    <3>2. QED
      BY <3>1, OfTwo DEF _clamp
  <2>2. QED
    BY <2>1
<1>2. \A values, extent : _resized_pixel_axis_scale(values, extent) \in {1, 2}
  BY DEF _resized_pixel_axis_scale
<1>3. b[1] \in Int /\ b[2] \in Int /\ b[3] \in Int /\ b[4] \in Int /\ Width \in Int /\ Height \in Int
  <2>1. b \in Int \X Int \X Int \X Int /\ Width \in Nat /\ Height \in Nat
    BY PagesAssumption
  <2>2. QED
    BY <2>1
<1> DEFINE sx == _resized_pixel_axis_scale({b[1], b[3]}, Width)
           sy == _resized_pixel_axis_scale({b[2], b[4]}, Height)
<1>4. sx \in {1, 2} /\ sy \in {1, 2}
  BY <1>2
<1>5. Native(b) = <<_clamp(b[1] * sx, Width - 1), _clamp(b[2] * sy, Height - 1),
                    _clamp(b[3] * sx, Width - 1), _clamp(b[4] * sy, Height - 1)>>
  BY DEF Native, convert_qwen3_coordinates_to_absolute
<1> HIDE DEF sx, sy
<1>6. /\ b[1] * sx \in Int /\ b[2] * sy \in Int /\ b[3] * sx \in Int /\ b[4] * sy \in Int
      /\ Width - 1 \in Int /\ Height - 1 \in Int
  BY <1>3, <1>4
<1>7. \A w, x, y, z \in Int : <<w, x, y, z>> \in Int \X Int \X Int \X Int
  OBVIOUS
<1>8. /\ _clamp(b[1] * sx, Width - 1) \in Int /\ _clamp(b[2] * sy, Height - 1) \in Int
      /\ _clamp(b[3] * sx, Width - 1) \in Int /\ _clamp(b[4] * sy, Height - 1) \in Int
  BY <1>1, <1>6
<1>9. QED
  BY <1>5, <1>7, <1>8

\* A target the hierarchy gives is a visible node of the page.
LEMMA SmallestContainer ==
  ASSUME NEW v, v.page \subseteq DOMAIN Palette, NEW b
  PROVE  _smallest_clickable_container(v, b) \subseteq Shows(v)
<1> DEFINE height(c) == c[4] - c[2]
           around == {i \in v.page : /\ Palette[i].clickable /\ Palette[i].visible
                                     /\ _bounds_contains(Bounds(i), b)
                                     /\ Area(Bounds(i)) <= 60 * Max({1, Area(b)})
                                     /\ height(Bounds(i)) <= Max({260, 5 * height(b)})}
<1>1. around \subseteq Shows(v) /\ around \in SUBSET DOMAIN Palette
  BY DEF Shows
<1>2. _smallest_clickable_container(v, b) = IF around = {} THEN {} ELSE {Smallest(around)}
  BY DEF _smallest_clickable_container
<1> HIDE DEF around
<1>3. around # {} => Smallest(around) \in around
  BY <1>1, SomeIsSmallest
<1>4. QED
  BY <1>1, <1>2, <1>3

LEMMA ExactNodes ==
  ASSUME NEW v, v.page \subseteq DOMAIN Palette, NEW texts, NEW m \in ExactMatches(v, texts)
  PROVE  m.node \in Shows(v)
<1> DEFINE container(i) == _smallest_clickable_container(v, Bounds(i))
<1>1. \A i : container(i) \subseteq Shows(v)
  BY SmallestContainer
<1> HIDE DEF container
<1>2. \A i : container(i) # {} => (CHOOSE n \in container(i) : TRUE) \in Shows(v)
  <2>1. \A i : container(i) # {} => (CHOOSE n \in container(i) : TRUE) \in container(i)
    OBVIOUS
  <2>2. QED
    BY <1>1, <2>1
<1>3. \/ \E i \in v.page : /\ container(i) # {}
                           /\ m = [text |-> i, node |-> CHOOSE n \in container(i) : TRUE]
      \/ \E i \in v.page : Palette[i].visible /\ m = [text |-> i, node |-> i]
  BY DEF ExactMatches, container
<1>4. QED
  BY <1>2, <1>3 DEF Shows

LEMMA HierarchyTargetsShow ==
  ASSUME view.page \subseteq DOMAIN Palette, NEW i \in HierarchyTargets
  PROVE  i \in Shows(view)
<1> DEFINE texts == asked.step.texts
           exact == _resolve_exact_text_target(view, texts)
<1>1. \A m \in ExactMatches(view, texts) : m.node \in Shows(view)
  BY ExactNodes
<1>2. exact \subseteq Shows(view)
  <2> DEFINE matches == {m.node : m \in ExactMatches(view, texts)}
             clickable == {m \in ExactMatches(view, texts) : Palette[m.node].clickable}
  <2>1. \/ exact = {}
        \/ matches # {} /\ exact = {Only(matches)}
        \/ Cardinality(clickable) = 1 /\ exact = {Only(clickable).node}
    <3> HIDE DEF matches, clickable
    <3>1. exact = IF matches = {} THEN {}
                  ELSE IF Cardinality({Bounds(j) : j \in matches}) = 1 THEN {Only(matches)}
                  ELSE IF Cardinality(clickable) = 1 THEN {Only(clickable).node}
                  ELSE {}
      BY DEF _resolve_exact_text_target, matches, clickable
    <3>2. QED
      BY <3>1
  <2>2. matches \subseteq Shows(view) /\ \A m \in clickable : m.node \in Shows(view)
    BY <1>1
  <2> HIDE DEF matches, clickable, exact
  <2>3. matches # {} => Only(matches) \in matches
    BY DEF Only
  <2>4. Cardinality(clickable) = 1 => Only(clickable) \in clickable
    BY OneIsSome
  <2>5. QED
    BY <2>1, <2>2, <2>3, <2>4
<1>3. _resolve_target(view, texts) \subseteq Shows(view)
  BY DEF _resolve_target, Shows
<1>4. _resolve_decider_aligned_text_target(view, asked.step, asked.decision) \subseteq Shows(view)
  BY <1>1 DEF _resolve_decider_aligned_text_target
<1>5. _resolve_hierarchy_control_target(view, asked.step) \subseteq Shows(view)
  BY <1>2, <1>3 DEF _resolve_hierarchy_control_target
<1>6. QED
  BY <1>4, <1>5 DEF HierarchyTargets

\* What the gate needs to call the target of a runner's record conformant.
LEMMA ConformantMeans ==
  ASSUME NEW v, NEW s, NEW r, ~r.clicked, _target_conformance(v, s, r) = "CONFORMANT"
  PROVE  /\ r.point # <<>>
         /\ \E i \in r.xml.selected \cup r.xml.direct : Inside(r.point, Bounds(i))
         /\ r.xml.rejection # "outside_target"
         /\ r.xml.direct # {} \/ r.xml.basis # ""
<1>1. /\ _click_dispatch_conformance(r) = "CONFORMANT"
      /\ _xml_hit_test_conformance(v, s, r) = "CONFORMANT"
  BY DEF _target_conformance
<1>2. /\ r.point # <<>>
      /\ \E b \in {Bounds(i) : i \in r.xml.selected \cup r.xml.direct} : Inside(r.point, b)
  BY <1>1 DEF _click_dispatch_conformance
<1>3. /\ r.xml.rejection # "outside_target"
      /\ \/ r.xml.direct # {} \/ r.xml.basis = "direct_supported_hit"
         \/ r.xml.snapped /\ r.xml.basis # ""
  BY <1>1 DEF _xml_hit_test_conformance
<1>4. QED
  BY <1>2, <1>3

\* What the executor's own hit test finds.
Found(p, direct, selected, basis, rejection) ==
    [Audit(p, FALSE, selected, direct, basis, rejection, FALSE) EXCEPT !.seen = "frame"]

LEMMA FoundSays ==
  ASSUME NEW p, NEW direct, NEW selected, NEW basis, NEW rejection
  PROVE  Says(Found(p, direct, selected, basis, rejection), selected, direct, basis, rejection)
BY DEF Says, Found, Audit

LEMMA FrameHitShows ==
  ASSUME NEW v, v.page \subseteq DOMAIN Palette, NEW r
  PROVE  /\ FrameHitTest(v, r).selected \cup FrameHitTest(v, r).direct \subseteq Shows(v)
         /\ r.type = "click" => FrameHitTest(v, r).rejection \in {"", "outside_target"}
<1> DEFINE direct == {i \in v.page : _node_supports_runtime_hit(i) /\ Inside(r.point, Bounds(i))}
           inputs == {i \in direct : _node_is_text_entry(i)}
           a == FrameHitTest(v, r)
<1>1. direct \subseteq Shows(v) /\ direct \in SUBSET DOMAIN Palette /\ inputs \subseteq direct
  BY DEF Shows, _node_supports_runtime_hit
<1>2. a = IF direct = {} THEN Found(r.point, direct, {}, "hierarchy_hit_test", "outside_target")
          ELSE IF r.type = "click" THEN Found(r.point, direct, {Smallest(direct)}, "direct_supported_hit", "")
          ELSE IF Cardinality(inputs) = 1 THEN Found(r.point, direct, inputs, "direct_text_entry_hit", "")
          ELSE Found(r.point, direct, {Smallest(direct)}, "hierarchy_hit_test",
                     IF inputs = {} THEN "text_entry_target_rejects_non_input_node"
                     ELSE "ambiguous_text_entry_candidates")
  BY DEF FrameHitTest, Found
<1> HIDE DEF direct, inputs, a
<1>3. direct # {} => Smallest(direct) \in direct
  BY <1>1, SomeIsSmallest
<1>4. \A selected, basis, rejection :
        Says(Found(r.point, direct, selected, basis, rejection), selected, direct, basis, rejection)
  BY FoundSays
<1>5. \E selected, basis, rejection :
        /\ Says(a, selected, direct, basis, rejection) /\ selected \subseteq direct
        /\ r.type = "click" => rejection \in {"", "outside_target"}
  <2>1. CASE direct = {}
    BY <1>2, <1>4, <2>1
  <2>2. CASE direct # {} /\ r.type = "click"
    <3>1. {Smallest(direct)} \subseteq direct
      BY <1>3, <2>2
    <3>2. Says(a, {Smallest(direct)}, direct, "direct_supported_hit", "")
      BY <1>2, <1>4, <2>2
    <3>3. QED
      BY <3>1, <3>2
  <2>3. CASE direct # {} /\ r.type # "click" /\ Cardinality(inputs) = 1
    <3>1. Says(a, inputs, direct, "direct_text_entry_hit", "")
      BY <1>2, <1>4, <2>3
    <3>2. QED
      BY <1>1, <2>3, <3>1
  <2>4. CASE direct # {} /\ r.type # "click" /\ Cardinality(inputs) # 1
    <3>1. \E reason : a = Found(r.point, direct, {Smallest(direct)}, "hierarchy_hit_test", reason)
      BY <1>2, <2>4
    <3>2. \E reason : Says(a, {Smallest(direct)}, direct, "hierarchy_hit_test", reason)
      BY <1>4, <3>1
    <3>3. {Smallest(direct)} \subseteq direct
      BY <1>3, <2>4
    <3>4. QED
      BY <2>4, <3>2, <3>3
  <2>5. QED
    BY <2>1, <2>2, <2>3, <2>4
<1>6. QED
  BY <1>1, <1>5 DEF a, Says

\* The evidence of what the runner sent: visible nodes, and no rejection if they count.
Rests(xml, box) ==
    /\ xml.selected \cup xml.direct \subseteq Shows(view)
    /\ Wide(box) /\ (xml.direct # {} \/ xml.basis # "") => xml.rejection = ""

LEMMA ClickRests ==
  ASSUME AlignmentInv, AskedInv, record.type = "click", ByRunner, record.point # <<>>
  PROVE  Rests(RunnerAnswer.xml, record.box)
<1> DEFINE a == align_click_to_xml_node(view, asked.element, Centre(Chosen), Chosen, "click")
           buttons == VisualButtons(view, asked.element)
<1>1. /\ RunnerAnswer = ClickBox(view, asked.element, Chosen, IdentityTarget(view, asked.step))
      /\ RunnerAnswer.type = "click" /\ Chosen # <<>> /\ record.box = RunnerAnswer.box
  BY RunnerClicked, RunnerDispatches
<1>2. /\ record.box = Chosen
      /\ \/ ~_alignment_rejection_blocks_click(a) /\ RunnerAnswer.xml = a
         \/ /\ Cardinality(buttons) = 1
            /\ RunnerAnswer.xml = Snapped(Only(buttons), a.direct,
                                          "visual_floating_action_button_recovery", a.entry)
  BY <1>1, BoxIsClicked
<1>3. view.page \subseteq DOMAIN Palette
  BY DEF AlignmentInv
<1>4. Justified(view, asked.element, Centre(Chosen), Chosen, a)
  BY <1>3, AlignmentIsJustified
<1>5. Chosen \in Int \X Int \X Int \X Int
  <2>1. Chosen \in {Native(asked.decision.box), Native(asked.grounded)}
    BY <1>1 DEF Chosen, ArbitratedBox
  <2>2. QED
    BY <2>1, NativeIsABox DEF AskedInv
<1>6. CASE ~_alignment_rejection_blocks_click(a) /\ RunnerAnswer.xml = a
  <2>1. Wide(Chosen) /\ a.direct # {} => a.rejection = ""
    BY <1>3, <1>5, <1>6, AlignmentRests
  <2> HIDE DEF a
  <2>2. QED
    BY <1>2, <1>4, <1>6, <2>1 DEF Rests, Justified
<1>7. CASE /\ Cardinality(buttons) = 1
           /\ RunnerAnswer.xml = Snapped(Only(buttons), a.direct,
                                         "visual_floating_action_button_recovery", a.entry)
  <2>1. buttons \subseteq Shows(view)
    BY DEF VisualButtons, _android_clickable_nodes, Shows
  <2> HIDE DEF a, buttons
  <2>2. Only(buttons) \in buttons
    BY <1>7, OneIsSome
  <2>3. /\ RunnerAnswer.xml.selected = {Only(buttons)} /\ RunnerAnswer.xml.direct = a.direct
        /\ RunnerAnswer.xml.rejection = ""
    <3> DEFINE basis == "visual_floating_action_button_recovery"
    <3>1. \A i, direct, entry : Says(Snapped(i, direct, basis, entry), {i}, direct, basis, "")
      BY SnappedSays
    <3>2. Says(RunnerAnswer.xml, {Only(buttons)}, a.direct, basis, "")
      BY <1>7, <3>1
    <3>3. QED
      BY <3>2 DEF Says
  <2>4. QED
    BY <1>4, <2>1, <2>2, <2>3 DEF Rests, Justified
<1>8. QED
  BY <1>2, <1>6, <1>7

LEMMA TypingRests ==
  ASSUME AlignmentInv, record.type = "click_input", ByRunner
  PROVE  Rests(RunnerAnswer.xml, record.box) /\ record.xml = RunnerAnswer.xml
<1> DEFINE native == convert_qwen3_coordinates_to_absolute(asked.decision.box)
           p   == Centre(native)
           box == IF asked.decision.kind = "coords" THEN <<p[1], p[2], p[1], p[2]>> ELSE native
           a   == align_click_to_xml_node(view, asked.element, p, box, "click_input")
<1>1. /\ RunnerAnswer = handle_click_input_action(view, asked.element, asked.decision)
      /\ RunnerAnswer.type = "click_input"
  BY RunnerDispatches DEF RunnerAnswer, OfTheFamily
<1>2. RunnerAnswer = IF _alignment_rejection_blocks_click(a) THEN Refused(a.rejection)
                     ELSE Clicked("click_input", a.point, box, "box", a)
  BY <1>1 DEF handle_click_input_action
<1>3. a = AlignEntry(view, asked.element, p, _android_clickable_nodes(view))
  BY DEF align_click_to_xml_node, _target_wants_text_entry
<1>4. view.page \subseteq DOMAIN Palette
  BY DEF AlignmentInv
<1>5. Justified(view, asked.element, p, box, a)
  BY <1>4, AlignmentIsJustified
<1> HIDE DEF a, box, p, native
<1>6. ~_alignment_rejection_blocks_click(a) /\ RunnerAnswer.xml = a
  BY <1>1, <1>2 DEF Refused, Clicked
<1>7. a.rejection = "" /\ a.basis # ""
  <2>1. ~_alignment_rejection_blocks_click(
           AlignEntry(view, asked.element, p, _android_clickable_nodes(view)))
    BY <1>3, <1>6
  <2>2. QED
    BY <1>3, <2>1, EntriesRest
<1>8. _xml_hit_test_result_is_decisive(a) /\ a.selected \cup a.direct \subseteq Shows(view)
  BY <1>5, <1>7 DEF Justified
<1>9. QED
  BY <1>6, <1>7, <1>8, RunnerDispatches DEF Rests

\* An answer of the runner that names a point was dispatched, as a click or typing.
LEMMA RunnerPoints ==
  ASSUME RunnerAnswer.point # <<>>
  PROVE  RunnerAnswer.dispatched = TRUE /\ RunnerAnswer.type # "none"
<1>1. \A reason : Refused(reason).point = <<>>
  BY DEF Refused
<1>2. \A type, point, b, source, xml :
        /\ Clicked(type, point, b, source, xml).dispatched = TRUE
        /\ Clicked(type, point, b, source, xml).type = type
  BY DEF Clicked
<1>3. \/ \E reason : RunnerAnswer = Refused(reason)
      \/ \E type \in {"click", "click_input"} : \E point, b, source, xml :
            RunnerAnswer = Clicked(type, point, b, source, xml)
  BY DEF RunnerAnswer, handle_click_action, handle_click_input_action, ClickBox
<1>4. QED
  BY <1>1, <1>2, <1>3

LEMMA RunnerHandsOver == RunnerAnswer.clicked = FALSE
<1>1. \A reason : Refused(reason).clicked = FALSE
  BY DEF Refused
<1>2. \A type, point, b, source, xml : Clicked(type, point, b, source, xml).clicked = FALSE
  BY DEF Clicked
<1>3. QED
  BY <1>1, <1>2 DEF RunnerAnswer, handle_click_action, handle_click_input_action, ClickBox

\* For every page and box a click with conformant evidence landed in a node the page
\* shows, and the alignment of a wide box had not rejected it: the gate proves no more
\* than the runner knew (src/app_test_agent/step_gate.py:905-990).
THEOREM AlignedTheorem == AlignmentSpec => []ConformantClicksWereAligned
<1>1. ASSUME AlignmentInv, AskedInv PROVE ConformantClicksWereAligned
  <2> SUFFICES ASSUME target = "CONFORMANT"
               PROVE  /\ \E i \in Shows(view) : Inside(record.point, Bounds(i))
                      /\ Wide(record.box) => record.xml.rejection = ""
    BY DEF ConformantClicksWereAligned, Shows
  <2>1. /\ _target_conformance(view, asked.step, record) = "CONFORMANT"
        /\ record # Undispatched /\ view.page \subseteq DOMAIN Palette
    BY <1>1 DEF AlignmentInv
  <2>2. ASSUME NEW i \in HierarchyTargets, record = _dispatch_hierarchy_target(asked.step, i)
        PROVE  /\ \E j \in Shows(view) : Inside(record.point, Bounds(j))
               /\ Wide(record.box) => record.xml.rejection = ""
    <3>1. i \in Shows(view) /\ i \in DOMAIN Palette
      BY <2>1, HierarchyTargetsShow DEF Shows
    <3>2. record.point = Centre(Bounds(i)) /\ record.xml.rejection = ""
      BY <2>2 DEF _dispatch_hierarchy_target, Audit
    <3>3. Inside(Centre(Bounds(i)), Bounds(i))
      <4>1. /\ Bounds(i) \in Int \X Int \X Int \X Int
            /\ Bounds(i)[1] <= Bounds(i)[3] /\ Bounds(i)[2] <= Bounds(i)[4]
        BY <3>1, NodesHaveBounds
      <4>2. QED
        BY <4>1, CentreIsInside
    <3>4. QED
      BY <3>1, <3>2, <3>3
  <2>3. ASSUME record = _attach_hierarchy_hit_test_evidence(view, RunnerAnswer)
        PROVE  /\ \E j \in Shows(view) : Inside(record.point, Bounds(j))
               /\ Wide(record.box) => record.xml.rejection = ""
    <3>1. Answer(RunnerAnswer) /\ OfTheFamily(RunnerAnswer)
      <4>1. CASE asked.step.family = "INPUT"
        BY <4>1, HandlersAnswer DEF RunnerAnswer, OfTheFamily
      <4>2. CASE asked.step.family # "INPUT"
        BY <4>2, HandlersAnswer DEF RunnerAnswer, OfTheFamily
      <4>3. QED
        BY <4>1, <4>2
    <3>2. /\ record.dispatched = RunnerAnswer.dispatched /\ record.clicked = FALSE
          /\ record.point = RunnerAnswer.point /\ record.type = RunnerAnswer.type
      BY <2>3, <3>1, AttachmentKeeps, RunnerHandsOver
    <3>3. /\ record.point # <<>>
          /\ \E i \in record.xml.selected \cup record.xml.direct : Inside(record.point, Bounds(i))
          /\ record.xml.rejection # "outside_target"
          /\ record.xml.direct # {} \/ record.xml.basis # ""
      BY <2>1, <3>2, ConformantMeans
    <3>4. ByRunner /\ record.type \in {"click", "click_input"}
      BY <3>1, <3>2, <3>3, RunnerPoints DEF ByRunner, OfTheFamily
    <3>5. Rests(record.xml, record.box)
      <4>1. CASE record.type = "click_input"
        BY <1>1, <3>4, <4>1, TypingRests
      <4>2. CASE record.type = "click"
        <5>1. Rests(RunnerAnswer.xml, record.box)
          BY <1>1, <3>3, <3>4, <4>2, ClickRests
        <5>2. record.xml = RunnerAnswer.xml \/ record.xml = FrameHitTest(view, RunnerAnswer)
          BY <1>1, <3>4, RunnerDispatches
        <5>3. record.xml = FrameHitTest(view, RunnerAnswer) =>
                /\ record.xml.selected \cup record.xml.direct \subseteq Shows(view)
                /\ record.xml.rejection \in {"", "outside_target"}
          BY <2>1, <3>2, <4>2, FrameHitShows
        <5>4. QED
          BY <3>3, <5>1, <5>2, <5>3 DEF Rests
      <4>3. QED
        BY <3>4, <4>1, <4>2
    <3>6. QED
      BY <3>3, <3>5 DEF Rests
  <2>4. QED
    BY <1>1, <2>1, <2>2, <2>3 DEF AlignmentInv
<1>2. QED
  BY <1>1, AlignmentIsInvariant, AskedInvariant, PTL
=============================================================================

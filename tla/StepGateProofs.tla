--------------------------- MODULE StepGateProofs ---------------------------
(***************************************************************************)
(* What the Step Gate answers, for every step, action record and view: the *)
(* facts that the proofs about StepGateCases and about the executor cite.  *)
(***************************************************************************)
EXTENDS StepGate, WellFoundedInduction, TLAPS

(* A nonempty set of positions has a least element. *)
LEMMA LeastPosition ==
    ASSUME NEW S \in SUBSET Nat, S # {}
    PROVE  /\ (CHOOSE i \in S : \A j \in S : i <= j) \in S
           /\ \A j \in S : (CHOOSE i \in S : \A k \in S : i <= k) <= j
<1> DEFINE Before == {ss \in Nat \X Nat : ss[1] < ss[2]}
<1>1. IsWellFoundedOn(Before, Nat)
  BY NatLessThanWellFounded DEF OpToRel
<1>2. \E x \in S : \A y \in S : ~ (<<y, x>> \in Before)
  <2> HIDE DEF Before
  <2> QED BY <1>1, WFMin
<1>3. \A x, y \in S : <<y, x>> \notin Before => x <= y
  BY DEF Before
<1>4. \E i \in S : \A j \in S : i <= j
  <2> HIDE DEF Before
  <2> QED BY <1>2, <1>3
<1>5. QED
  BY <1>4

MicroGateAnswers == [decision : Decisions, target : Targets]

(* The micro-gate that _goal_micro_blocking_result returns is one of the   *)
(* record's, and it blocks.                                                *)
LEMMA BlockingResult ==
    ASSUME NEW s, NEW a, a.micro \in Seq(MicroGateAnswers), MicroBlockers(s, a) # {}
    PROVE  /\ GoalMicroBlockingResult(s, a) \in MicroGateAnswers
           /\ GoalMicroBlockingResult(s, a).decision \in {"ENV_BLOCKED", "INCONCLUSIVE"}
<1>1. /\ MicroBlockers(s, a) \in SUBSET Nat
      /\ MicroBlockers(s, a) \subseteq DOMAIN a.micro
      /\ \A i \in MicroBlockers(s, a) : a.micro[i].decision \in {"ENV_BLOCKED", "INCONCLUSIVE"}
  BY DEF MicroBlockers
<1> DEFINE m == CHOOSE i \in MicroBlockers(s, a) : \A j \in MicroBlockers(s, a) : i <= j
<1>2. m \in MicroBlockers(s, a)
  <2> HIDE DEF m
  <2> SUFFICES (CHOOSE i \in MicroBlockers(s, a) : \A j \in MicroBlockers(s, a) : i <= j)
                 \in MicroBlockers(s, a)
    BY DEF m
  <2> QED BY <1>1, LeastPosition
<1>3. GoalMicroBlockingResult(s, a) = a.micro[m]
  BY DEF GoalMicroBlockingResult
<1> HIDE DEF m
<1>4. QED
  BY <1>1, <1>2, <1>3

(* A gate answers one of its five decisions.                               *)
LEMMA StepGateDecides ==
    ASSUME NEW s, NEW a, NEW v, NEW n, a.micro \in Seq(MicroGateAnswers)
    PROVE  EvaluateStepGate(s, a, v, n).decision \in Decisions
<1>1. MicroBlockers(s, a) # {} => GoalMicroBlockingResult(s, a).decision \in Decisions
  BY BlockingResult DEF Decisions
<1>2. QED
  BY <1>1 DEF EvaluateStepGate, ContextGate, NonConformantGate, ProgressGate, Gate, Decisions

(* A micro-gate answers a decision and names what it thought was hit.      *)
LEMMA MicroGateAnswersTyped ==
    ASSUME NEW s, NEW a, NEW v, a.target \in Targets, a.type # "gui_task"
    PROVE  /\ EvaluateMicroActionGate(s, a, v).decision \in Decisions
           /\ EvaluateMicroActionGate(s, a, v).target \in Targets
<1>1. TargetConformance(a) \in Targets
  BY DEF TargetConformance, Targets, Conformance
<1>2. DispatchConformance(s, a).target \in Targets
  BY <1>1 DEF DispatchConformance, Verdict, Targets, Conformance
<1>3. ActionConformance(s, a).target \in Targets
  BY <1>2 DEF ActionConformance, ControlConformance, Verdict, Targets, Conformance
<1>4. QED
  BY <1>3 DEF EvaluateMicroActionGate, Gate, Decisions, Targets, Conformance
=============================================================================

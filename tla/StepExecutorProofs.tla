------------------------- MODULE StepExecutorProofs -------------------------
(***************************************************************************)
(* What execute() keeps for every test case, retry budget, goal budget and *)
(* observation schedule: its type invariant, the order of the steps, the   *)
(* retry budget, the meaning of NO_REDISPATCH, silence after a failed      *)
(* step, the discipline of one-action test cases, the frames' screenshots, *)
(* the completeness of the actions it saves and of the audit of attempts.  *)
(***************************************************************************)
EXTENDS StepExecutor, StepGateProofs, SequenceTheorems

Acting  == {"decide", "goal", "observe", "settle"}
Running == Acting \cup {"attempt"}

(* Where the loop is, told by its results: every step before "step" is     *)
(* completed, and the run is over as soon as "step" has another result.    *)
Position ==
    /\ pc \in Running => step \in Steps /\ Len(results) = step - 1
    /\ pc = "setup" => step = 1 /\ attempt = 0 /\ results = <<>>
    /\ pc \in Acting => attempt > 0
    /\ pc = "attempt" => attempt <= Plan[step].retries
    /\ \A i \in DOMAIN results : results[i].step = i
    /\ \A i \in 1 .. step - 1 : i <= Len(results) /\ results[i].status = "STEP_COMPLETED"
    /\ Len(results) = step - 1
         \/ (Len(results) = step /\ results[step].status # "STEP_COMPLETED")
    /\ pc # "done" => saved = {}
    /\ pc \in {"write", "done"} => step = Len(Plan) + 1 \/ Len(results) = step

(* Nothing reached the app ahead of the current attempt, and a refusal to  *)
(* dispatch again is the last thing a run decides.                         *)
Reach ==
    /\ \A x \in inputs : x.step < step \/ (x.step = step /\ x.attempt <= attempt)
    /\ \A e \in audit : e.class = "NO_REDISPATCH" =>
            pc \in Over /\ e.step = step /\ e.attempt = attempt

ControlInv == ControlTypeOK /\ LogTypeOK /\ Position /\ Reach

-----------------------------------------------------------------------------
\* The plan gives each step a number of retries.
LEMMA RetriesAreNat ==
    ASSUME NEW i \in Steps
    PROVE  Plan[i].retries \in Nat
<1>1. Plan[i] \in StepRecord
  BY PlanAssumption DEF Steps
<1>2. QED
  BY <1>1 DEF StepRecord

\* execute() starts in the inductive invariant on its control.
LEMMA ControlInit == Init => ControlInv
<1> SUFFICES ASSUME Init PROVE ControlInv
  OBVIOUS
<1>1. Len(Plan) \in Nat \ {0}
  BY PlanAssumption
<1>2. ControlTypeOK
  BY <1>1 DEF Init, ControlTypeOK, Locations
<1>3. LogTypeOK
  BY DEF Init, LogTypeOK
<1>4. Position
  BY DEF Init, Position, Acting, Running
<1>5. Reach
  BY DEF Init, Reach
<1>6. QED
  BY <1>2, <1>3, <1>4, <1>5 DEF ControlInv

(* A step that ends otherwise than completed.                              *)
LEMMA StopWithKeeps ==
    ASSUME ControlInv, pc \in Acting,
           NEW status \in Statuses \ {"STEP_COMPLETED"}, NEW n \in Nat,
           StopWith(status, n),
           NEW class \in RetryClasses, NEW d \in BOOLEAN,
           audit' = audit \cup {Evidence(d, class)},
           inputs' \in {inputs, inputs \cup {Input("business")}},
           actions' \in {actions, actions \cup {Input("business")}},
           UNCHANGED <<actionIndex, saved>>
    PROVE  ControlInv'
<1>1. step \in Steps /\ Len(results) = step - 1 /\ results \in Seq(Result) /\ step \in Nat
  BY PlanAssumption DEF ControlInv, Position, Running, LogTypeOK, Steps
<1>2. /\ pc' = "write" /\ UNCHANGED <<step, attempt>>
      /\ results' = Append(results, [step |-> step, status |-> status, attempts |-> n])
  BY DEF StopWith, StepResult
<1>3. /\ results' \in Seq(Result) /\ Len(results') = step
      /\ \A i \in 1 .. step - 1 : results'[i] = results[i]
      /\ results'[step] = [step |-> step, status |-> status, attempts |-> n]
  <2>1. [step |-> step, status |-> status, attempts |-> n] \in Result
    BY <1>1 DEF Result
  <2>2. QED
    BY <1>1, <1>2, <2>1
<1>4. ControlTypeOK'
  BY <1>2 DEF ControlInv, ControlTypeOK, Locations
<1>5. LogTypeOK'
  <2>1. Input("business") \in Event
    BY <1>1 DEF Input, Event, Hows, ControlInv, ControlTypeOK
  <2>2. Evidence(d, class) \in AuditEntry
    BY <1>1 DEF Evidence, AuditEntry, ControlInv, ControlTypeOK
  <2>3. saved' = {}
    BY DEF ControlInv, Position, Acting
  <2>4. QED
    BY <1>3, <2>1, <2>2, <2>3 DEF LogTypeOK, ControlInv
<1>6. Position'
  BY <1>1, <1>2, <1>3 DEF ControlInv, Position, Acting, Running
<1>7. Reach'
  BY <1>1, <1>2 DEF ControlInv, ControlTypeOK, Reach, Acting, Over, Input, Evidence
<1>8. QED
  BY <1>4, <1>5, <1>6, <1>7 DEF ControlInv

(* A move inside an attempt, perhaps with an input to the app.             *)
LEMMA MoveKeeps ==
    ASSUME ControlInv, pc \in Acting, pc' \in Acting,
           inputs' \in {inputs, inputs \cup {Input("business")}},
           actions' \in {actions, actions \cup {Input("business")}},
           UNCHANGED <<step, attempt, actionIndex, results, audit, saved>>
    PROVE  ControlInv'
<1>1. step \in Steps /\ step \in Nat /\ saved = {}
  BY PlanAssumption DEF ControlInv, Position, Running, Acting, Steps
<1>2. ControlTypeOK'
  BY DEF ControlInv, ControlTypeOK, Locations, Acting
<1>3. LogTypeOK'
  <2>1. Input("business") \in Event
    BY <1>1 DEF Input, Event, Hows, ControlInv, ControlTypeOK
  <2>2. QED
    BY <1>1, <2>1 DEF LogTypeOK, ControlInv
<1>4. Position'
  BY <1>1 DEF ControlInv, Position, Acting, Running
<1>5. Reach'
  BY <1>1 DEF ControlInv, ControlTypeOK, Reach, Acting, Over, Input
<1>6. QED
  BY <1>2, <1>3, <1>4, <1>5 DEF ControlInv

(* The step is tried again: within the budget, and not after NO_REDISPATCH. *)
LEMMA RetryKeeps ==
    ASSUME ControlInv, pc \in Acting, pc' = "attempt",
           attempt <= Plan[step].retries,
           NEW class \in RetryClasses \ {"NO_REDISPATCH"}, NEW d \in BOOLEAN,
           audit' = audit \cup {Evidence(d, class)},
           inputs' \in {inputs, inputs \cup {Input("recovery")}},
           actions' \in {actions, actions \cup {Input("recovery")}},
           UNCHANGED <<step, attempt, actionIndex, results, saved>>
    PROVE  ControlInv'
<1>1. step \in Steps /\ step \in Nat /\ saved = {}
  BY PlanAssumption DEF ControlInv, Position, Running, Acting, Steps
<1>2. ControlTypeOK'
  BY DEF ControlInv, ControlTypeOK, Locations
<1>3. LogTypeOK'
  <2>1. Input("recovery") \in Event
    BY <1>1 DEF Input, Event, Hows, ControlInv, ControlTypeOK
  <2>2. Evidence(d, class) \in AuditEntry
    BY <1>1 DEF Evidence, AuditEntry, ControlInv, ControlTypeOK
  <2>3. QED
    BY <1>1, <2>1, <2>2 DEF LogTypeOK, ControlInv
<1>4. Position'
  BY <1>1 DEF ControlInv, Position, Acting, Running
<1>5. Reach'
  BY <1>1 DEF ControlInv, ControlTypeOK, Reach, Acting, Over, Input, Evidence
<1>6. QED
  BY <1>2, <1>3, <1>4, <1>5 DEF ControlInv

(* A step is completed and the next one begins.                            *)
LEMMA CompleteKeeps ==
    ASSUME ControlInv, pc = "settle", CompleteStep,
           NEW class \in RetryClasses \ {"NO_REDISPATCH"}, NEW d \in BOOLEAN,
           audit' = audit \cup {Evidence(d, class)},
           UNCHANGED <<actionIndex, inputs, actions, saved>>
    PROVE  ControlInv'
<1>1. /\ step \in Steps /\ step \in Nat /\ Len(results) = step - 1 /\ results \in Seq(Result)
      /\ Len(Plan) \in Nat /\ saved = {} /\ attempt \in Nat
  BY PlanAssumption DEF ControlInv, Position, Running, Acting, LogTypeOK, ControlTypeOK, Steps
<1> DEFINE r == [step |-> step, status |-> "STEP_COMPLETED", attempts |-> attempt]
<1>2. /\ step' = step + 1 /\ attempt' = 0
      /\ pc' = IF step = Len(Plan) THEN "write" ELSE "attempt"
      /\ results' = Append(results, r)
  BY DEF CompleteStep, StepResult
<1>3. /\ results' \in Seq(Result) /\ Len(results') = step
      /\ \A i \in 1 .. step - 1 : results'[i] = results[i]
      /\ results'[step] = r
  <2>1. r \in Result
    BY <1>1 DEF Result, Statuses
  <2> HIDE DEF r
  <2>2. QED
    BY <1>1, <1>2, <2>1
<1>4. ControlTypeOK'
  BY <1>1, <1>2 DEF ControlInv, ControlTypeOK, Locations, Steps
<1>5. LogTypeOK'
  <2>1. Evidence(d, class) \in AuditEntry
    BY <1>1 DEF Evidence, AuditEntry
  <2>2. QED
    BY <1>1, <1>3, <2>1 DEF LogTypeOK, ControlInv
<1>6. Position'
  <2>1. pc' = "attempt" => step + 1 \in Steps /\ 0 <= Plan[step + 1].retries
    BY <1>1, <1>2, RetriesAreNat DEF Steps
  <2>2. \A i \in 1 .. step : results'[i].status = "STEP_COMPLETED" /\ results'[i].step = i
    BY <1>1, <1>3 DEF ControlInv, Position
  <2>3. QED
    BY <1>1, <1>2, <1>3, <2>1, <2>2 DEF Position, Acting, Running
<1>7. Reach'
  <2>1. \A x \in inputs : x.step < step + 1
    BY <1>1 DEF ControlInv, LogTypeOK, Event, Reach, Steps
  <2>2. \A e \in audit' : e.class # "NO_REDISPATCH"
    BY DEF ControlInv, Reach, Over, Evidence
  <2>3. QED
    BY <1>2, <2>1, <2>2 DEF Reach
<1>8. QED
  BY <1>4, <1>5, <1>6, <1>7 DEF ControlInv

(* A failed dispatch answers RETRY only within the budget.                 *)
LEMMA DispatchFailure ==
    ASSUME NEW retryable, NEW n, NEW retries
    PROVE  LET g == EvaluateDispatchFailureGate(retryable, n, retries)
           IN  /\ g.decision \in {"RETRY", "TEST_EXECUTION_FAIL"}
               /\ g.decision = "RETRY" => n <= retries
BY DEF EvaluateDispatchFailureGate, Gate

\* An attempt without a usable target keeps the invariant.
LEMMA TargetNotFoundKeeps ==
    ASSUME ControlInv, pc \in Acting, NEW retryable \in BOOLEAN, TargetNotFound(retryable)
    PROVE  ControlInv'
<1> DEFINE g == EvaluateDispatchFailureGate(retryable, attempt, Plan[step].retries)
<1>1. /\ g.decision \in {"RETRY", "TEST_EXECUTION_FAIL"}
      /\ g.decision = "RETRY" => attempt <= Plan[step].retries
  BY DispatchFailure
<1>2. StepStatusFromGate(g.decision) \in Statuses \ {"STEP_COMPLETED"}
  BY DEF StepStatusFromGate, Statuses
<1>3. attempt \in Nat
  BY DEF ControlInv, ControlTypeOK
<1> HIDE DEF g
<1>4. CASE g.decision = "RETRY"
  <2>1. /\ pc' = "attempt"
        /\ audit' = audit \cup {Evidence(FALSE, "PRE_DISPATCH_RETRY")}
        /\ UNCHANGED <<step, attempt, actionIndex, results, actions, saved, inputs>>
    BY <1>4 DEF TargetNotFound, g
  <2>2. QED
    BY <1>1, <1>4, <2>1, RetryKeeps DEF RetryClasses
<1>5. CASE g.decision # "RETRY"
  <2>1. /\ StopWith(StepStatusFromGate(g.decision), attempt)
        /\ audit' = audit \cup {Evidence(FALSE, "NO_REDISPATCH")}
        /\ UNCHANGED <<actionIndex, actions, saved, inputs>>
    BY <1>5 DEF TargetNotFound, g
  <2>2. QED
    BY <1>2, <1>3, <2>1, StopWithKeeps DEF RetryClasses
<1>6. QED
  BY <1>4, <1>5

\* An attempt that ends by an exception keeps the invariant.
LEMMA StepRaisesKeeps ==
    ASSUME ControlInv, pc \in Acting,
           NEW touched \in BOOLEAN, NEW partial \in BOOLEAN, NEW blocker \in BOOLEAN,
           StepRaises(touched, partial, blocker)
    PROVE  ControlInv'
<1>1. attempt \in Nat
  BY DEF ControlInv, ControlTypeOK
<1>2. (IF blocker THEN "ENV_BLOCKED" ELSE IF partial THEN "INCONCLUSIVE" ELSE "STEP_FAILED")
        \in Statuses \ {"STEP_COMPLETED"}
  BY DEF Statuses
<1>3. QED
  BY <1>1, <1>2, StopWithKeeps DEF StepRaises, RetryClasses

\* A recovery keeps the invariant.
LEMMA RecoverKeeps ==
    ASSUME ControlInv, MayRecover, NEW class \in RecoveryClasses, Recover(class)
    PROVE  ControlInv'
<1>1. class \in RetryClasses \ {"NO_REDISPATCH"}
  BY DEF RecoveryClasses, RetryClasses
<1>2. QED
  BY <1>1, RetryKeeps DEF Recover, MayRecover, Settled, Acting

(* Every action keeps the control invariant.                               *)
LEMMA ControlStep == ControlInv /\ [Next]_vars => ControlInv'
<1> SUFFICES ASSUME ControlInv, [Next]_vars PROVE ControlInv'
  OBVIOUS
<1>0. 1 \in Steps /\ Len(Plan) \in Nat
  BY PlanAssumption DEF Steps
<1>1. CASE Setup
  <2>1. /\ pc = "setup" /\ pc' = "attempt"
        /\ UNCHANGED <<step, attempt, actionIndex, actions, audit, results, saved, inputs>>
    BY <1>1 DEF Setup
  <2>2. 0 <= Plan[1].retries
    BY <1>0, RetriesAreNat
  <2>3. QED
    BY <1>0, <2>1, <2>2 DEF ControlInv, ControlTypeOK, LogTypeOK, Position, Reach, Locations,
       Acting, Running, Over
<1>2. CASE SetupBlocked
  <2>1. /\ pc = "setup" /\ pc' = "blocked"
        /\ results' = <<[step |-> 1, status |-> "ENV_BLOCKED", attempts |-> 0]>>
        /\ UNCHANGED <<step, attempt, actionIndex, actions, audit, saved, inputs>>
    BY <1>2 DEF SetupBlocked, StepResult, ControlInv, Position
  <2>2. [step |-> 1, status |-> "ENV_BLOCKED", attempts |-> 0] \in Result
    BY <1>0 DEF Result, Statuses
  <2>3. ControlTypeOK' /\ LogTypeOK'
    BY <2>1, <2>2 DEF ControlInv, ControlTypeOK, LogTypeOK, Locations
  <2>4. Position' /\ Reach'
    BY <2>1 DEF ControlInv, Position, Reach, Acting, Running, Over
  <2>5. QED
    BY <2>3, <2>4 DEF ControlInv
<1>3. CASE SetupRaises
  BY <1>3 DEF SetupRaises, ControlInv, ControlTypeOK, LogTypeOK, Position, Reach, Locations,
     Acting, Running, Over, log
<1>4. CASE BeginAttempt
  <2>1. /\ pc = "attempt" /\ pc' \in {"goal", "decide"} /\ attempt' = attempt + 1
        /\ actionIndex' = actionIndex + 1
        /\ UNCHANGED <<step, actions, audit, results, saved, inputs>>
    BY <1>4 DEF BeginAttempt, log
  <2>2. \A x \in inputs : x.attempt \in Nat
    BY DEF ControlInv, LogTypeOK, Event
  <2>3. QED
    BY <2>1, <2>2 DEF ControlInv, ControlTypeOK, LogTypeOK, Position, Reach, Locations, Acting,
       Running, Over
<1>5. CASE Dispatch
  BY <1>5, MoveKeeps DEF Dispatch, Acting
<1>6. CASE ControlContinues
  BY <1>6, MoveKeeps DEF ControlContinues, Acting, log
<1>7. CASE ControlStops
  BY <1>7, MoveKeeps DEF ControlStops, Acting
<1>8. CASE AtomicTargetNotFound
  BY <1>8, TargetNotFoundKeeps DEF AtomicTargetNotFound, Acting
<1>9. CASE UnsupportedRealAction
  <2>1. pc \in Acting /\ attempt - 1 \in Nat
    BY <1>9 DEF UnsupportedRealAction, Acting, ControlInv, ControlTypeOK, Position
  <2>2. QED
    BY <1>9, <2>1, StopWithKeeps DEF UnsupportedRealAction, RetryClasses, Statuses
<1>10. CASE ModelRaises
  BY <1>10, StepRaisesKeeps DEF ModelRaises, CanAct, Acting
<1>11. CASE DeviceRaises
  <2>1. PICK type \in EmittedTypes, touched \in BOOLEAN :
          StepRaises(touched /\ Touches(type), type \in InputTypes, FALSE)
    BY <1>11 DEF DeviceRaises
  <2>2. pc \in Acting
    BY <1>11 DEF DeviceRaises, Acting
  <2>3. (touched /\ Touches(type)) \in BOOLEAN /\ (type \in InputTypes) \in BOOLEAN
    OBVIOUS
  <2>4. QED
    BY <2>1, <2>2, <2>3, StepRaisesKeeps
<1>12. CASE MicroAction
  BY <1>12, MoveKeeps DEF MicroAction, CanAct, Acting, log
<1>13. CASE GoalEnds
  BY <1>13, MoveKeeps DEF GoalEnds, Acting
<1>14. CASE GoalTargetNotFound
  BY <1>14, TargetNotFoundKeeps DEF GoalTargetNotFound, CanAct, Acting
<1>15. CASE GoalDeviceRaises
  BY <1>15, StepRaisesKeeps DEF GoalDeviceRaises, CanAct, Acting
<1>16. CASE Observe
  BY <1>16, MoveKeeps DEF Observe, Acting, log
<1>17. CASE Reobserve
  BY <1>17, MoveKeeps DEF Reobserve, Acting, log
<1>18. CASE GateContinues
  BY <1>18, CompleteKeeps DEF GateContinues, Settled, RetryClasses
<1>19. CASE DismissExternalOverlay
  BY <1>19, RecoverKeeps DEF DismissExternalOverlay, RecoveryClasses
<1>20. CASE RecoverNavigationContext
  BY <1>20, RecoverKeeps DEF RecoverNavigationContext, RecoveryClasses
<1>21. CASE GateStops
  BY <1>21, StopWithKeeps DEF GateStops, Settled, Acting, RetryClasses, Statuses,
     StepStatusFromGate, ControlInv, ControlTypeOK
<1>22. CASE CaptureRaises
  BY <1>22 DEF CaptureRaises, MayRecover, Settled, ControlInv, ControlTypeOK, LogTypeOK, Position,
     Reach, Locations, Acting, Running, Over, Input, Event, Hows, log
<1>23. CASE WriteActions
  BY <1>23 DEF WriteActions, ControlInv, ControlTypeOK, LogTypeOK, Position, Reach, Locations,
     Acting, Running, Over, log
<1>24. CASE UNCHANGED vars
  BY <1>24 DEF vars, ControlInv, ControlTypeOK, LogTypeOK, Position, Reach
<1>25. QED
  BY <1>1, <1>2, <1>3, <1>4, <1>5, <1>6, <1>7, <1>8, <1>9, <1>10, <1>11, <1>12, <1>13, <1>14,
     <1>15, <1>16, <1>17, <1>18, <1>19, <1>20, <1>21, <1>22, <1>23, <1>24 DEF Next, Finished

\* The inductive invariant on the control holds in every reachable state.
LEMMA ControlAlways == Spec => []ControlInv
<1>1. QED
  BY ControlInit, ControlStep, PTL DEF Spec

-----------------------------------------------------------------------------
(* Results come in the order of the steps, all but the last completed, and *)
(* the app is touched for a step only after every earlier one completed.   *)
THEOREM StepsInOrderTheorem == Spec => []StepsInOrder
<1>1. ControlInv => StepsInOrder
  <2> SUFFICES ASSUME ControlInv PROVE StepsInOrder
    OBVIOUS
  <2>1. /\ step \in Nat /\ results \in Seq(Result)
        /\ \A x \in inputs : x.step \in Nat /\ x.step <= step
    BY PlanAssumption DEF ControlInv, ControlTypeOK, LogTypeOK, Event, Steps, Reach
  <2>2. \A i \in DOMAIN results : results[i].step = i
    BY DEF ControlInv, Position
  <2>3. \A i \in 1 .. step - 1 : Completed(i)
    BY <2>1 DEF ControlInv, Position, Completed
  <2>4. ASSUME NEW i \in DOMAIN results, ~Completed(i)
        PROVE  i = Len(results) /\ pc \in Over
    <3>1. i = step /\ Len(results) = step
      BY <2>1, <2>3, <2>4 DEF ControlInv, Position
    <3>2. pc \in Over
      BY <2>1, <3>1 DEF ControlInv, ControlTypeOK, Position, Running, Acting, Locations, Over
    <3>3. QED
      BY <3>1, <3>2
  <2>5. \A x \in inputs : \A i \in 1 .. x.step - 1 : Completed(i)
    BY <2>1, <2>3
  <2>6. QED
    BY <2>2, <2>4, <2>5 DEF StepsInOrder
<1>2. QED
  BY <1>1, ControlAlways, PTL

(* The loop never leaves a started step without a result: between two      *)
(* attempts the budget is not exhausted, and a finished run has a result   *)
(* for every step or ends with one that is not STEP_COMPLETED.             *)
THEOREM AttemptsTheorem == Spec => []AttemptsNeverExhausted
<1>1. ControlInv => AttemptsNeverExhausted
  <2> SUFFICES ASSUME ControlInv PROVE AttemptsNeverExhausted
    OBVIOUS
  <2>1. results \in Seq(Result) /\ step \in Nat /\ Len(Plan) \in Nat
    BY PlanAssumption DEF ControlInv, ControlTypeOK, LogTypeOK, Steps
  <2>2. ASSUME pc = "done", Len(results) # Len(Plan)
        PROVE  results[Len(results)].status # "STEP_COMPLETED"
    <3>1. CASE Len(results) = step
      BY <2>1, <3>1 DEF ControlInv, Position
    <3>2. CASE Len(results) = step - 1
      BY <2>1, <2>2, <3>2 DEF ControlInv, Position
    <3>3. QED
      BY <3>1, <3>2 DEF ControlInv, Position
  <2>3. QED
    BY <2>2 DEF AttemptsNeverExhausted, ControlInv, Position
<1>2. QED
  BY <1>1, ControlAlways, PTL

(* What the audit calls NO_REDISPATCH is never dispatched again.           *)
THEOREM NoRedispatchTheorem == Spec => []NoRedispatchHolds
<1>1. ControlInv => NoRedispatchHolds
  BY DEF ControlInv, Reach, NoRedispatchHolds
<1>2. QED
  BY <1>1, ControlAlways, PTL

(* No input follows a result that is not STEP_COMPLETED.                   *)
THEOREM NoInputAfterFailureTheorem == Spec => NoInputAfterFailure
<1>1. ControlInv /\ [Next]_vars => [inputs' # inputs => \A i \in DOMAIN results : Completed(i)]_vars
  <2> SUFFICES ASSUME ControlInv, Next, inputs' # inputs
               PROVE  \A i \in DOMAIN results : Completed(i)
    BY DEF vars
  <2>1. pc \in Running
    BY DEF Next, Setup, SetupBlocked, SetupRaises, BeginAttempt, Dispatch, ControlContinues,
       ControlStops, AtomicTargetNotFound, UnsupportedRealAction, ModelRaises, DeviceRaises,
       MicroAction, CanAct, GoalEnds, GoalTargetNotFound, GoalDeviceRaises, TargetNotFound,
       Observe, Reobserve, GateContinues, DismissExternalOverlay, RecoverNavigationContext,
       MayRecover, Settled, GateStops, CaptureRaises, WriteActions, Finished, vars, Running, Acting
  <2>2. step \in Nat /\ Len(results) = step - 1 /\ results \in Seq(Result)
    BY <2>1, PlanAssumption DEF ControlInv, ControlTypeOK, LogTypeOK, Position, Steps
  <2>3. QED
    BY <2>2 DEF ControlInv, Position, Completed
<1>2. QED
  BY <1>1, ControlAlways, PTL DEF Spec, NoInputAfterFailure

-----------------------------------------------------------------------------
(* Every test case implements DispatchDiscipline.                           *)

(* Before the dispatch no action of the step is in force; after it, at     *)
(* most the attempt's own.                                                 *)
LiveInv ==
    /\ pc = "goal" => IsGoal(step)
    /\ pc \in {"setup", "attempt", "decide", "goal"} => Live = {}
    /\ pc \in {"observe", "settle"} => Live \subseteq {attempt}

(* What the actions do to the actions in force.                            *)
LEMMA LiveUnchanged ==
    ASSUME UNCHANGED <<step, inputs>>
    PROVE  Live' = Live
BY DEF Live

\* A goal has no action in force.
LEMMA GoalsKeepNothing ==
    ASSUME IsGoal(step), step' = step
    PROVE  Live' = {}
BY DEF Live, IsGoal

\* A business action puts its attempt in force.
LEMMA LiveActs ==
    ASSUME ControlInv, UNCHANGED <<step, attempt>>, Live = {},
           inputs' \in {inputs, inputs \cup {Input("business")}}
    PROVE  Live' \in {{}, {attempt}}
<1>1. \A x \in Live' : x = attempt
  BY DEF Live, Input
<1>2. QED
  BY <1>1

\* A recovery takes the attempt's action out of force.
LEMMA LiveRecovers ==
    ASSUME ControlInv, UNCHANGED <<step, attempt>>, Live \subseteq {attempt},
           inputs' = inputs \cup {Input("recovery")}
    PROVE  Live' = {}
<1>1. ASSUME ~IsGoal(step), NEW x \in inputs', x.step = step, x.how = "business"
      PROVE  [x EXCEPT !.how = "recovery"] \in inputs'
  <2>1. x \in inputs /\ x \in Event
    BY <1>1 DEF Input, ControlInv, LogTypeOK
  <2>2. CASE [x EXCEPT !.how = "recovery"] \in inputs
    BY <2>2
  <2>3. CASE [x EXCEPT !.how = "recovery"] \notin inputs
    <3>1. x.attempt = attempt
      BY <1>1, <2>1, <2>3 DEF Live, IsGoal
    <3>2. [x EXCEPT !.how = "recovery"] = Input("recovery")
      BY <1>1, <2>1, <3>1 DEF Input, Event
    <3>3. QED
      BY <3>2
  <2>4. QED
    BY <2>2, <2>3
<1>2. CASE IsGoal(step)
  BY <1>2, GoalsKeepNothing
<1>3. CASE ~IsGoal(step)
  BY <1>1, <1>3 DEF Live
<1>4. QED
  BY <1>2, <1>3

\* Nothing of the next step is in force yet when a step completes.
LEMMA LiveAdvances ==
    ASSUME ControlInv, pc \in Running, step' = step + 1, UNCHANGED inputs
    PROVE  Live' = {}
<1>1. \A x \in inputs : x.step # step + 1
  BY PlanAssumption DEF ControlInv, ControlTypeOK, LogTypeOK, Event, Steps, Reach
<1>2. QED
  BY <1>1 DEF Live

(* One step of the loop is one step of the discipline, or none.            *)
LEMMA DisciplineStep ==
    ASSUME ControlInv, LiveInv, [Next]_vars
    PROVE  LiveInv' /\ [Discipline!Next]_(Discipline!vars)
<1>0. /\ step \in Nat /\ attempt \in Nat /\ Len(Plan) \in Nat
      /\ pc \in Running => step <= Len(Plan) /\ step \in Steps
      /\ pc \in Over <=> pc \notin Running \cup {"setup"}
  BY PlanAssumption DEF ControlInv, ControlTypeOK, Position, Steps, Running, Acting, Over, Locations
<1> USE DEF Discipline!Next, Discipline!vars
\* A step of the loop that reaches no app and stays within the attempt.
<1>1. ASSUME UNCHANGED <<step, inputs>>, pc \in Over <=> pc' \in Over,
             pc' = "goal" => IsGoal(step),
             pc' \in {"setup", "attempt", "decide", "goal"} => Live = {},
             pc' \in {"observe", "settle"} => Live \subseteq {attempt'}
      PROVE  LiveInv' /\ [Discipline!Next]_(Discipline!vars)
  <2>1. Live' = Live
    BY <1>1, LiveUnchanged
  <2>2. LiveInv'
    BY <1>1, <2>1 DEF LiveInv, IsGoal
  <2>3. UNCHANGED Discipline!vars
    BY <1>1, <2>1
  <2>4. QED
    BY <2>2, <2>3
\* The run ends.
<1>2. ASSUME step' = step, pc \notin Over, pc' \in Over,
             Live' = {} \/ \E n \in Live' : Live' = {n}
      PROVE  LiveInv' /\ [Discipline!Next]_(Discipline!vars)
  <2>1. Discipline!Stop
    BY <1>2 DEF Discipline!Stop, Discipline!One
  <2>2. LiveInv'
    BY <1>2 DEF LiveInv, Over
  <2>3. QED
    BY <2>1, <2>2
<1>3. CASE Setup
  BY <1>3, <1>1 DEF Setup, LiveInv, Over
<1>4. CASE SetupBlocked
  <2>1. Live' = {}
    BY <1>4, LiveUnchanged DEF SetupBlocked, LiveInv
  <2>2. QED
    BY <1>4, <2>1, <1>2 DEF SetupBlocked, Over
<1>5. CASE SetupRaises
  <2>1. Live' = {}
    BY <1>5, LiveUnchanged DEF SetupRaises, LiveInv
  <2>2. QED
    BY <1>5, <2>1, <1>2 DEF SetupRaises, Over
<1>6. CASE BeginAttempt
  BY <1>6, <1>0, <1>1 DEF BeginAttempt, LiveInv, Over, Running
<1>7. CASE Dispatch
  <2>1. /\ pc = "decide" /\ pc' = "observe" /\ UNCHANGED <<step, attempt>>
        /\ inputs' \in {inputs, inputs \cup {Input("business")}}
    BY <1>7 DEF Dispatch
  <2>2. Live = {} /\ Live' \in {{}, {attempt}}
    BY <2>1, LiveActs DEF LiveInv
  <2>3. LiveInv'
    BY <2>1, <2>2 DEF LiveInv
  <2>4. CASE Live' = {}
    BY <2>1, <2>2, <2>3, <2>4 DEF Over
  <2>5. CASE Live' = {attempt}
    <3>1. Discipline!Act
      BY <2>1, <2>2, <2>5 DEF Discipline!Act, Discipline!One, Over
    <3>2. QED
      BY <2>3, <3>1
  <2>6. QED
    BY <2>2, <2>4, <2>5
<1>8. CASE ControlContinues
  BY <1>8, <1>1 DEF ControlContinues, LiveInv, Over
<1>9. CASE ControlStops
  BY <1>9, <1>1 DEF ControlStops, LiveInv, Over
<1>10. CASE AtomicTargetNotFound
  <2>1. /\ pc = "decide" /\ pc' \in {"attempt", "write"} /\ UNCHANGED <<step, attempt, inputs>>
    BY <1>10 DEF AtomicTargetNotFound, TargetNotFound, StopWith
  <2>2. Live = {} /\ Live' = {}
    BY <2>1, LiveUnchanged DEF LiveInv
  <2>3. CASE pc' = "attempt"
    BY <2>1, <2>2, <2>3, <1>1 DEF Over
  <2>4. CASE pc' = "write"
    BY <2>1, <2>2, <2>4, <1>2 DEF Over
  <2>5. QED
    BY <2>1, <2>3, <2>4
<1>11. CASE UnsupportedRealAction
  <2>1. /\ pc = "decide" /\ pc' = "write" /\ UNCHANGED <<step, inputs>>
    BY <1>11 DEF UnsupportedRealAction, StopWith
  <2>2. Live' = {}
    BY <2>1, LiveUnchanged DEF LiveInv
  <2>3. QED
    BY <2>1, <2>2, <1>2 DEF Over
<1>12. CASE (ModelRaises \/ DeviceRaises) /\ pc = "decide"
  <2>1. /\ pc = "decide" /\ pc' = "write" /\ UNCHANGED <<step, attempt>>
        /\ inputs' \in {inputs, inputs \cup {Input("business")}}
    BY <1>12 DEF ModelRaises, DeviceRaises, CanAct, StepRaises, StopWith, LiveInv
  <2>2. Live' \in {{}, {attempt}}
    BY <2>1, LiveActs DEF LiveInv
  <2>3. QED
    BY <2>1, <2>2, <1>2 DEF Over
<1>13. CASE MicroAction \/ GoalEnds \/ GoalTargetNotFound \/ GoalDeviceRaises
            \/ ((ModelRaises \/ DeviceRaises) /\ pc # "decide")
  <2>1. /\ pc = "goal" /\ step' = step
        /\ pc' \in {"goal", "observe", "attempt", "write"}
    BY <1>13 DEF MicroAction, GoalEnds, GoalTargetNotFound, GoalDeviceRaises, ModelRaises,
       DeviceRaises, CanAct, TargetNotFound, StepRaises, StopWith
  <2>2. IsGoal(step) /\ IsGoal(step)' /\ Live = {} /\ Live' = {}
    BY <2>1, GoalsKeepNothing DEF LiveInv, IsGoal
  <2>3. LiveInv'
    BY <2>1, <2>2 DEF LiveInv
  <2>4. CASE pc' = "write"
    BY <2>1, <2>2, <2>4, <1>2 DEF Over
  <2>5. CASE pc' # "write"
    BY <2>1, <2>2, <2>3, <2>5 DEF Over
  <2>6. QED
    BY <2>4, <2>5
<1>14. CASE Observe
  BY <1>14, <1>1 DEF Observe, LiveInv, Over
<1>15. CASE Reobserve
  BY <1>15, <1>1 DEF Reobserve, LiveInv, Over
<1>16. CASE GateContinues
  <2>1. /\ pc = "settle" /\ step' = step + 1 /\ UNCHANGED inputs
        /\ pc' = IF step = Len(Plan) THEN "write" ELSE "attempt"
    BY <1>16 DEF GateContinues, Settled, CompleteStep
  <2>2. Live' = {}
    BY <2>1, LiveAdvances DEF Running, Acting
  <2>3. pc \notin Over /\ step - 1 < Len(Plan)
    BY <2>1, <1>0 DEF Over, Running, Acting
  <2>4. Discipline!Advance
    BY <2>1, <2>2, <2>3, <1>0 DEF Discipline!Advance, Over
  <2>5. LiveInv'
    BY <2>1, <2>2 DEF LiveInv
  <2>6. QED
    BY <2>4, <2>5
<1>17. CASE DismissExternalOverlay \/ RecoverNavigationContext
  <2>1. /\ pc = "settle" /\ pc' = "attempt" /\ UNCHANGED <<step, attempt>>
        /\ inputs' = inputs \cup {Input("recovery")}
    BY <1>17 DEF DismissExternalOverlay, RecoverNavigationContext, MayRecover, Settled, Recover
  <2>2. Live' = {}
    BY <2>1, LiveRecovers DEF LiveInv
  <2>3. LiveInv'
    BY <2>1, <2>2 DEF LiveInv
  <2>4. CASE Live = {}
    BY <2>1, <2>2, <2>3, <2>4 DEF Over
  <2>5. CASE Live # {}
    BY <2>1, <2>2, <2>3, <2>5 DEF Discipline!Undo, Over
  <2>6. QED
    BY <2>4, <2>5
<1>18. CASE GateStops
  <2>1. /\ pc = "settle" /\ pc' = "write" /\ UNCHANGED <<step, inputs>>
    BY <1>18 DEF GateStops, Settled, StopWith
  <2>2. Live' \subseteq {attempt}
    BY <2>1, LiveUnchanged DEF LiveInv
  <2>3. QED
    BY <2>1, <2>2, <1>2 DEF Over
<1>19. CASE CaptureRaises
  <2>1. /\ pc \in {"observe", "settle"} /\ pc' = "escaped" /\ UNCHANGED <<step, attempt>>
        /\ inputs' \in {inputs, inputs \cup {Input("recovery")}}
    BY <1>19 DEF CaptureRaises, MayRecover, Settled
  <2>2. Live' \subseteq {attempt}
    BY <2>1, LiveUnchanged, LiveRecovers DEF LiveInv
  <2>3. QED
    BY <2>1, <2>2, <1>2 DEF Over
<1>20. CASE WriteActions
  BY <1>20, <1>1 DEF WriteActions, Over
<1>21. CASE UNCHANGED vars
  <2>1. Live' = Live
    BY <1>21, LiveUnchanged DEF vars
  <2>2. QED
    BY <1>21, <2>1 DEF vars, LiveInv
<1>22. CASE MicroAction \/ GoalEnds \/ GoalTargetNotFound \/ GoalDeviceRaises
  BY <1>13, <1>22
<1>23. CASE ModelRaises \/ DeviceRaises
  BY <1>12, <1>13, <1>23
<1>24. QED
  BY <1>3, <1>4, <1>5, <1>6, <1>7, <1>8, <1>9, <1>10, <1>11, <1>14, <1>15, <1>16, <1>17, <1>18,
     <1>19, <1>20, <1>21, <1>22, <1>23 DEF Next, Finished

(* A test case is executed as DispatchDiscipline says: in order, with at    *)
(* most one action of a one-action step in force, and none after the end.  *)
THEOREM DisciplineTheorem == Spec => DisciplineHolds
<1>1. Init => LiveInv /\ Discipline!Init
  BY DEF Init, LiveInv, Live, Discipline!Init, Over
<1>2. ControlInv /\ LiveInv /\ [Next]_vars => LiveInv' /\ [Discipline!Next]_(Discipline!vars)
  BY DisciplineStep
<1>3. QED
  BY <1>1, <1>2, ControlAlways, PTL DEF Spec, DisciplineHolds, Discipline!Spec

-----------------------------------------------------------------------------
(* The evidence execute() keeps: every recorded frame names a screenshot   *)
(* that still holds what was captured for it, whatever bursts, goals,      *)
(* retries and recoveries came between; and the rest of the type           *)
(* invariant, which that rests on.                                         *)

(* fs is a record of frames numbered below n, each as file system d has it. *)
Recorded(fs, n, d) ==
    /\ fs \in Seq(Frame) /\ n \in Nat
    /\ DOMAIN d \subseteq Nat /\ \A i \in DOMAIN d : d[i] \in Nat
    /\ \A i \in 1 .. Len(fs) : /\ fs[i].id < n
                               /\ fs[i].id \in DOMAIN d /\ d[fs[i].id] = fs[i].by
    /\ \A i, j \in 1 .. Len(fs) : i < j => fs[i].id < fs[j].id

(* more continues a record that ends before frame n, as d has it.          *)
Follows(more, n, d) ==
    /\ more \in Seq(Frame)
    /\ \A k \in 1 .. Len(more) : /\ more[k].id = n + k - 1
                                 /\ n + k - 1 \in DOMAIN d /\ d[n + k - 1] = more[k].by

(* The goal's frames, before they join the record, follow it.              *)
EvidenceInv ==
    /\ Recorded(frames, nextFrame, disk)
    /\ pc = "setup" => frames = <<>> /\ nextFrame = 0
    /\ pc \in {"goal", "observe"} => Follows(record.frames, nextFrame, disk)

-----------------------------------------------------------------------------
\* A burst of frames is a sequence of frames with consecutive ids.
LEMMA BurstIsTyped ==
    ASSUME NEW first \in Nat, NEW n \in Nat, actionIndex \in Nat
    PROVE  /\ Burst(first, n) \in Seq(Frame)
           /\ Len(Burst(first, n)) = n
           /\ \A k \in 1 .. n : Burst(first, n)[k] = [id |-> first + k - 1, by |-> actionIndex]
<1>1. \A k \in 1 .. n : [id |-> first + k - 1, by |-> actionIndex] \in Frame
  BY DEF Frame
<1>2. QED
  BY <1>1 DEF Burst

\* After a capture, the file of each frame of the burst holds that frame.
LEMMA BurstIsWritten ==
    ASSUME NEW first \in Nat, NEW n \in Nat, actionIndex \in Nat,
           DOMAIN disk \subseteq Nat, \A i \in DOMAIN disk : disk[i] \in Nat
    PROVE  /\ DOMAIN Written(Burst(first, n)) \subseteq Nat
           /\ \A i \in DOMAIN Written(Burst(first, n)) : Written(Burst(first, n))[i] \in Nat
           /\ Follows(Burst(first, n), first, Written(Burst(first, n)))
           /\ \A i \in DOMAIN disk : i < first =>
                 i \in DOMAIN Written(Burst(first, n)) /\ Written(Burst(first, n))[i] = disk[i]
<1> DEFINE b == Burst(first, n)  w == Written(b)
<1>1. /\ b \in Seq(Frame) /\ Len(b) = n /\ DOMAIN b = 1 .. n
      /\ \A k \in 1 .. n : b[k].id = first + k - 1 /\ b[k].by = actionIndex
  BY BurstIsTyped DEF Burst
<1>2. /\ DOMAIN w = DOMAIN disk \cup {b[k].id : k \in DOMAIN b}
      /\ \A i \in DOMAIN w :
           w[i] = IF \E k \in DOMAIN b : b[k].id = i THEN actionIndex ELSE disk[i]
  BY DEF Written
<1> HIDE DEF b, w
<1>3. DOMAIN w \subseteq Nat /\ \A i \in DOMAIN w : w[i] \in Nat
  <2>1. \A k \in DOMAIN b : b[k].id \in Nat
    BY <1>1
  <2>2. QED
    BY <1>2, <2>1
<1>4. Follows(b, first, w)
  <2>1. ASSUME NEW k \in 1 .. n
        PROVE  first + k - 1 \in DOMAIN w /\ w[first + k - 1] = b[k].by
    <3>1. k \in DOMAIN b /\ b[k].id = first + k - 1 /\ b[k].by = actionIndex
      BY <1>1
    <3>2. QED
      BY <1>2, <3>1
  <2>2. QED
    BY <1>1, <2>1 DEF Follows
<1>5. \A i \in DOMAIN disk : i < first => i \in DOMAIN w /\ w[i] = disk[i]
  BY <1>1, <1>2
<1>6. QED
  BY <1>3, <1>4, <1>5 DEF b, w

\* Appending a later burst to the record keeps its frames on disk.
LEMMA RecordedGrows ==
    ASSUME NEW fs, NEW n, NEW d, Recorded(fs, n, d),
           NEW d2, DOMAIN d2 \subseteq Nat, \A i \in DOMAIN d2 : d2[i] \in Nat,
           \A i \in DOMAIN d : i < n => i \in DOMAIN d2 /\ d2[i] = d[i],
           NEW more, Follows(more, n, d2)
    PROVE  Recorded(fs \o more, n + Len(more), d2)
<1> DEFINE all == fs \o more
<1>1. /\ fs \in Seq(Frame) /\ more \in Seq(Frame) /\ n \in Nat
      /\ Len(fs) \in Nat /\ Len(more) \in Nat
  BY DEF Recorded, Follows
<1>2. /\ all \in Seq(Frame) /\ Len(all) = Len(fs) + Len(more)
      /\ \A i \in 1 .. Len(all) : all[i] = IF i <= Len(fs) THEN fs[i] ELSE more[i - Len(fs)]
  BY <1>1, ConcatProperties
<1> HIDE DEF all
<1>3. ASSUME NEW i \in 1 .. Len(all), i <= Len(fs)
      PROVE  /\ all[i] = fs[i] /\ i \in 1 .. Len(fs) /\ all[i].id \in Nat /\ all[i].id < n
             /\ all[i].id \in DOMAIN d2 /\ d2[all[i].id] = all[i].by
  <2>1. all[i] = fs[i] /\ i \in 1 .. Len(fs) /\ all[i] \in Frame
    BY <1>1, <1>2, <1>3
  <2>2. fs[i].id < n /\ fs[i].id \in DOMAIN d /\ d[fs[i].id] = fs[i].by
    BY <2>1 DEF Recorded
  <2>3. QED
    BY <2>1, <2>2 DEF Frame
<1>4. ASSUME NEW i \in 1 .. Len(all), i > Len(fs)
      PROVE  /\ all[i].id = n + (i - Len(fs)) - 1 /\ i - Len(fs) \in 1 .. Len(more)
             /\ all[i].id \in DOMAIN d2 /\ d2[all[i].id] = all[i].by
  <2>1. i - Len(fs) \in 1 .. Len(more) /\ all[i] = more[i - Len(fs)]
    BY <1>1, <1>2, <1>4
  <2>2. QED
    BY <2>1 DEF Follows
<1>5. \A i \in 1 .. Len(all) : /\ all[i].id < n + Len(more)
                               /\ all[i].id \in DOMAIN d2 /\ d2[all[i].id] = all[i].by
  BY <1>1, <1>3, <1>4
<1>6. ASSUME NEW i \in 1 .. Len(all), NEW j \in 1 .. Len(all), i < j
      PROVE  all[i].id < all[j].id
  <2>1. CASE j <= Len(fs)
    <3>1. i \in 1 .. Len(fs) /\ j \in 1 .. Len(fs) /\ all[i] = fs[i] /\ all[j] = fs[j]
      BY <1>1, <1>3, <1>6, <2>1
    <3>2. QED
      BY <1>6, <3>1 DEF Recorded
  <2>2. CASE i <= Len(fs) /\ j > Len(fs)
    <3>1. all[i].id \in Nat /\ all[i].id < n
      BY <1>3, <2>2
    <3>2. all[j].id = n + (j - Len(fs)) - 1
      BY <1>4, <2>2
    <3>3. QED
      BY <1>1, <2>2, <3>1, <3>2
  <2>3. CASE i > Len(fs)
    <3>1. j > Len(fs)
      BY <1>1, <1>6, <2>3
    <3>2. /\ all[i].id = n + (i - Len(fs)) - 1
          /\ all[j].id = n + (j - Len(fs)) - 1
      BY <1>4, <2>3, <3>1
    <3>3. QED
      BY <1>1, <1>6, <3>2
  <2>4. QED
    BY <1>1, <2>1, <2>2, <2>3
<1>7. n + Len(more) \in Nat
  BY <1>1
<1>8. QED
  BY <1>2, <1>5, <1>6, <1>7 DEF Recorded, all

-----------------------------------------------------------------------------
(* The types of the attempt's variables.                                   *)

\* Every step of the plan has one of the declared kinds.
LEMMA KindIsStepKind ==
    ASSUME NEW i \in Steps
    PROVE  Plan[i].kind \in StepKinds
<1>1. Plan[i] \in StepRecord
  BY PlanAssumption DEF Steps
<1>2. QED
  BY <1>1 DEF StepRecord

\* The record an attempt starts from is an action record without frames.
LEMMA NoRecordTyped == NoRecord \in ActionRecord /\ NoRecord.frames = <<>>
BY DEF NoRecord, ActionRecord, Targets, Conformance

\* What a dispatch may emit is an action record without frames.
LEMMA EmittedTyped ==
    ASSUME NEW k \in StepKinds, NEW type \in AllowedTypes(k), NEW r \in Emitted(type)
    PROVE  r \in ActionRecord
<1>1. PICK t \in HitTargets(type), o \in ExternalWindow(type), f \in SafeNavigation(type) :
        r = ClickRecord(type, t, o, f)
  BY DEF Emitted
<1>2. type \in {"none"} \cup UNION {AllowedTypes(l) : l \in StepKinds}
  OBVIOUS
<1>3. t \in Targets /\ o \in BOOLEAN /\ f \in BOOLEAN
  BY DEF HitTargets, ExternalWindow, SafeNavigation, Targets, Conformance
<1>4. QED
  BY <1>1, <1>2, <1>3, NoRecordTyped DEF ActionRecord, ClickRecord

\* No control event yet is a legal count of them.
LEMMA NoControls == 0 \in 0 .. MaxControls
BY ControlsAssumption

\* The gate an attempt starts from is a gate.
LEMMA NoGateDecides == NoGate.decision \in Decisions
BY DEF NoGate, Gate, Decisions

\* What a goal keeps of a micro-gate is what the gate reads back.
LEMMA MicroViewIsAnswer == MicroGateView = MicroGateAnswers
BY DEF MicroGateView, MicroGateAnswers

(* The verdict and the record after an observation.                        *)
LEMMA ObservationTyped ==
    ASSUME record \in ActionRecord, NEW gf, ObserveAndJudge(gf)
    PROVE  /\ record' \in ActionRecord
           /\ gate'.decision \in Decisions
<1>1. PICK n \in 1 .. MaxBurst, context \in Contexts, effect \in Effects, v \in Views :
        /\ gate' = EvaluateStepGate(Plan[step], GateRecord(context, effect), v, attempt)
        /\ record' = [record EXCEPT !.context = context, !.effect = effect]
  BY DEF ObserveAndJudge
<1>2. context \in Conformance \cup {"none"}
  <2>1. Contexts \subseteq Conformance \cup {"none"}
    BY DEF Contexts, Conformance
  <2>2. QED
    BY <2>1
<1>3. effect \in {"none", "CONFORMANT", "NON_CONFORMANT"}
  BY DEF Effects, ActionRecord
<1>4. record' \in ActionRecord
  BY <1>1, <1>2, <1>3 DEF ActionRecord
<1>5. GateRecord(context, effect).micro \in Seq(MicroGateAnswers)
  BY MicroViewIsAnswer DEF GateRecord, ActionRecord
<1>6. gate'.decision \in Decisions
  BY <1>1, <1>5, StepGateDecides
<1>7. QED
  BY <1>4, <1>6

(* A micro-action appends a verdict to the record, and its frames.         *)
LEMMA MicroActionTyped ==
    ASSUME record \in ActionRecord, nextFrame \in Nat, actionIndex \in Nat, MicroAction
    PROVE  record' \in ActionRecord
<1>0. PICK type \in GoalTypes, n \in 1 .. MaxBurst, confirmed \in BOOLEAN :
        \E g \in MicroGates(type) : record' = WithMicroAction(Burst(GoalFrame, n), g, confirmed)
  BY DEF MicroAction
<1>1. PICK g \in MicroGates(type) :
        record' = WithMicroAction(Burst(GoalFrame, n), g, confirmed)
  BY <1>0
<1>2. PICK a \in MicroRecords(type), v \in MicroViews : g = EvaluateMicroActionGate(Plan[step], a, v)
  BY DEF MicroGates
<1>3. a.target \in Targets /\ a.type # "gui_task"
  <2>1. a.target \in Targets /\ a.type \in {type}
    BY DEF MicroRecords
  <2>2. type # "gui_task"
    BY DEF GoalTypes
  <2>3. QED
    BY <2>1, <2>2
<1>4. [decision |-> g.decision, target |-> g.target] \in MicroGateView
  BY <1>2, <1>3, MicroGateAnswersTyped DEF MicroGateView
<1>5. Burst(GoalFrame, n) \in Seq(Frame)
  <2>1. GoalFrame \in Nat /\ n \in Nat
    BY BurstAssumption DEF GoalFrame, ActionRecord
  <2>2. QED
    BY <2>1, BurstIsTyped
<1>6. "gui_task" \in UNION {AllowedTypes(k) : k \in StepKinds}
  BY DEF AllowedTypes, StepKinds
<1>7. record.frames \o Burst(GoalFrame, n) \in Seq(Frame)
  BY <1>5, ConcatProperties DEF ActionRecord
<1>8. Append(record.micro, [decision |-> g.decision, target |-> g.target]) \in Seq(MicroGateView)
  BY <1>4 DEF ActionRecord
<1>9. (confirmed \/ g.decision # "CONTINUE") \in BOOLEAN
  OBVIOUS
<1>10. QED
  BY <1>1, <1>6, <1>7, <1>8, <1>9 DEF ActionRecord, WithMicroAction

-----------------------------------------------------------------------------
(* How the record, its files and a goal's frames move together.            *)

DataInv == AttemptTypeOK /\ EvidenceInv

\* No frame follows the recorded ones when a goal has taken none.
LEMMA NothingFollows ==
    ASSUME NEW n, NEW d
    PROVE  Follows(<<>>, n, d)
<1>1. <<>> \in Seq(Frame) /\ Len(<<>>) = 0
  OBVIOUS
<1>2. QED
  BY <1>1 DEF Follows

\* A goal's frames continue the recorded ones, burst after burst.
LEMMA FollowsGrows ==
    ASSUME NEW n \in Nat, NEW d, NEW d2, NEW fs, Follows(fs, n, d), NEW more,
           Follows(more, n + Len(fs), d2),
           \A i \in DOMAIN d : i < n + Len(fs) => i \in DOMAIN d2 /\ d2[i] = d[i]
    PROVE  Follows(fs \o more, n, d2)
<1> DEFINE all == fs \o more
<1>1. fs \in Seq(Frame) /\ more \in Seq(Frame) /\ Len(fs) \in Nat /\ Len(more) \in Nat
  BY DEF Follows
<1>2. /\ all \in Seq(Frame) /\ Len(all) = Len(fs) + Len(more)
      /\ \A i \in 1 .. Len(all) : all[i] = IF i <= Len(fs) THEN fs[i] ELSE more[i - Len(fs)]
  BY <1>1, ConcatProperties
<1> HIDE DEF all
<1>3. ASSUME NEW k \in 1 .. Len(all), k <= Len(fs)
      PROVE  all[k].id = n + k - 1 /\ n + k - 1 \in DOMAIN d2 /\ d2[n + k - 1] = all[k].by
  <2>1. k \in 1 .. Len(fs) /\ all[k] = fs[k]
    BY <1>1, <1>2, <1>3
  <2>2. n + k - 1 \in DOMAIN d /\ d[n + k - 1] = fs[k].by /\ fs[k].id = n + k - 1
    BY <2>1 DEF Follows
  <2>3. n + k - 1 < n + Len(fs)
    BY <1>1, <1>3
  <2>4. QED
    BY <2>1, <2>2, <2>3
<1>4. ASSUME NEW k \in 1 .. Len(all), k > Len(fs)
      PROVE  all[k].id = n + k - 1 /\ n + k - 1 \in DOMAIN d2 /\ d2[n + k - 1] = all[k].by
  <2> DEFINE l == k - Len(fs)
  <2>1. l \in 1 .. Len(more) /\ all[k] = more[l] /\ n + Len(fs) + l - 1 = n + k - 1
    BY <1>1, <1>2, <1>4
  <2> HIDE DEF l
  <2>2. /\ more[l].id = n + Len(fs) + l - 1 /\ n + Len(fs) + l - 1 \in DOMAIN d2
        /\ d2[n + Len(fs) + l - 1] = more[l].by
    BY <2>1 DEF Follows
  <2>3. QED
    BY <2>1, <2>2
<1>5. QED
  BY <1>1, <1>2, <1>3, <1>4 DEF Follows, all

\* Capturing a burst keeps the frames, the next id and the disk typed.
LEMMA WorldIsTyped ==
    ASSUME EvidenceInv
    PROVE  /\ nextFrame \in Nat /\ frames \in Seq(Frame)
           /\ DOMAIN disk \subseteq Nat /\ \A i \in DOMAIN disk : disk[i] \in Nat
BY DEF EvidenceInv, Recorded

(* A step that records nothing.                                            *)
LEMMA EvidenceKept ==
    ASSUME EvidenceInv, UNCHANGED <<frames, nextFrame, disk>>, pc' # "setup",
           pc' \in {"goal", "observe"} =>
              record'.frames = <<>> \/ (pc \in {"goal", "observe"} /\ record'.frames = record.frames)
    PROVE  EvidenceInv'
BY NothingFollows DEF EvidenceInv

(* A burst right behind the record.                                        *)
LEMMA BurstRecorded ==
    ASSUME EvidenceInv, actionIndex \in Nat, NEW n \in 1 .. MaxBurst,
           frames' = frames \o Burst(nextFrame, n), nextFrame' = nextFrame + n,
           disk' = Written(Burst(nextFrame, n))
    PROVE  Recorded(frames', nextFrame', disk')
<1>1. n \in Nat /\ nextFrame \in Nat
  BY BurstAssumption, WorldIsTyped
<1>2. Len(Burst(nextFrame, n)) = n
  BY <1>1, BurstIsTyped
<1> DEFINE b == Burst(nextFrame, n)
<1>3. /\ DOMAIN disk' \subseteq Nat /\ \A i \in DOMAIN disk' : disk'[i] \in Nat
      /\ Follows(b, nextFrame, disk')
      /\ \A i \in DOMAIN disk : i < nextFrame => i \in DOMAIN disk' /\ disk'[i] = disk[i]
  BY <1>1, WorldIsTyped, BurstIsWritten
<1> HIDE DEF b
<1>4. Recorded(frames \o b, nextFrame + Len(b), disk')
  BY <1>3, RecordedGrows DEF EvidenceInv
<1>5. QED
  BY <1>2, <1>4 DEF b

(* A goal's frames and then the burst.                                     *)
LEMMA ObservationRecorded ==
    ASSUME EvidenceInv, actionIndex \in Nat, NEW gf, Follows(gf, nextFrame, disk),
           ObserveAndJudge(gf)
    PROVE  Recorded(frames', nextFrame', disk')
<1>1. PICK n \in 1 .. MaxBurst :
        /\ frames' = frames \o gf \o Burst(nextFrame + Len(gf), n)
        /\ nextFrame' = nextFrame + Len(gf) + n
        /\ disk' = Written(Burst(nextFrame + Len(gf), n))
  BY DEF ObserveAndJudge
<1>2. nextFrame \in Nat /\ gf \in Seq(Frame) /\ Len(gf) \in Nat /\ n \in Nat
  BY BurstAssumption, WorldIsTyped DEF Follows
<1>3. Recorded(frames \o gf, nextFrame + Len(gf), disk)
  BY WorldIsTyped, RecordedGrows DEF EvidenceInv
<1> DEFINE first == nextFrame + Len(gf)
           b == Burst(first, n)
<1>4. first \in Nat /\ Len(b) = n
  <2>1. first \in Nat
    BY <1>2
  <2> HIDE DEF first
  <2>2. QED
    BY <1>2, <2>1, BurstIsTyped
<1>5. /\ DOMAIN disk' \subseteq Nat /\ \A i \in DOMAIN disk' : disk'[i] \in Nat
      /\ Follows(b, first, disk')
      /\ \A i \in DOMAIN disk : i < first => i \in DOMAIN disk' /\ disk'[i] = disk[i]
  BY <1>1, <1>2, <1>4, WorldIsTyped, BurstIsWritten
<1>6. frames' = (frames \o gf) \o b /\ nextFrame' = first + n /\ Recorded(frames \o gf, first, disk)
  BY <1>1, <1>3
<1> HIDE DEF b, first
<1>7. Recorded((frames \o gf) \o b, first + Len(b), disk')
  BY <1>5, <1>6, RecordedGrows
<1>8. QED
  BY <1>4, <1>6, <1>7

(* A micro-action's burst lies beyond the record and the goal's frames.    *)
LEMMA MicroActionRecorded ==
    ASSUME EvidenceInv, record \in ActionRecord, actionIndex \in Nat, MicroAction
    PROVE  EvidenceInv'
<1>0. pc = "goal" /\ pc' = "goal" /\ UNCHANGED <<frames, nextFrame>>
  BY DEF MicroAction, CanAct
<1>1. PICK n \in 1 .. MaxBurst :
        /\ record'.frames = record.frames \o Burst(GoalFrame, n)
        /\ disk' = Written(Burst(GoalFrame, n))
  BY DEF MicroAction, WithMicroAction, ActionRecord
<1> DEFINE b == Burst(GoalFrame, n)
<1>2. /\ n \in Nat /\ nextFrame \in Nat /\ Len(record.frames) \in Nat
      /\ GoalFrame = nextFrame + Len(record.frames) /\ GoalFrame \in Nat
  BY BurstAssumption, WorldIsTyped DEF GoalFrame, ActionRecord
<1>3. /\ DOMAIN disk' \subseteq Nat /\ \A i \in DOMAIN disk' : disk'[i] \in Nat
      /\ Follows(b, nextFrame + Len(record.frames), disk')
      /\ \A i \in DOMAIN disk : i < nextFrame + Len(record.frames) =>
            i \in DOMAIN disk' /\ disk'[i] = disk[i]
  BY <1>1, <1>2, WorldIsTyped, BurstIsWritten
<1>4. Follows(record.frames, nextFrame, disk)
  BY <1>0 DEF EvidenceInv
<1> HIDE DEF b
<1>5. Follows(record.frames \o b, nextFrame, disk')
  BY <1>2, <1>3, <1>4, FollowsGrows
<1>6. \A i \in DOMAIN disk : i < nextFrame => i \in DOMAIN disk' /\ disk'[i] = disk[i]
  BY <1>2, <1>3, WorldIsTyped
<1>7. Recorded(frames, nextFrame, disk')
  <2>1. Recorded(frames, nextFrame, disk)
    BY DEF EvidenceInv
  <2>2. \A i \in 1 .. Len(frames) : frames[i].id \in DOMAIN disk' /\ disk'[frames[i].id] = frames[i].by
    BY <1>6, <2>1 DEF Recorded
  <2>3. QED
    BY <1>3, <2>1, <2>2 DEF Recorded
<1>8. record'.frames = record.frames \o b
  BY <1>1 DEF b
<1>9. QED
  BY <1>0, <1>5, <1>7, <1>8 DEF EvidenceInv

-----------------------------------------------------------------------------
\* execute()'s data starts in the inductive invariant.
LEMMA DataInit == Init => DataInv
<1> SUFFICES ASSUME Init PROVE DataInv
  OBVIOUS
<1>1. AttemptTypeOK
  BY NoRecordTyped, NoGateDecides, NoControls, Zenon DEF Init, AttemptTypeOK
<1>2. EvidenceInv
  <2>1. frames \in Seq(Frame) /\ Len(frames) = 0 /\ DOMAIN disk = {}
    BY DEF Init
  <2>2. Recorded(frames, nextFrame, disk)
    BY <2>1 DEF Init, Recorded
  <2>3. QED
    BY <2>2 DEF Init, EvidenceInv
<1>3. QED
  BY <1>1, <1>2 DEF DataInv

(* The actions that end an attempt with an exception.                      *)
LEMMA FailedAttemptKeepsData ==
    ASSUME DataInv, pc \in Acting, pc' \in {"attempt", "write"},
           record' \in {record, NoRecord},
           gate'.decision \in Decisions,
           UNCHANGED <<frames, nextFrame, disk, controls, reobserved>>
    PROVE  DataInv'
<1>1. AttemptTypeOK'
  BY NoRecordTyped DEF DataInv, AttemptTypeOK
<1>2. EvidenceInv'
  BY EvidenceKept DEF DataInv
<1>3. QED
  BY <1>1, <1>2 DEF DataInv

(* Every action keeps the data invariant.                                  *)
LEMMA DataStep == ControlInv /\ DataInv /\ [Next]_vars => DataInv'
<1> SUFFICES ASSUME ControlInv, DataInv, [Next]_vars PROVE DataInv'
  OBVIOUS
<1>0. /\ actionIndex \in Nat /\ record \in ActionRecord /\ EvidenceInv /\ AttemptTypeOK
      /\ pc \in Running => step \in Steps
  BY DEF ControlInv, ControlTypeOK, DataInv, AttemptTypeOK, Position
<1>1. CASE Setup
  <2>1. /\ frames = <<>> /\ nextFrame = 0
        /\ frames' = Burst(0, 1) /\ nextFrame' = 1 /\ disk' = Written(Burst(0, 1))
        /\ pc' = "attempt" /\ UNCHANGED <<record, controls, gate, reobserved>>
    BY <1>0, <1>1 DEF Setup, EvidenceInv
  <2>2. frames' = frames \o Burst(nextFrame, 1) /\ nextFrame' = nextFrame + 1
    BY <1>0, <2>1, BurstIsTyped, ConcatEmptySeq
  <2>3. 1 \in 1 .. MaxBurst
    BY BurstAssumption
  <2>4. Recorded(frames', nextFrame', disk')
    BY <1>0, <2>1, <2>2, <2>3, BurstRecorded
  <2>5. QED
    BY <1>0, <2>1, <2>4 DEF DataInv, AttemptTypeOK, EvidenceInv
<1>2. CASE SetupBlocked
  BY <1>0, <1>2, EvidenceKept DEF SetupBlocked, DataInv, AttemptTypeOK, world
<1>3. CASE SetupRaises
  BY <1>0, <1>3, EvidenceKept DEF SetupRaises, DataInv, AttemptTypeOK, world
<1>4. CASE BeginAttempt
  <2>1. /\ pc' # "setup" /\ record' = NoRecord /\ controls' = 0 /\ gate' = NoGate
        /\ reobserved' = FALSE /\ UNCHANGED world
    BY <1>4 DEF BeginAttempt
  <2>2. EvidenceInv'
    BY <1>0, <2>1, NoRecordTyped, EvidenceKept DEF world
  <2>3. QED
    BY <2>1, <2>2, NoRecordTyped, NoGateDecides, NoControls, Zenon DEF DataInv, AttemptTypeOK
<1>5. CASE Dispatch \/ ControlStops
  <2>1. /\ pc = "decide" /\ pc' = "observe"
        /\ UNCHANGED <<frames, nextFrame, disk, controls, gate, reobserved>>
    BY <1>5 DEF Dispatch, ControlStops, world
  <2>2. \E k \in StepKinds : \E type \in AllowedTypes(k) : record' \in Emitted(type)
    <3>1. CASE Dispatch
      <4>1. Plan[step].kind \in StepKinds
        BY <1>0, <2>1, KindIsStepKind DEF Running, Acting
      <4>2. QED
        BY <3>1, <4>1 DEF Dispatch, EmittedTypes
    <3>2. CASE ControlStops
      <4>1. "GUI_TASK" \in StepKinds /\ ControlTypes \subseteq AllowedTypes("GUI_TASK")
        BY DEF StepKinds, AllowedTypes
      <4>2. QED
        BY <3>2, <4>1 DEF ControlStops
    <3>3. QED
      BY <1>5, <3>1, <3>2
  <2>3. record' \in ActionRecord /\ record'.frames = <<>>
    <3>1. record' \in ActionRecord
      BY <2>2, EmittedTyped
    <3>2. \A t, g, o, f : ClickRecord(t, g, o, f).frames = <<>>
      BY DEF ClickRecord, NoRecord
    <3>3. \A t : \A r \in Emitted(t) : r.frames = <<>>
      BY <3>2 DEF Emitted
    <3>4. record'.frames = <<>>
      BY <2>2, <3>3
    <3>5. QED
      BY <3>1, <3>4
  <2>4. EvidenceInv'
    BY <1>0, <2>1, <2>3, EvidenceKept
  <2>5. QED
    BY <1>0, <2>1, <2>3, <2>4 DEF DataInv, AttemptTypeOK
<1>6. CASE ControlContinues
  <2>1. controls' \in 0 .. MaxControls
    BY <1>0, <1>6, ControlsAssumption DEF ControlContinues, AttemptTypeOK
  <2>2. EvidenceInv'
    BY <1>0, <1>6, EvidenceKept DEF ControlContinues, world
  <2>3. QED
    BY <1>0, <1>6, <2>1, <2>2 DEF ControlContinues, DataInv, AttemptTypeOK
<1>7. CASE AtomicTargetNotFound \/ GoalTargetNotFound
  <2>1. PICK retryable \in BOOLEAN : TargetNotFound(retryable)
    BY <1>7 DEF AtomicTargetNotFound, GoalTargetNotFound
  <2>2. gate'.decision \in Decisions
    BY <2>1, DispatchFailure DEF TargetNotFound, Decisions
  <2>3. pc \in Acting
    BY <1>7 DEF AtomicTargetNotFound, GoalTargetNotFound, CanAct, Acting
  <2>4. QED
    BY <2>1, <2>2, <2>3, FailedAttemptKeepsData DEF TargetNotFound, StopWith
<1>8. CASE UnsupportedRealAction
  BY <1>0, <1>8, FailedAttemptKeepsData DEF UnsupportedRealAction, StopWith, world, Acting, AttemptTypeOK
<1>9. CASE ModelRaises \/ DeviceRaises \/ GoalDeviceRaises
  <2>1. /\ pc \in Acting /\ pc' = "write" /\ record' = NoRecord
        /\ UNCHANGED <<frames, nextFrame, disk, controls, gate, reobserved>>
    BY <1>9 DEF ModelRaises, DeviceRaises, GoalDeviceRaises, CanAct, StepRaises, StopWith, Acting
  <2>2. QED
    BY <1>0, <2>1, FailedAttemptKeepsData DEF AttemptTypeOK
<1>10. CASE MicroAction
  <2>1. record' \in ActionRecord
    BY <1>0, <1>10, WorldIsTyped, MicroActionTyped
  <2>2. EvidenceInv'
    BY <1>0, <1>10, MicroActionRecorded
  <2>3. QED
    BY <1>0, <1>10, <2>1, <2>2 DEF MicroAction, DataInv, AttemptTypeOK
<1>11. CASE GoalEnds
  BY <1>0, <1>11, EvidenceKept DEF GoalEnds, DataInv, AttemptTypeOK, world
<1>12. CASE Observe
  <2>1. record' \in ActionRecord /\ gate'.decision \in Decisions
    BY <1>0, <1>12, ObservationTyped DEF Observe
  <2>2. Recorded(frames', nextFrame', disk')
    BY <1>0, <1>12, ObservationRecorded DEF Observe, EvidenceInv
  <2>3. QED
    BY <1>0, <1>12, <2>1, <2>2 DEF Observe, DataInv, AttemptTypeOK, EvidenceInv
<1>13. CASE Reobserve
  <2>1. record' \in ActionRecord /\ gate'.decision \in Decisions
    BY <1>0, <1>13, ObservationTyped DEF Reobserve
  <2>2. Recorded(frames', nextFrame', disk')
    BY <1>0, <1>13, NothingFollows, ObservationRecorded DEF Reobserve
  <2>3. QED
    BY <1>0, <1>13, <2>1, <2>2 DEF Reobserve, DataInv, AttemptTypeOK, EvidenceInv
<1>14. CASE GateContinues \/ GateStops
  <2>1. /\ pc' \in {"attempt", "write"}
        /\ UNCHANGED <<frames, nextFrame, disk, record, controls, gate, reobserved>>
    BY <1>14 DEF GateContinues, GateStops, CompleteStep, StopWith, world
  <2>2. QED
    BY <1>0, <2>1, EvidenceKept DEF DataInv, AttemptTypeOK
<1>15. CASE DismissExternalOverlay \/ RecoverNavigationContext
  <2>1. PICK n \in 1 .. MaxBurst :
          /\ frames' = frames \o Burst(nextFrame, n) /\ nextFrame' = nextFrame + n
          /\ disk' = Written(Burst(nextFrame, n))
          /\ pc' = "attempt" /\ UNCHANGED <<record, controls, gate, reobserved>>
    BY <1>15 DEF DismissExternalOverlay, RecoverNavigationContext, Recover
  <2>2. Recorded(frames', nextFrame', disk')
    BY <1>0, <2>1, BurstRecorded
  <2>3. QED
    BY <1>0, <2>1, <2>2 DEF DataInv, AttemptTypeOK, EvidenceInv
<1>16. CASE CaptureRaises
  BY <1>0, <1>16, EvidenceKept DEF CaptureRaises, DataInv, AttemptTypeOK, world
<1>17. CASE WriteActions
  BY <1>0, <1>17, EvidenceKept DEF WriteActions, DataInv, AttemptTypeOK, world
<1>18. CASE UNCHANGED vars
  BY <1>0, <1>18 DEF vars, DataInv, AttemptTypeOK, EvidenceInv
<1>19. QED
  BY <1>1, <1>2, <1>3, <1>4, <1>5, <1>6, <1>7, <1>8, <1>9, <1>10, <1>11, <1>12, <1>13, <1>14,
     <1>15, <1>16, <1>17, <1>18 DEF Next, Finished

\* The inductive invariant on the data holds in every reachable state.
LEMMA DataAlways == Spec => []DataInv
<1>1. QED
  BY DataInit, DataStep, ControlAlways, PTL DEF Spec

(* The variables keep their types.                                         *)
THEOREM TypeTheorem == Spec => []TypeOK
<1>1. ControlInv /\ DataInv => TypeOK
  BY DEF ControlInv, DataInv, EvidenceInv, Recorded, WorldTypeOK, TypeOK
<1>2. QED
  BY <1>1, ControlAlways, DataAlways, PTL

(* Every recorded frame names files that still hold what was captured for  *)
(* it, and frame numbers grow along the record.                            *)
THEOREM FramesTheorem == Spec => []FramesAreOnDisk
<1>1. DataInv => FramesAreOnDisk
  BY DEF DataInv, EvidenceInv, Recorded, FramesAreOnDisk
<1>2. QED
  BY <1>1, DataAlways, PTL

-----------------------------------------------------------------------------
(* The record of the inputs.  Every input is written down, or the log says *)
(* why it is not: its step failed, or its goal ended by an exception.      *)
Covered(x) ==
    \/ x \in actions
    \/ x.step \in DOMAIN results /\ results[x.step].status = "STEP_FAILED"
    \/ IsGoal(x.step) /\ \E e \in audit : /\ e.step = x.step /\ e.attempt = x.attempt
                                           /\ ~e.dispatched

(* While a goal acts, its inputs wait for the record at its end.           *)
CoverInv ==
    /\ pc = "goal" => IsGoal(step)
    /\ pc = "done" => saved = {actions}
    /\ pc # "escaped" =>
          \A x \in inputs : Covered(x) \/ (pc = "goal" /\ x = Input("business"))

\* What is appended to the logs uncovers nothing.
LEMMA CoveredStays ==
    ASSUME results \in Seq(Result), NEW x, Covered(x),
           actions \subseteq actions', audit \subseteq audit',
           results' = results \/ \E r \in Result : results' = Append(results, r)
    PROVE  Covered(x)'
<1>1. CASE x \in actions
  BY <1>1 DEF Covered
<1>2. CASE x.step \in DOMAIN results /\ results[x.step].status = "STEP_FAILED"
  <2>1. x.step \in DOMAIN results' /\ results'[x.step] = results[x.step]
    BY <1>2
  <2>2. QED
    BY <1>2, <2>1 DEF Covered
<1>3. CASE IsGoal(x.step) /\ \E e \in audit : /\ e.step = x.step /\ e.attempt = x.attempt
                                               /\ ~e.dispatched
  BY <1>3 DEF Covered, IsGoal
<1>4. QED
  BY <1>1, <1>2, <1>3 DEF Covered

\* A step that dispatches and records at once keeps the record complete.
LEMMA RecordedInputs ==
    ASSUME CoverInv, results \in Seq(Result), pc # "escaped", pc' # "done", NEW how,
           pc = "goal" => Input("business") \in actions' \/ pc' = "goal",
           pc' = "goal" => IsGoal(step) /\ UNCHANGED <<step, attempt>>,
           UNCHANGED step, inputs' \subseteq inputs \cup {Input(how)},
           inputs' = inputs \/ Input(how) \in actions' \/ (how = "business" /\ pc' = "goal"),
           actions \subseteq actions', audit \subseteq audit',
           results' = results \/ \E r \in Result : results' = Append(results, r)
    PROVE  CoverInv'
<1>1. ASSUME NEW x \in inputs'
      PROVE  Covered(x)' \/ (pc' = "goal" /\ x = Input("business")')
  <2>1. CASE x \in inputs /\ Covered(x)
    BY <2>1, CoveredStays
  <2>2. CASE x \in inputs /\ ~Covered(x)
    <3>1. pc = "goal" /\ x = Input("business")
      BY <2>2 DEF CoverInv
    <3>2. CASE pc' = "goal"
      BY <3>1, <3>2 DEF Input
    <3>3. CASE pc' # "goal"
      BY <3>1, <3>3 DEF Covered
    <3>4. QED
      BY <3>2, <3>3
  <2>3. CASE x \notin inputs
    <3>1. x = Input(how) /\ (Input(how) \in actions' \/ (how = "business" /\ pc' = "goal"))
      BY <1>1, <2>3
    <3>2. CASE Input(how) \in actions'
      BY <3>1, <3>2 DEF Covered
    <3>3. CASE how = "business" /\ pc' = "goal"
      BY <3>1, <3>3 DEF Input
    <3>4. QED
      BY <3>1, <3>2, <3>3
  <2>4. QED
    BY <2>1, <2>2, <2>3
<1>2. pc' = "goal" => IsGoal(step)'
  BY DEF IsGoal
<1>3. QED
  BY <1>1, <1>2 DEF CoverInv

\* A goal that ends by an exception says so in its audit entry.
LEMMA UnrecordedGoals ==
    ASSUME CoverInv, results \in Seq(Result), pc = "goal", NEW class,
           pc' \notin {"goal", "done"},
           inputs' \in {inputs, inputs \cup {Input("business")}},
           audit' = audit \cup {Evidence(FALSE, class)},
           actions \subseteq actions',
           results' = results \/ \E r \in Result : results' = Append(results, r)
    PROVE  CoverInv'
<1>1. ASSUME NEW x, x = Input("business")
      PROVE  Covered(x)'
  <2> DEFINE e == Evidence(FALSE, class)
  <2>1. /\ x.step = step /\ x.attempt = attempt
        /\ e.step = step /\ e.attempt = attempt /\ ~e.dispatched
    BY <1>1 DEF Input, Evidence
  <2>2. IsGoal(x.step)
    BY <2>1 DEF CoverInv
  <2>3. e \in audit' /\ e.step = x.step /\ e.attempt = x.attempt /\ ~e.dispatched
    BY <2>1
  <2> HIDE DEF e
  <2>4. \E d \in audit' : d.step = x.step /\ d.attempt = x.attempt /\ ~d.dispatched
    BY <2>3
  <2>5. QED
    BY <2>2, <2>4 DEF Covered, IsGoal
<1>2. ASSUME NEW x \in inputs'
      PROVE  Covered(x)'
  <2>1. CASE x = Input("business")
    BY <1>1, <2>1
  <2>2. CASE x # Input("business")
    <3>1. x \in inputs /\ Covered(x)
      BY <1>2, <2>2 DEF CoverInv
    <3>2. audit \subseteq audit'
      OBVIOUS
    <3>3. QED
      BY <3>1, <3>2, CoveredStays
  <2>3. QED
    BY <2>1, <2>2
<1>3. QED
  BY <1>2 DEF CoverInv

\* A step that fails by an exception has STEP_FAILED for its result.
LEMMA FailedInputs ==
    ASSUME CoverInv, ControlInv, pc = "decide", StopWith("STEP_FAILED", attempt),
           inputs' \in {inputs, inputs \cup {Input("business")}},
           actions \subseteq actions', audit \subseteq audit'
    PROVE  CoverInv'
<1>1. step \in Steps /\ Len(results) = step - 1 /\ results \in Seq(Result) /\ step \in Nat
      /\ attempt \in Nat
  BY PlanAssumption DEF ControlInv, Position, Running, Acting, LogTypeOK, Steps, ControlTypeOK
<1>2. /\ results' = Append(results, StepResult("STEP_FAILED", attempt))
      /\ StepResult("STEP_FAILED", attempt) \in Result /\ pc' = "write"
  BY <1>1 DEF StopWith, StepResult, Result, Statuses
<1>3. step \in DOMAIN results' /\ results'[step].status = "STEP_FAILED"
  BY <1>1, <1>2 DEF StepResult
<1>4. ASSUME NEW x \in inputs'
      PROVE  Covered(x)'
  <2>1. CASE x = Input("business")
    BY <1>3, <2>1 DEF Covered, Input
  <2>2. CASE x # Input("business")
    BY <1>1, <1>2, <2>2, CoveredStays DEF CoverInv
  <2>3. QED
    BY <2>1, <2>2
<1>5. QED
  BY <1>2, <1>4 DEF CoverInv

\* An attempt that found no target dispatched nothing the log does not tell.
LEMMA TargetNotFoundCovered ==
    ASSUME CoverInv, ControlInv, pc \in {"decide", "goal"},
           NEW retryable \in BOOLEAN, TargetNotFound(retryable)
    PROVE  CoverInv'
<1> DEFINE g == EvaluateDispatchFailureGate(retryable, attempt, Plan[step].retries)
           class == IF g.decision = "RETRY" THEN "PRE_DISPATCH_RETRY" ELSE "NO_REDISPATCH"
<1>1. /\ audit' = audit \cup {Evidence(FALSE, class)}
      /\ UNCHANGED <<actions, inputs, saved, step>>
      /\ pc' \in {"attempt", "write"}
      /\ \/ results' = results
         \/ results' = Append(results, StepResult(StepStatusFromGate(g.decision), attempt))
  BY DEF TargetNotFound, StopWith
<1>2. StepResult(StepStatusFromGate(g.decision), attempt) \in Result /\ results \in Seq(Result)
  BY PlanAssumption DEF StepResult, StepStatusFromGate, Result, Statuses, ControlInv, Position,
     Running, Acting, LogTypeOK, ControlTypeOK
<1> HIDE DEF g, class
<1>3. CASE pc = "goal"
  BY <1>1, <1>2, <1>3, UnrecordedGoals
<1>4. CASE pc = "decide"
  BY <1>1, <1>2, <1>4, RecordedInputs
<1>5. QED
  BY <1>3, <1>4

\* An exception leaves no input of a step uncovered.
LEMMA StepRaisesCovered ==
    ASSUME CoverInv, ControlInv, pc \in {"decide", "goal"},
           NEW touched \in BOOLEAN, NEW partial \in BOOLEAN, NEW blocker \in BOOLEAN,
           StepRaises(touched, partial, blocker), pc = "goal" \/ ~blocker \/ ~touched
    PROVE  CoverInv'
<1> DEFINE status == IF blocker THEN "ENV_BLOCKED" ELSE IF partial THEN "INCONCLUSIVE" ELSE "STEP_FAILED"
<1>1. /\ inputs' = IF touched THEN inputs \cup {Input("business")} ELSE inputs
      /\ actions' = IF partial THEN actions \cup {Input("business")} ELSE actions
      /\ audit' = audit \cup {Evidence(partial, "NO_REDISPATCH")}
      /\ results' = Append(results, StepResult(status, attempt))
      /\ pc' = "write" /\ UNCHANGED <<step, attempt>>
      /\ StopWith(status, attempt)
  BY DEF StepRaises, StopWith
<1>2. StepResult(status, attempt) \in Result /\ results \in Seq(Result)
  BY PlanAssumption DEF StepResult, Result, Statuses, ControlInv, Position,
     Running, Acting, LogTypeOK, ControlTypeOK
<1>3. CASE partial
  <2>1. Input("business") \in actions' /\ actions \subseteq actions' /\ audit \subseteq audit'
        /\ inputs' \subseteq inputs \cup {Input("business")}
    BY <1>1, <1>3
  <2> HIDE DEF status
  <2>2. QED
    BY <1>1, <1>2, <2>1, RecordedInputs
<1>4. CASE ~partial /\ pc = "goal"
  <2>1. audit' = audit \cup {Evidence(FALSE, "NO_REDISPATCH")} /\ actions' = actions
        /\ inputs' \in {inputs, inputs \cup {Input("business")}}
    <3>1. partial = FALSE
      BY <1>4
    <3>2. QED
      BY <1>1, <3>1
  <2> HIDE DEF status
  <2>2. QED
    BY <1>1, <1>2, <1>4, <2>1, UnrecordedGoals
<1>5. CASE ~partial /\ pc = "decide" /\ ~touched
  <2>1. inputs' = inputs /\ actions' = actions /\ audit \subseteq audit'
    BY <1>1, <1>5
  <2> HIDE DEF status
  <2>2. QED
    BY <1>1, <1>2, <1>5, <2>1, RecordedInputs
<1>6. CASE ~partial /\ pc = "decide" /\ ~blocker
  <2>1. status = "STEP_FAILED"
    BY <1>6
  <2>2. /\ inputs' \in {inputs, inputs \cup {Input("business")}}
        /\ actions \subseteq actions' /\ audit \subseteq audit'
    BY <1>1
  <2> HIDE DEF status
  <2>3. QED
    BY <1>1, <1>6, <2>1, <2>2, FailedInputs
<1>7. QED
  BY <1>3, <1>4, <1>5, <1>6

\* A recovery is written down with its input.
LEMMA RecoverCovered ==
    ASSUME CoverInv, ControlInv, MayRecover, NEW class, Recover(class)
    PROVE  CoverInv'
<1>1. /\ pc = "settle" /\ pc' = "attempt" /\ UNCHANGED <<step, results>>
      /\ inputs' = inputs \cup {Input("recovery")}
      /\ actions' = actions \cup {Input("recovery")}
      /\ audit \subseteq audit'
  BY DEF Recover, MayRecover, Settled
<1>2. results \in Seq(Result)
  BY DEF ControlInv, LogTypeOK
<1>3. QED
  BY <1>1, <1>2, RecordedInputs

(* Every action keeps the record of the inputs complete.                   *)
LEMMA CoverStep == ControlInv /\ CoverInv /\ [Next]_vars => CoverInv'
<1> SUFFICES ASSUME ControlInv, CoverInv, [Next]_vars PROVE CoverInv'
  OBVIOUS
<1>0. results \in Seq(Result)
  BY DEF ControlInv, LogTypeOK
<1>1. CASE Setup \/ SetupRaises
  BY <1>0, <1>1, RecordedInputs DEF Setup, SetupRaises, log
<1>2. CASE SetupBlocked
  <2>1. results = <<>> /\ StepResult("ENV_BLOCKED", 0) \in Result
    BY <1>2, PlanAssumption DEF SetupBlocked, ControlInv, Position, StepResult, Result, Statuses, Steps
  <2>2. results' = Append(results, StepResult("ENV_BLOCKED", 0))
    BY <1>2, <2>1 DEF SetupBlocked
  <2>3. QED
    BY <1>0, <1>2, <2>1, <2>2, RecordedInputs DEF SetupBlocked
<1>3. CASE BeginAttempt
  <2>1. ASSUME NEW x \in inputs PROVE Covered(x)'
    BY <1>0, <1>3, <2>1, CoveredStays DEF BeginAttempt, CoverInv, log
  <2>2. pc' = "goal" => IsGoal(step)'
    BY <1>3 DEF BeginAttempt, IsGoal
  <2>3. QED
    BY <1>3, <2>1, <2>2 DEF BeginAttempt, CoverInv
<1>4. CASE Dispatch
  <2>1. /\ pc = "decide" /\ pc' = "observe" /\ UNCHANGED <<step, results, audit>>
        /\ inputs' \subseteq inputs \cup {Input("business")}
        /\ actions' = actions \cup {Input("business")}
    BY <1>4 DEF Dispatch
  <2>2. QED
    BY <1>0, <2>1, RecordedInputs
<1>5. CASE ControlContinues
  BY <1>0, <1>5, RecordedInputs DEF ControlContinues, log
<1>6. CASE ControlStops
  BY <1>0, <1>6, RecordedInputs DEF ControlStops
<1>7. CASE AtomicTargetNotFound
  BY <1>7, TargetNotFoundCovered DEF AtomicTargetNotFound
<1>8. CASE UnsupportedRealAction
  <2>1. StepResult("UNSUPPORTED", attempt - 1) \in Result
    BY <1>8, PlanAssumption DEF UnsupportedRealAction, ControlInv, Position, Running, Acting,
       StepResult, Result, Statuses, ControlTypeOK
  <2>2. QED
    BY <1>0, <1>8, <2>1, RecordedInputs DEF UnsupportedRealAction, StopWith
<1>9. CASE ModelRaises
  <2>1. PICK blocker \in BOOLEAN : StepRaises(FALSE, FALSE, blocker)
    BY <1>9 DEF ModelRaises
  <2>2. QED
    BY <1>9, <2>1, StepRaisesCovered DEF ModelRaises, CanAct
<1>10. CASE DeviceRaises
  <2>1. PICK type \in EmittedTypes, touched \in BOOLEAN :
          StepRaises(touched /\ Touches(type), type \in InputTypes, FALSE)
    BY <1>10 DEF DeviceRaises
  <2>2. pc = "decide"
    BY <1>10 DEF DeviceRaises
  <2>3. (touched /\ Touches(type)) \in BOOLEAN /\ (type \in InputTypes) \in BOOLEAN
    OBVIOUS
  <2>4. QED
    BY <2>1, <2>2, <2>3, StepRaisesCovered
<1>11. CASE MicroAction
  <2>1. /\ pc = "goal" /\ pc' = "goal" /\ UNCHANGED <<step, attempt, results, audit, actions>>
        /\ inputs' \subseteq inputs \cup {Input("business")}
    BY <1>11 DEF MicroAction, CanAct, log
  <2>2. IsGoal(step)
    BY <2>1 DEF CoverInv
  <2>3. QED
    BY <1>0, <2>1, <2>2, RecordedInputs
<1>12. CASE GoalEnds
  BY <1>0, <1>12, RecordedInputs DEF GoalEnds
<1>13. CASE GoalTargetNotFound
  BY <1>13, TargetNotFoundCovered DEF GoalTargetNotFound, CanAct
<1>14. CASE GoalDeviceRaises
  BY <1>14, StepRaisesCovered DEF GoalDeviceRaises, CanAct
<1>15. CASE Observe \/ Reobserve
  BY <1>0, <1>15, RecordedInputs DEF Observe, Reobserve, log
<1>16. CASE GateContinues
  <2>1. StepResult("STEP_COMPLETED", attempt) \in Result
    BY <1>16, PlanAssumption DEF GateContinues, Settled, ControlInv, Position, Running, Acting,
       StepResult, Result, Statuses, ControlTypeOK
  <2>2. /\ pc = "settle" /\ pc' \in {"attempt", "write"}
        /\ UNCHANGED <<actions, inputs>> /\ audit \subseteq audit'
        /\ results' = Append(results, StepResult("STEP_COMPLETED", attempt))
    BY <1>16 DEF GateContinues, Settled, CompleteStep
  <2>3. ASSUME NEW x \in inputs PROVE Covered(x)'
    BY <1>0, <2>1, <2>2, <2>3, CoveredStays DEF CoverInv
  <2>4. QED
    BY <2>2, <2>3 DEF CoverInv
<1>17. CASE DismissExternalOverlay \/ RecoverNavigationContext
  BY <1>17, RecoverCovered DEF DismissExternalOverlay, RecoverNavigationContext
<1>18. CASE GateStops
  <2> DEFINE status == IF gate.decision = "RETRY" THEN "INCONCLUSIVE"
                       ELSE StepStatusFromGate(gate.decision)
  <2>1. StepResult(status, attempt) \in Result
    BY <1>18, PlanAssumption DEF GateStops, Settled, ControlInv, Position, Running, Acting,
       StepResult, Result, Statuses, ControlTypeOK, StepStatusFromGate
  <2>2. /\ pc = "settle" /\ pc' = "write" /\ UNCHANGED <<step, actions, inputs>>
        /\ audit \subseteq audit' /\ results' = Append(results, StepResult(status, attempt))
    BY <1>18 DEF GateStops, Settled, StopWith
  <2> HIDE DEF status
  <2>3. QED
    BY <1>0, <2>1, <2>2, RecordedInputs
<1>19. CASE CaptureRaises
  BY <1>19 DEF CaptureRaises, CoverInv
<1>20. CASE WriteActions
  <2>1. ASSUME NEW x \in inputs PROVE Covered(x)'
    BY <1>0, <1>20, <2>1, CoveredStays DEF WriteActions, CoverInv, log
  <2>2. QED
    BY <1>20, <2>1 DEF WriteActions, CoverInv, log
<1>21. CASE UNCHANGED vars
  BY <1>21 DEF vars, CoverInv, Covered, IsGoal, Input
<1>22. QED
  BY <1>1, <1>2, <1>3, <1>4, <1>5, <1>6, <1>7, <1>8, <1>9, <1>10, <1>11, <1>12, <1>13, <1>14,
     <1>15, <1>16, <1>17, <1>18, <1>19, <1>20, <1>21 DEF Next, Finished

(* What a finished run saved names every input the app received, except    *)
(* those its log explains: a step that failed under the device's hands, a  *)
(* goal that ended by an exception (execute()'s except clauses).           *)
THEOREM SavedActionsTheorem == Spec => []SavedActionsCoverInputs
<1>1. Init => CoverInv
  BY DEF Init, CoverInv
<1>2. CoverInv => SavedActionsCoverInputs
  BY DEF CoverInv, Covered, SavedActionsCoverInputs
<1>3. QED
  BY <1>1, <1>2, CoverStep, ControlAlways, PTL DEF Spec

-----------------------------------------------------------------------------
(* The audit.                                                              *)

\* Step i has one entry for each of its first n attempts.
Audited(entries, i, n) ==
    /\ \A e \in entries : e.step = i => e.attempt \in 1 .. n
    /\ \A k \in 1 .. n : \E e \in entries : e.step = i /\ e.attempt = k
    /\ \A e, f \in entries : e.step = i /\ f.step = i /\ e.attempt = f.attempt => e = f

\* The attempts a result stands for.
Counted(r) == IF r.status = "UNSUPPORTED" THEN r.attempts + 1 ELSE r.attempts

\* Every result and the step under way have their entries, later steps none; the attempt
\* that is running has none yet.
AuditInv ==
    /\ \A i \in DOMAIN results : Audited(audit, i, Counted(results[i]))
    /\ \A e \in audit : e.step <= step
    /\ pc = "setup" => audit = {}
    /\ pc = "attempt" => Audited(audit, step, attempt)
    /\ pc \in Acting => Audited(audit, step, attempt - 1)

\* The entry of the attempt that ends is the next one of its step, and of no other.
LEMMA EntryAdded ==
    ASSUME ControlInv, AuditInv, pc \in Acting, NEW class \in RetryClasses, NEW d \in BOOLEAN
    PROVE  /\ Audited(audit \cup {Evidence(d, class)}, step, attempt)
           /\ \A e \in audit \cup {Evidence(d, class)} : e.step <= step
           /\ \A i \in DOMAIN results :
                Audited(audit \cup {Evidence(d, class)}, i, Counted(results[i]))
<1> DEFINE new == Evidence(d, class)
<1>1. /\ step \in Nat /\ attempt \in Nat /\ attempt > 0 /\ Len(results) = step - 1
      /\ results \in Seq(Result)
  BY PlanAssumption DEF ControlInv, ControlTypeOK, LogTypeOK, Position, Running, Acting, Steps
<1>2. new.step = step /\ new.attempt = attempt
  BY DEF Evidence
<1>3. \A e \in audit : e.step \in Nat /\ e.attempt \in Nat
  BY DEF ControlInv, LogTypeOK, AuditEntry, Steps
<1>4. Audited(audit, step, attempt - 1)
  BY DEF AuditInv
<1> HIDE DEF new
<1>5. Audited(audit \cup {new}, step, attempt)
  <2>1. \A e \in audit : e.step = step => e.attempt \in 1 .. attempt - 1
    BY <1>4 DEF Audited
  <2>2. \A e \in audit \cup {new} : e.step = step => e.attempt \in 1 .. attempt
    BY <1>1, <1>2, <2>1
  <2>3. \A k \in 1 .. attempt : \E e \in audit \cup {new} : e.step = step /\ e.attempt = k
    <3> SUFFICES ASSUME NEW k \in 1 .. attempt
                 PROVE  \E e \in audit \cup {new} : e.step = step /\ e.attempt = k
      OBVIOUS
    <3>1. CASE k = attempt
      BY <1>2, <3>1
    <3>2. CASE k # attempt
      <4>1. k \in 1 .. attempt - 1
        BY <1>1, <3>2
      <4>2. QED
        BY <1>4, <4>1 DEF Audited
    <3>3. QED
      BY <3>1, <3>2
  <2>4. \A e, f \in audit \cup {new} : e.step = step /\ f.step = step /\ e.attempt = f.attempt => e = f
    <3>1. \A e \in audit : e.step = step => e.attempt # attempt
      BY <1>1, <2>1
    <3>2. \A e, f \in audit : e.step = step /\ f.step = step /\ e.attempt = f.attempt => e = f
      BY <1>4 DEF Audited
    <3>3. QED
      BY <1>2, <3>1, <3>2
  <2>5. QED
    BY <2>2, <2>3, <2>4 DEF Audited
<1>6. \A e \in audit \cup {new} : e.step <= step
  BY <1>1, <1>2 DEF AuditInv
<1>7. ASSUME NEW i \in DOMAIN results
      PROVE  Audited(audit \cup {new}, i, Counted(results[i]))
  <2>1. i # step
    BY <1>1
  <2>2. Audited(audit, i, Counted(results[i]))
    BY DEF AuditInv
  <2>3. QED
    BY <1>2, <2>1, <2>2 DEF Audited
<1>8. QED
  BY <1>5, <1>6, <1>7 DEF new

\* A step that ends has an entry for every attempt its result counts.
LEMMA ResultIsAudited ==
    ASSUME ControlInv, AuditInv, pc \in Acting, NEW class \in RetryClasses, NEW d \in BOOLEAN,
           audit' = audit \cup {Evidence(d, class)},
           NEW status \in Statuses, NEW n \in Nat, Counted(StepResult(status, n)) = attempt,
           results' = Append(results, StepResult(status, n)), step' \in {step, step + 1}
    PROVE  /\ \A i \in DOMAIN results' : Audited(audit', i, Counted(results'[i]))
           /\ \A e \in audit' : e.step <= step'
           /\ step' = step + 1 => Audited(audit', step', 0)
<1>1. /\ step \in Nat /\ attempt \in Nat /\ Len(results) = step - 1 /\ results \in Seq(Result)
      /\ step \in Steps
  BY PlanAssumption DEF ControlInv, ControlTypeOK, LogTypeOK, Position, Running, Acting, Steps
<1>2. /\ Audited(audit', step, attempt)
      /\ \A e \in audit' : e.step <= step
      /\ \A i \in DOMAIN results : Audited(audit', i, Counted(results[i]))
  BY EntryAdded
<1> DEFINE r == StepResult(status, n)
<1>3. r \in Result
  BY <1>1 DEF Result, StepResult
<1> HIDE DEF r
<1>4. /\ DOMAIN results' = 1 .. step /\ results'[step] = r
      /\ \A i \in 1 .. step - 1 : i \in DOMAIN results /\ results'[i] = results[i]
  <2>1. results' = Append(results, r)
    BY DEF r
  <2>2. QED
    BY <1>1, <1>3, <2>1
<1>5. ASSUME NEW i \in DOMAIN results' PROVE Audited(audit', i, Counted(results'[i]))
  <2>1. CASE i = step
    BY <1>2, <1>4, <2>1 DEF r
  <2>2. CASE i # step
    <3>1. i \in 1 .. step - 1
      BY <1>1, <1>4, <2>2
    <3>2. QED
      BY <1>2, <1>4, <3>1
  <2>3. QED
    BY <2>1, <2>2
<1>6. \A e \in audit' : e.step \in Nat /\ e.step <= step
  <2>1. \A e \in audit : e.step \in Nat
    BY DEF ControlInv, LogTypeOK, AuditEntry, Steps
  <2>2. Evidence(d, class).step = step
    BY DEF Evidence
  <2>3. QED
    BY <1>1, <1>2, <2>1, <2>2
<1>7. \A e \in audit' : e.step <= step' /\ (step' = step + 1 => e.step # step')
  BY <1>1, <1>6
<1>8. step' = step + 1 => Audited(audit', step', 0)
  BY <1>7 DEF Audited
<1>9. QED
  BY <1>5, <1>7, <1>8

\* A step that stops, a step that is tried again.
LEMMA StopIsAudited ==
    ASSUME ControlInv, AuditInv, pc \in Acting, NEW class \in RetryClasses, NEW d \in BOOLEAN,
           audit' = audit \cup {Evidence(d, class)},
           NEW status \in Statuses, NEW n \in Nat, Counted(StepResult(status, n)) = attempt,
           StopWith(status, n)
    PROVE  AuditInv'
<1>1. results' = Append(results, StepResult(status, n)) /\ pc' = "write" /\ step' = step
  BY DEF StopWith
<1>2. /\ \A i \in DOMAIN results' : Audited(audit', i, Counted(results'[i]))
      /\ \A e \in audit' : e.step <= step'
  BY <1>1, ResultIsAudited
<1>3. QED
  BY <1>1, <1>2 DEF AuditInv, Acting

LEMMA RetryIsAudited ==
    ASSUME ControlInv, AuditInv, pc \in Acting, NEW class \in RetryClasses, NEW d \in BOOLEAN,
           audit' = audit \cup {Evidence(d, class)}, pc' = "attempt",
           UNCHANGED <<step, attempt, results>>
    PROVE  AuditInv'
BY EntryAdded DEF AuditInv, Acting

LEMMA SameAudit ==
    ASSUME ControlInv, AuditInv, UNCHANGED <<step, audit, results>>,
           \/ pc \in Acting /\ pc' \in Acting /\ attempt' = attempt
           \/ pc = "attempt" /\ pc' \in Acting /\ attempt' = attempt + 1
           \/ pc = "setup" /\ pc' = "attempt" /\ attempt' = attempt
           \/ pc' \in Over
           \/ pc' = pc /\ attempt' = attempt
    PROVE  AuditInv'
<1>1. attempt \in Nat
  BY DEF ControlInv, ControlTypeOK
<1>2. CASE pc \in Acting /\ pc' \in Acting /\ attempt' = attempt
  BY <1>2 DEF AuditInv, Acting
<1>3. CASE pc = "attempt" /\ pc' \in Acting /\ attempt' = attempt + 1
  <2>1. attempt' - 1 = attempt
    BY <1>1, <1>3
  <2>2. QED
    BY <1>3, <2>1 DEF AuditInv, Acting
<1>4. CASE pc = "setup" /\ pc' = "attempt" /\ attempt' = attempt
  <2>1. audit = {} /\ attempt = 0
    BY <1>4 DEF AuditInv, ControlInv, Position
  <2>2. QED
    BY <1>4, <2>1 DEF AuditInv, Acting, Audited
<1>5. CASE pc' \in Over
  BY <1>5 DEF AuditInv, Acting, Over
<1>6. CASE pc' = pc /\ attempt' = attempt
  BY <1>6 DEF AuditInv
<1>7. QED
  BY <1>2, <1>3, <1>4, <1>5, <1>6

LEMMA AuditInit == Init => AuditInv
BY DEF Init, AuditInv, Acting

\* A dispatch that found no target, an exception: one entry, then a retry or the end.
LEMMA TargetNotFoundIsAudited ==
    ASSUME ControlInv, AuditInv, pc \in Acting, NEW retryable \in BOOLEAN,
           TargetNotFound(retryable)
    PROVE  AuditInv'
<1> DEFINE g == EvaluateDispatchFailureGate(retryable, attempt, Plan[step].retries)
           class == IF g.decision = "RETRY" THEN "PRE_DISPATCH_RETRY" ELSE "NO_REDISPATCH"
           status == StepStatusFromGate(g.decision)
<1>1. /\ audit' = audit \cup {Evidence(FALSE, class)}
      /\ \/ pc' = "attempt" /\ UNCHANGED <<results, step, attempt>>
         \/ StopWith(status, attempt)
  BY DEF TargetNotFound
<1>2. class \in RetryClasses /\ attempt \in Nat
  BY DEF RetryClasses, ControlInv, ControlTypeOK
<1>3. status \in Statuses /\ status # "UNSUPPORTED"
  BY DEF Statuses, StepStatusFromGate
<1> HIDE DEF g, class, status
<1>4. CASE pc' = "attempt" /\ UNCHANGED <<results, step, attempt>>
  BY <1>1, <1>2, <1>4, RetryIsAudited
<1>5. CASE StopWith(status, attempt)
  <2>1. Counted(StepResult(status, attempt)) = attempt
    BY <1>3 DEF Counted, StepResult
  <2>2. QED
    BY <1>1, <1>2, <1>3, <1>5, <2>1, StopIsAudited
<1>6. QED
  BY <1>1, <1>4, <1>5

LEMMA StepRaisesIsAudited ==
    ASSUME ControlInv, AuditInv, pc \in Acting,
           NEW touched \in BOOLEAN, NEW partial \in BOOLEAN, NEW blocker \in BOOLEAN,
           StepRaises(touched, partial, blocker)
    PROVE  AuditInv'
<1> DEFINE status == IF blocker THEN "ENV_BLOCKED"
                     ELSE IF partial THEN "INCONCLUSIVE" ELSE "STEP_FAILED"
<1>1. audit' = audit \cup {Evidence(partial, "NO_REDISPATCH")} /\ StopWith(status, attempt)
  BY DEF StepRaises
<1>2. status \in Statuses /\ "NO_REDISPATCH" \in RetryClasses /\ attempt \in Nat
  BY DEF Statuses, RetryClasses, ControlInv, ControlTypeOK
<1>3. Counted(StepResult(status, attempt)) = attempt
  BY DEF Counted, StepResult
<1> HIDE DEF status
<1>4. QED
  BY <1>1, <1>2, <1>3, StopIsAudited

(* Every action keeps one entry for each attempt.                          *)
LEMMA AuditStep == ControlInv /\ AuditInv /\ [Next]_vars => AuditInv'
<1> SUFFICES ASSUME ControlInv, AuditInv, [Next]_vars PROVE AuditInv'
  OBVIOUS
<1>0. attempt \in Nat /\ "NO_REDISPATCH" \in RetryClasses
  BY DEF ControlInv, ControlTypeOK, RetryClasses
<1>1. CASE Setup
  BY <1>1, SameAudit DEF Setup
<1>2. CASE SetupBlocked
  <2>1. audit = {} /\ audit' = audit
    BY <1>2 DEF SetupBlocked, AuditInv
  <2>2. results' = <<StepResult("ENV_BLOCKED", 0)>> /\ pc' = "blocked"
    BY <1>2 DEF SetupBlocked
  <2>3. DOMAIN results' = {1} /\ Counted(results'[1]) = 0
    BY <2>2 DEF Counted, StepResult
  <2>4. Audited({}, 1, 0)
    BY DEF Audited
  <2>5. QED
    BY <2>1, <2>2, <2>3, <2>4 DEF AuditInv, Acting
<1>3. CASE SetupRaises
  BY <1>3, SameAudit DEF SetupRaises, log, Over
<1>4. CASE BeginAttempt
  BY <1>4, SameAudit DEF BeginAttempt, log, Acting
<1>5. CASE Dispatch
  BY <1>5, SameAudit DEF Dispatch, Acting
<1>6. CASE ControlContinues
  BY <1>6, SameAudit DEF ControlContinues, log, Acting
<1>7. CASE ControlStops
  BY <1>7, SameAudit DEF ControlStops, Acting
<1>8. CASE AtomicTargetNotFound
  BY <1>8, TargetNotFoundIsAudited DEF AtomicTargetNotFound, Acting
<1>9. CASE UnsupportedRealAction
  <2>1. /\ pc \in Acting /\ StopWith("UNSUPPORTED", attempt - 1)
        /\ audit' = audit \cup {Evidence(FALSE, "NO_REDISPATCH")}
    BY <1>9 DEF UnsupportedRealAction, Acting
  <2>2. attempt - 1 \in Nat
    BY <1>0, <2>1 DEF ControlInv, Position
  <2>3. "UNSUPPORTED" \in Statuses /\ Counted(StepResult("UNSUPPORTED", attempt - 1)) = attempt
    BY <1>0 DEF Statuses, Counted, StepResult
  <2>4. QED
    BY <1>0, <2>1, <2>2, <2>3, StopIsAudited
<1>10. CASE ModelRaises
  BY <1>10, StepRaisesIsAudited DEF ModelRaises, CanAct, Acting
<1>11. CASE DeviceRaises
  <2>1. PICK type \in EmittedTypes, touched \in BOOLEAN :
            StepRaises(touched /\ Touches(type), type \in InputTypes, FALSE)
    BY <1>11 DEF DeviceRaises
  <2>2. (touched /\ Touches(type)) \in BOOLEAN /\ (type \in InputTypes) \in BOOLEAN
    OBVIOUS
  <2>3. pc \in Acting
    BY <1>11 DEF DeviceRaises, Acting
  <2>4. QED
    BY <2>1, <2>2, <2>3, StepRaisesIsAudited
<1>12. CASE MicroAction
  BY <1>12, SameAudit DEF MicroAction, log
<1>13. CASE GoalEnds
  BY <1>13, SameAudit DEF GoalEnds, Acting
<1>14. CASE GoalTargetNotFound
  BY <1>14, TargetNotFoundIsAudited DEF GoalTargetNotFound, CanAct, Acting
<1>15. CASE GoalDeviceRaises
  BY <1>15, StepRaisesIsAudited DEF GoalDeviceRaises, CanAct, Acting
<1>16. CASE Observe
  BY <1>16, SameAudit DEF Observe, log, Acting
<1>17. CASE Reobserve
  BY <1>17, SameAudit DEF Reobserve, log
<1>18. CASE GateContinues
  <2> DEFINE class == IF reobserved THEN "REOBSERVE_THEN_CONTINUE" ELSE "CONTINUE"
  <2>1. /\ pc \in Acting /\ audit' = audit \cup {Evidence(TRUE, class)}
        /\ results' = Append(results, StepResult("STEP_COMPLETED", attempt))
        /\ step' = step + 1 /\ attempt' = 0 /\ pc' \in {"write", "attempt"}
    BY <1>18 DEF GateContinues, Settled, CompleteStep, Acting
  <2>2. class \in RetryClasses /\ "STEP_COMPLETED" \in Statuses
        /\ Counted(StepResult("STEP_COMPLETED", attempt)) = attempt
    BY DEF RetryClasses, Statuses, Counted, StepResult
  <2> HIDE DEF class
  <2>3. /\ \A i \in DOMAIN results' : Audited(audit', i, Counted(results'[i]))
        /\ \A e \in audit' : e.step <= step'
        /\ Audited(audit', step', 0)
    BY <1>0, <2>1, <2>2, ResultIsAudited
  <2>4. QED
    BY <2>1, <2>3 DEF AuditInv, Acting
<1>19. CASE DismissExternalOverlay \/ RecoverNavigationContext
  <2>1. PICK class \in RetryClasses : Recover(class)
    BY <1>19 DEF DismissExternalOverlay, RecoverNavigationContext, RetryClasses
  <2>2. pc \in Acting
    BY <1>19 DEF DismissExternalOverlay, RecoverNavigationContext, MayRecover, Settled, Acting
  <2>3. QED
    BY <2>1, <2>2, RetryIsAudited DEF Recover
<1>20. CASE GateStops
  <2> DEFINE status == IF gate.decision = "RETRY" THEN "INCONCLUSIVE"
                       ELSE StepStatusFromGate(gate.decision)
  <2>1. /\ pc \in Acting /\ audit' = audit \cup {Evidence(TRUE, "NO_REDISPATCH")}
        /\ StopWith(status, attempt)
    BY <1>20 DEF GateStops, Settled, Acting
  <2>2. status \in Statuses /\ Counted(StepResult(status, attempt)) = attempt
    BY DEF Statuses, StepStatusFromGate, Counted, StepResult
  <2> HIDE DEF status
  <2>3. QED
    BY <1>0, <2>1, <2>2, StopIsAudited
<1>21. CASE CaptureRaises
  BY <1>21, SameAudit DEF CaptureRaises, log, Over
<1>22. CASE WriteActions
  BY <1>22, SameAudit DEF WriteActions, log, Over
<1>23. CASE UNCHANGED vars
  BY <1>23, SameAudit DEF vars
<1>24. QED
  BY <1>1, <1>2, <1>3, <1>4, <1>5, <1>6, <1>7, <1>8, <1>9, <1>10, <1>11, <1>12, <1>13, <1>14,
     <1>15, <1>16, <1>17, <1>18, <1>19, <1>20, <1>21, <1>22, <1>23 DEF Next, Finished

(* Every attempt leaves exactly one audit entry, and the attempts a result *)
(* counts are those of its step's entries (and the refused one, for an     *)
(* UNSUPPORTED step).                                                      *)
THEOREM AuditedTheorem == Spec => []AttemptsAreAudited
<1>1. AuditInv => AttemptsAreAudited
  <2> SUFFICES ASSUME AuditInv, NEW i \in DOMAIN results
               PROVE  /\ {e.attempt : e \in {e \in audit : e.step = i}} = 1 .. Counted(results[i])
                      /\ \A e, f \in {e \in audit : e.step = i} : e.attempt = f.attempt => e = f
    BY DEF AttemptsAreAudited, Counted
  <2>1. Audited(audit, i, Counted(results[i]))
    BY DEF AuditInv
  <2>2. QED
    BY <2>1 DEF Audited
<1>2. Spec => []AuditInv
  BY AuditInit, AuditStep, ControlAlways, PTL DEF Spec
<1>3. QED
  BY <1>1, <1>2, PTL

====

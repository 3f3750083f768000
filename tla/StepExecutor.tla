---------------------------- MODULE StepExecutor ----------------------------
(***************************************************************************)
(* MobiAgentStepExecutor.execute (app_test_agent/mobiagent_executor.py):   *)
(* the loop that drives a real device through the steps of a test case.    *)
(* Each step is attempted at most max_retries + 1 times; an attempt asks   *)
(* the decision model for an action, sends it to the device, observes a    *)
(* burst of frames and lets the Step Gate decide.  The model, the device   *)
(* and the screen are the environment: what they answer is chosen by \E.   *)
(*                                                                         *)
(* "inputs" is a history variable: what really reached the app.  "actions" *)
(* and "audit" are what the code writes about it.                          *)
(***************************************************************************)
EXTENDS StepGate

CONSTANTS
    Plan,           \* the test case's steps, a sequence of step records
    MaxBurst,       \* longest observation burst (the length of the schedule)
    MaxControls     \* bound: how often the model asks for the user in one attempt

Steps == 1 .. Len(Plan)
IsGoal(i) == Plan[i].kind = "GUI_TASK"

StepRecord == [kind : StepKinds, mode : {"ATOMIC", "GOAL"}, role : Roles, retries : Nat,
               value : BOOLEAN, context : BOOLEAN, budget : Nat \ {0}]

ASSUME PlanAssumption ==
    /\ Plan \in Seq(StepRecord)
    /\ Len(Plan) > 0
    /\ \A i \in Steps : IsGoal(i) => Plan[i].mode = "GOAL"

ASSUME BurstAssumption == MaxBurst \in Nat \ {0}
ASSUME ControlsAssumption == MaxControls \in Nat

VARIABLES
    pc,             \* where execute() is
    step,           \* step_index, from 1
    attempt,        \* attempts
    actionIndex,    \* action_index: one number per attempt of the whole run
    frames,         \* frames: recorded observations, [id, by]
    nextFrame,      \* next_frame_id
    disk,           \* files <id>.jpg/.xml: the attempt that wrote each last
    record,         \* action_record of the attempt, and goal_frames
    controls,       \* len(control_events)
    gate,           \* gate of the attempt
    reobserved,     \* reobserve_count = 1
    actions,        \* actions: appended records
    audit,          \* attempt_evidence of every step
    results,        \* step_results
    saved,          \* the content of actions.json, {} until it is written
    inputs          \* history: inputs the device received

vars == <<pc, step, attempt, actionIndex, frames, nextFrame, disk, record, controls,
          gate, reobserved, actions, audit, results, saved, inputs>>

world == <<frames, nextFrame, disk>>
log   == <<actions, audit, results>>

Locations == {"setup", "attempt", "decide", "goal", "observe", "settle", "write",
              "done", "blocked", "escaped"}
Over == {"write", "done", "blocked", "escaped"}
Terminal == {"done", "blocked", "escaped"}

Statuses == {"STEP_COMPLETED", "STEP_FAILED", "ENV_BLOCKED", "INCONCLUSIVE", "UNSUPPORTED"}
RetryClasses == {"PRE_DISPATCH_RETRY", "SAFE_OVERLAY_RECOVERY", "SAFE_NAVIGATION_RECOVERY",
                 "CONTINUE", "REOBSERVE_THEN_CONTINUE", "NO_REDISPATCH"}
RecoveryClasses == {"SAFE_OVERLAY_RECOVERY", "SAFE_NAVIGATION_RECOVERY"}
Hows == {"business", "recovery"}

-----------------------------------------------------------------------------
(* Helpers. *)

Input(how) == [step |-> step, attempt |-> attempt, how |-> how]

\* runner actions that change nothing on the device
PassiveTypes == {"wait"} \cup ControlTypes
Touches(type) == type \notin PassiveTypes

\* n frames captured from id "first" on, by the attempt that is running
Burst(first, n) == [k \in 1 .. n |-> [id |-> first + k - 1, by |-> actionIndex]]

\* the capture writes <id>.jpg and <id>.xml, over a file of that name
Written(burst) ==
    [i \in DOMAIN disk \cup {burst[k].id : k \in DOMAIN burst} |->
        IF \E k \in DOMAIN burst : burst[k].id = i THEN actionIndex ELSE disk[i]]

NoRecord == [type |-> "none", target |-> "CONFORMANT", overlay |-> FALSE, safe |-> FALSE,
             context |-> "none", effect |-> "none",
             frames |-> <<>>, micro |-> <<>>, finished |-> FALSE]
NoGate == Gate("INCONCLUSIVE", "UNKNOWN", "UNKNOWN", "UNKNOWN")

\* Mutant: attempts counted from 0 in the audit.
EvidenceFromZero(dispatched, class) ==
    [step |-> step, attempt |-> attempt - 1, dispatched |-> dispatched, class |-> class]

Evidence(dispatched, class) ==
    [step |-> step, attempt |-> attempt, dispatched |-> dispatched, class |-> class]

\* Mutant: the gate's decision taken for a step status.
StepStatusIsDecision(decision) == decision

StepStatusFromGate(decision) ==
    IF decision \in {"ENV_BLOCKED", "INCONCLUSIVE"} THEN decision ELSE "STEP_FAILED"

StepResult(status, n) == [step |-> step, status |-> status, attempts |-> n]

\* Mutants: no "break" after a failed step, or after an inconclusive one.
ContinueAfter(status, n) ==
    /\ results' = Append(results, StepResult(status, n))
    /\ step' = step + 1
    /\ attempt' = 0
    /\ pc' = IF step = Len(Plan) THEN "write" ELSE "attempt"

ContinueAfterInconclusive(status, n) ==
    IF status = "INCONCLUSIVE" THEN ContinueAfter(status, n)
    ELSE /\ results' = Append(results, StepResult(status, n))
         /\ pc' = "write"
         /\ UNCHANGED <<step, attempt>>

\* A step that ends without STEP_COMPLETED ends both loops.
StopWith(status, n) ==
    /\ results' = Append(results, StepResult(status, n))
    /\ pc' = "write"
    /\ UNCHANGED <<step, attempt>>

CompleteStep ==
    /\ results' = Append(results, StepResult("STEP_COMPLETED", attempt))
    /\ step' = step + 1
    /\ attempt' = 0
    /\ pc' = IF step = Len(Plan) THEN "write" ELSE "attempt"

-----------------------------------------------------------------------------
(* Before the first step. *)

Init ==
    /\ pc = "setup"
    /\ step = 1 /\ attempt = 0 /\ actionIndex = 0
    /\ frames = <<>> /\ nextFrame = 0 /\ disk = <<>>
    /\ record = NoRecord /\ controls = 0 /\ gate = NoGate /\ reobserved = FALSE
    /\ actions = {} /\ audit = {} /\ results = <<>>
    /\ saved = {}
    /\ inputs = {}

\* Model service, device, app start and the initial frame are all fine.
Setup ==
    /\ pc = "setup"
    /\ frames' = Burst(0, 1) /\ disk' = Written(Burst(0, 1)) /\ nextFrame' = 1
    /\ pc' = "attempt"
    /\ UNCHANGED <<step, attempt, actionIndex, record, controls, gate, reobserved,
                   actions, audit, results, saved, inputs>>

\* One of them is blocked: the whole record is one ENV_BLOCKED result.
SetupBlocked ==
    /\ pc = "setup"
    /\ results' = <<StepResult("ENV_BLOCKED", 0)>>
    /\ pc' = "blocked"
    /\ UNCHANGED <<step, attempt, actionIndex, world, record, controls, gate, reobserved,
                   actions, audit, saved, inputs>>

\* The model service check fails for a reason that is no blocker.
SetupRaises ==
    /\ pc = "setup"
    /\ pc' = "escaped"
    /\ UNCHANGED <<step, attempt, actionIndex, world, record, controls, gate, reobserved,
                   log, saved, inputs>>

-----------------------------------------------------------------------------
(* An attempt, up to the dispatch of its action. *)

\* Mutant: a retry starts over without counting.
BeginAttemptUncounted ==
    /\ pc = "attempt"
    /\ attempt' = 1 /\ actionIndex' = step
    /\ record' = NoRecord /\ controls' = 0 /\ gate' = NoGate /\ reobserved' = FALSE
    /\ pc' = IF IsGoal(step) THEN "goal" ELSE "decide"
    /\ UNCHANGED <<step, world, log, saved, inputs>>

BeginAttempt ==
    /\ pc = "attempt"
    /\ attempt <= Plan[step].retries
    /\ attempt' = attempt + 1
    /\ actionIndex' = actionIndex + 1
    /\ record' = NoRecord /\ controls' = 0 /\ gate' = NoGate /\ reobserved' = FALSE
    /\ pc' = IF IsGoal(step) THEN "goal" ELSE "decide"
    /\ UNCHANGED <<step, world, log, saved, inputs>>

\* Types the attempt may emit: fixed for OPEN_APP, WAIT and BACK, the model's
\* choice among the expected ones for CLICK and INPUT.
EmittedTypes == AllowedTypes(Plan[step].kind)

\* What the hit-test found under the point that was clicked: the target, an
\* external window over it, and whether the click is provably the declared
\* navigation (_safe_navigation_recovery_action knows fewer roles than the gate).
HitTargets(type) == IF type \in ClickTypes THEN Targets ELSE {"CONFORMANT"}
ExternalWindow(type) == IF type \in ClickTypes THEN BOOLEAN ELSE {FALSE}
SafeNavigation(type) ==
    IF type = "click" /\ Plan[step].role = "thread" THEN BOOLEAN ELSE {FALSE}

ClickRecord(type, target, overlay, safe) ==
    [NoRecord EXCEPT !.type = type, !.target = target, !.overlay = overlay, !.safe = safe]

Emitted(type) ==
    {ClickRecord(type, t, o, f) :
        t \in HitTargets(type), o \in ExternalWindow(type), f \in SafeNavigation(type)}

ModelDecides == Plan[step].kind \in {"CLICK", "INPUT"}
InputWithoutValue == Plan[step].kind = "INPUT" /\ ~Plan[step].value

Dispatch ==
    /\ pc = "decide" /\ ~InputWithoutValue
    /\ \E type \in EmittedTypes :
        /\ record' \in Emitted(type)
        /\ inputs' = IF Touches(type) THEN inputs \cup {Input("business")} ELSE inputs
    /\ actions' = actions \cup {Input("business")}
    /\ pc' = "observe"
    /\ UNCHANGED <<step, attempt, actionIndex, world, controls, gate, reobserved,
                   audit, results, saved>>

\* info or call_user, answered by the user: the model is asked again.
ControlContinues ==
    /\ pc = "decide" /\ ModelDecides /\ ~InputWithoutValue
    /\ controls < MaxControls
    /\ controls' = controls + 1
    /\ UNCHANGED <<pc, step, attempt, actionIndex, world, record, gate, reobserved,
                   log, saved, inputs>>

\* abort, or a request nobody answers: its record goes to the gate.
ControlStops ==
    /\ pc = "decide" /\ ModelDecides /\ ~InputWithoutValue
    /\ \E type \in ControlTypes : record' \in Emitted(type)
    /\ actions' = actions \cup {Input("business")}
    /\ pc' = "observe"
    /\ UNCHANGED <<step, attempt, actionIndex, world, controls, gate, reobserved,
                   audit, results, saved, inputs>>

\* _TargetNotFound: "done" too early or no usable target (retryable), a wrong
\* or malformed decision (not).  "Pre-dispatch" for an atomic step; a goal may
\* already have dispatched some of its micro-actions.
TargetNotFound(retryable) ==
    LET g == EvaluateDispatchFailureGate(retryable, attempt, Plan[step].retries)
        retry == g.decision = "RETRY"
    IN  /\ gate' = g
        /\ audit' = audit \cup
               {Evidence(FALSE, IF retry THEN "PRE_DISPATCH_RETRY" ELSE "NO_REDISPATCH")}
        /\ record' = NoRecord
        /\ \/ /\ retry
              /\ pc' = "attempt"
              /\ UNCHANGED <<results, step, attempt>>
           \/ /\ ~retry
              /\ StopWith(StepStatusFromGate(g.decision), attempt)
        /\ UNCHANGED <<actionIndex, frames, nextFrame, disk, controls, reobserved, actions, saved, inputs>>

AtomicTargetNotFound ==
    /\ pc = "decide" /\ ModelDecides /\ ~InputWithoutValue
    /\ \E retryable \in BOOLEAN : TargetNotFound(retryable)

UnsupportedRealAction ==
    /\ pc = "decide" /\ InputWithoutValue
    /\ audit' = audit \cup {Evidence(FALSE, "NO_REDISPATCH")}
    /\ StopWith("UNSUPPORTED", attempt - 1)
    /\ UNCHANGED <<actionIndex, world, record, controls, gate, reobserved, actions, saved, inputs>>

\* Any other exception out of the attempt.  Input handlers attach their record
\* (partial) before they touch the device; the others leave none, though the
\* device may have acted (touched) before it raised.
StepRaises(touched, partial, blocker) ==
    /\ inputs' = IF touched THEN inputs \cup {Input("business")} ELSE inputs
    /\ actions' = IF partial THEN actions \cup {Input("business")} ELSE actions
    /\ audit' = audit \cup {Evidence(partial, "NO_REDISPATCH")}
    /\ record' = NoRecord
    /\ StopWith(IF blocker THEN "ENV_BLOCKED"
                ELSE IF partial THEN "INCONCLUSIVE" ELSE "STEP_FAILED", attempt)
    /\ UNCHANGED <<actionIndex, frames, nextFrame, disk, controls, gate, reobserved, saved>>

\* A goal asks for one more micro-action.
CanAct == /\ pc = "goal"
          /\ ~record.finished
          /\ Len(record.micro) < Plan[step].budget

\* The model client raises: before the dispatch, perhaps as a service blocker.
ModelRaises ==
    /\ \/ pc = "decide" /\ ModelDecides /\ ~InputWithoutValue
       \/ CanAct
    /\ \E blocker \in BOOLEAN : StepRaises(FALSE, FALSE, blocker)

\* The device raises while it takes the action.
DeviceRaises ==
    /\ pc = "decide" /\ ~InputWithoutValue /\ Plan[step].kind # "WAIT"
    /\ \E type \in EmittedTypes, touched \in BOOLEAN :
        StepRaises(touched /\ Touches(type), type \in InputTypes, FALSE)

-----------------------------------------------------------------------------
(* The micro-actions of a GUI_TASK. *)

GoalTypes == AllowedTypes("GUI_TASK") \ {"gui_task"}

\* Mutant: every micro-action starts at the same frame id.
GoalFrameReused == nextFrame

\* Whether the last goal frame (or, before the first action, the current
\* frame) shows the stage result is the screen's choice at each look.
GoalFrame == nextFrame + Len(record.frames)

MicroViews ==
    [env : BOOLEAN, shows : BOOLEAN, stage : BOOLEAN, next : {"no_next_step"},
     nextText : {FALSE}, delta : {"SAME", "PAGE_CHANGED"}]

MicroRecords(type) ==
    [type : {type}, continued : IF type \in {"info", "call_user"} THEN BOOLEAN ELSE {FALSE},
     sameText : {TRUE}, direction : BOOLEAN, target : Targets, context : {"none"},
     effect : IF type \in InputTypes THEN {"CONFORMANT", "NON_CONFORMANT"} ELSE {"none"},
     micro : {<<>>}]

MicroGates(type) ==
    {EvaluateMicroActionGate(Plan[step], a, v) : a \in MicroRecords(type), v \in MicroViews}

\* The goal's record gains a burst and a verdict; the loop breaks when the
\* stage result is confirmed or the micro-gate does not continue.
WithMicroAction(burst, g, confirmed) ==
    [record EXCEPT !.type = "gui_task",
                   !.frames = @ \o burst,
                   !.micro = Append(@, [decision |-> g.decision, target |-> g.target]),
                   !.finished = confirmed \/ g.decision # "CONTINUE"]

\* One turn of the loop: decide, dispatch, observe, micro-gate.
MicroAction ==
    /\ CanAct
    /\ \E type \in GoalTypes, n \in 1 .. MaxBurst, confirmed \in BOOLEAN :
        /\ \E g \in MicroGates(type) :
            record' = WithMicroAction(Burst(GoalFrame, n), g, confirmed)
        /\ disk' = Written(Burst(GoalFrame, n))
        /\ inputs' = IF Touches(type) THEN inputs \cup {Input("business")} ELSE inputs
    /\ UNCHANGED <<pc, step, attempt, actionIndex, frames, nextFrame, controls, gate, reobserved,
                   log, saved>>

\* Mutant: the goal's record is not kept.
GoalEndsUnrecorded ==
    /\ pc = "goal"
    /\ record.micro # <<>>
    /\ pc' = "observe"
    /\ UNCHANGED <<step, attempt, actionIndex, world, record, controls, gate, reobserved,
                   log, saved, inputs>>

\* The budget is spent, the stage result is confirmed (perhaps by the frame the
\* step started from), the model has no further action or says "done".
GoalEnds ==
    /\ pc = "goal"
    /\ record.micro # <<>>
    /\ actions' = actions \cup {Input("business")}
    /\ pc' = "observe"
    /\ UNCHANGED <<step, attempt, actionIndex, world, record, controls, gate, reobserved,
                   audit, results, saved, inputs>>

\* A goal without any emitted action is a failed dispatch.  A forbidden or
\* malformed micro-decision raises too, and so does a grounder without a
\* target - which is retryable - whatever was dispatched before.
GoalTargetNotFound ==
    /\ CanAct
    /\ \E retryable \in BOOLEAN : TargetNotFound(retryable)

\* The device or a capture raises after "touched" micro-actions.
GoalDeviceRaises ==
    /\ CanAct
    /\ \E touched, partial \in BOOLEAN : StepRaises(touched, partial, FALSE)

-----------------------------------------------------------------------------
(* After the dispatch: observation, gate, recovery. *)

\* post_action_context, over all frames of the attempt: once the destination
\* was seen it stays seen.
Contexts == IF ~Plan[step].context THEN {"none"}
            ELSE IF record.context = "CONFORMANT" THEN {"CONFORMANT"}
            ELSE {"CONFORMANT", "NON_CONFORMANT", "UNKNOWN"}

\* input_effect is evaluated on the first burst and kept.
Effects == IF record.type \notin InputTypes THEN {"none"}
           ELSE IF reobserved THEN {record.effect}
           ELSE {"CONFORMANT", "NON_CONFORMANT"}

GateRecord(context, effect) ==
    [type |-> record.type, continued |-> FALSE, sameText |-> record.type \notin ControlTypes,
     direction |-> TRUE, target |-> record.target, context |-> context, effect |-> effect,
     micro |-> record.micro]

Views ==
    [env : BOOLEAN, shows : BOOLEAN, stage : BOOLEAN,
     next : IF step < Len(Plan) THEN {"CONFORMANT", "UNKNOWN"} ELSE {"no_next_step"},
     nextText : {FALSE}, delta : {"SAME", "PAGE_CHANGED"}]

\* The goal's own frames, seen before the burst, join "frames" with it.
ObserveAndJudge(goalFrames) ==
    \E n \in 1 .. MaxBurst, context \in Contexts, effect \in Effects, v \in Views :
        LET burst == Burst(nextFrame + Len(goalFrames), n)
        IN  /\ gate' = EvaluateStepGate(Plan[step], GateRecord(context, effect), v, attempt)
            /\ record' = [record EXCEPT !.context = context, !.effect = effect]
            /\ frames' = frames \o goalFrames \o burst
            /\ nextFrame' = nextFrame + Len(goalFrames) + n
            /\ disk' = Written(burst)

Observe ==
    /\ pc = "observe"
    /\ ObserveAndJudge(record.frames)
    /\ pc' = "settle"
    /\ UNCHANGED <<step, attempt, actionIndex, controls, reobserved, log, saved, inputs>>

\* Insufficient evidence: look once more, touch nothing.  (Every record of an
\* attempt carries its action_index, so _has_dispatched_action always holds.)
Reobserve ==
    /\ pc = "settle"
    /\ gate.decision = "INCONCLUSIVE" /\ ~reobserved
    /\ reobserved' = TRUE
    /\ ObserveAndJudge(<<>>)
    /\ UNCHANGED <<pc, step, attempt, actionIndex, controls, log, saved, inputs>>

\* The gate of the attempt is final.
Settled == pc = "settle" /\ (gate.decision = "INCONCLUSIVE" => reobserved)

GateContinues ==
    /\ Settled
    /\ gate.decision = "CONTINUE"
    /\ audit' = audit \cup {Evidence(TRUE, IF reobserved THEN "REOBSERVE_THEN_CONTINUE"
                                            ELSE "CONTINUE")}
    /\ CompleteStep
    /\ UNCHANGED <<actionIndex, world, record, controls, gate, reobserved, actions, saved, inputs>>

OverlayBlocks == gate.target = "OVERLAY_BLOCKED" /\ record.overlay

\* _needs_navigation_context_recovery
WrongDestination == /\ record.context = "NON_CONFORMANT" /\ record.safe
                    /\ Plan[step].kind = "CLICK" /\ record.type = "click"

MayRecover == /\ Settled
              /\ gate.decision = "RETRY" /\ attempt <= Plan[step].retries

\* Mutant: the step is tried again with its action still in force.
RetryWithoutRecovery(class) ==
    /\ audit' = audit \cup {Evidence(TRUE, class)}
    /\ pc' = "attempt"
    /\ UNCHANGED <<step, attempt, actionIndex, world, record, controls, gate, reobserved,
                   actions, results, saved, inputs>>

\* Tap a blank point, or press back; then try the step again.
Recover(class) ==
    /\ inputs' = inputs \cup {Input("recovery")}
    /\ actions' = actions \cup {Input("recovery")}
    /\ audit' = audit \cup {Evidence(TRUE, class)}
    /\ \E n \in 1 .. MaxBurst :
        /\ frames' = frames \o Burst(nextFrame, n)
        /\ nextFrame' = nextFrame + n
        /\ disk' = Written(Burst(nextFrame, n))
    /\ pc' = "attempt"
    /\ UNCHANGED <<step, attempt, actionIndex, record, controls, gate, reobserved, results, saved>>

DismissExternalOverlay ==
    /\ MayRecover
    /\ OverlayBlocks
    /\ Recover("SAFE_OVERLAY_RECOVERY")

RecoverNavigationContext ==
    /\ MayRecover
    /\ ~OverlayBlocks /\ WrongDestination
    /\ Recover("SAFE_NAVIGATION_RECOVERY")

\* Everything else stops the run.  A retry that was not recovered - no proof,
\* or no blank point to tap - becomes INCONCLUSIVE.
GateStops ==
    /\ Settled
    /\ gate.decision # "CONTINUE"
    /\ MayRecover => OverlayBlocks \/ ~WrongDestination
    /\ audit' = audit \cup {Evidence(TRUE, "NO_REDISPATCH")}
    /\ StopWith(IF gate.decision = "RETRY" THEN "INCONCLUSIVE"
                ELSE StepStatusFromGate(gate.decision), attempt)
    /\ UNCHANGED <<actionIndex, world, record, controls, gate, reobserved, actions, saved, inputs>>

\* A capture after the dispatch (or a recovery's own input) is not guarded: the
\* exception leaves execute() and nothing is written.
CaptureRaises ==
    /\ \/ pc = "observe" /\ inputs' = inputs
       \/ pc = "settle" /\ ~Settled /\ inputs' = inputs
       \/ MayRecover /\ (OverlayBlocks \/ WrongDestination)
          /\ inputs' \in {inputs, inputs \cup {Input("recovery")}}
    /\ pc' = "escaped"
    /\ UNCHANGED <<step, attempt, actionIndex, world, record, controls, gate, reobserved,
                   log, saved>>

-----------------------------------------------------------------------------
(* After the loop. *)

WriteActions ==
    /\ pc = "write"
    /\ saved' = {actions}
    /\ pc' = "done"
    /\ UNCHANGED <<step, attempt, actionIndex, world, record, controls, gate, reobserved, log, inputs>>

-----------------------------------------------------------------------------
Finished == pc \in Terminal /\ UNCHANGED vars

Next ==
    \/ Setup \/ SetupBlocked \/ SetupRaises
    \/ BeginAttempt \/ Dispatch \/ ControlContinues \/ ControlStops
    \/ AtomicTargetNotFound \/ UnsupportedRealAction \/ ModelRaises \/ DeviceRaises
    \/ MicroAction \/ GoalEnds \/ GoalTargetNotFound \/ GoalDeviceRaises
    \/ Observe \/ Reobserve
    \/ GateContinues \/ DismissExternalOverlay \/ RecoverNavigationContext \/ GateStops
    \/ CaptureRaises
    \/ WriteActions
    \/ Finished

Spec == Init /\ [][Next]_vars

\* One thread runs execute(): it takes a step as long as it can.
FairSpec == Spec /\ WF_vars(Next)

-----------------------------------------------------------------------------
(* What the loop promises. *)

Frame == [id : Nat, by : Nat]
MicroGateView == [decision : Decisions, target : Targets]
Result == [step : Steps, status : Statuses, attempts : Nat]
AuditEntry == [step : Steps, attempt : Nat, dispatched : BOOLEAN, class : RetryClasses]
Event == [step : Steps, attempt : Nat, how : Hows]

ControlTypeOK ==
    /\ pc \in Locations
    /\ step \in 1 .. Len(Plan) + 1
    /\ attempt \in Nat /\ actionIndex \in Nat

LogTypeOK ==
    /\ results \in Seq(Result)
    /\ audit \subseteq AuditEntry
    /\ actions \subseteq Event /\ inputs \subseteq Event
    /\ saved \in {{}, {actions}}

WorldTypeOK ==
    /\ frames \in Seq(Frame) /\ nextFrame \in Nat
    /\ DOMAIN disk \subseteq Nat /\ \A i \in DOMAIN disk : disk[i] \in Nat

ActionRecord ==
    [type : {"none"} \cup UNION {AllowedTypes(k) : k \in StepKinds},
     target : Targets, overlay : BOOLEAN, safe : BOOLEAN,
     context : Conformance \cup {"none"}, effect : {"none", "CONFORMANT", "NON_CONFORMANT"},
     frames : Seq(Frame), micro : Seq(MicroGateView), finished : BOOLEAN]

AttemptTypeOK ==
    /\ record \in ActionRecord
    /\ controls \in 0 .. MaxControls
    /\ gate.decision \in Decisions /\ reobserved \in BOOLEAN

\* execute()'s locals and what it writes have the shapes schema.py declares; what
\* actions.json holds is the list of actions as it was when the loop ended.
TypeOK == ControlTypeOK /\ LogTypeOK /\ WorldTypeOK /\ AttemptTypeOK

Completed(i) == i \in DOMAIN results /\ results[i].status = "STEP_COMPLETED"

\* Step k's result is the k-th; a step touches the device only when every
\* earlier step was completed, and after a result that is not STEP_COMPLETED
\* the run is over.  (execute's "break" after each result.)
StepsInOrder ==
    /\ \A i \in DOMAIN results : results[i].step = i
    /\ \A i \in DOMAIN results : Completed(i) \/ (i = Len(results) /\ pc \in Over)
    /\ \A x \in inputs : \A i \in 1 .. x.step - 1 : Completed(i)

\* The retry budget never runs out between two attempts: whoever decides to try
\* again - either gate, either recovery - has an attempt left, so that a step
\* that was started always gets a result.  (while attempts <= step.max_retries)
AttemptsNeverExhausted ==
    /\ pc = "attempt" => attempt <= Plan[step].retries
    /\ pc = "done" => Len(results) = Len(Plan)
                        \/ results[Len(results)].status # "STEP_COMPLETED"

\* NO_REDISPATCH in the audit means it: no later input for that step or any other.
NoRedispatchHolds ==
    \A e \in audit : e.class = "NO_REDISPATCH" =>
        \A x \in inputs : x.step < e.step \/ (x.step = e.step /\ x.attempt <= e.attempt)

\* The files a recorded frame names still hold what that frame recorded, and
\* frame ids grow along the record (screenshots are evidence by sha256).
FramesAreOnDisk ==
    /\ \A i \in DOMAIN frames :
        /\ frames[i].id \in DOMAIN disk
        /\ disk[frames[i].id] = frames[i].by
    /\ \A i, j \in DOMAIN frames : i < j => frames[i].id < frames[j].id

\* Every attempt leaves exactly one audit entry, and the result's count agrees
\* with them; an UNSUPPORTED step does not count the attempt it refused.
AttemptsAreAudited ==
    \A i \in DOMAIN results :
        LET entries == {e \in audit : e.step = i}
            counted == IF results[i].status = "UNSUPPORTED"
                       THEN results[i].attempts + 1 ELSE results[i].attempts
        IN  /\ {e.attempt : e \in entries} = 1 .. counted
            /\ \A e, f \in entries : e.attempt = f.attempt => e = f

\* What a finished run saved names every attempt whose action reached the app,
\* except where the device raised in the middle of an action that leaves no
\* partial record (then the step failed), and except for a goal whose attempt
\* ended by an exception: its audit entry says that nothing was dispatched.
SavedActionsCoverInputs ==
    pc = "done" => \A x \in inputs :
        \/ x \in UNION saved
        \/ x.step \in DOMAIN results /\ results[x.step].status = "STEP_FAILED"
        \/ IsGoal(x.step) /\ \E e \in audit : /\ e.step = x.step /\ e.attempt = x.attempt
                                               /\ ~e.dispatched

\* The business action of the current step that no recovery has undone; the many
\* of a goal, which has no single action, are left out.
Live == {x.attempt : x \in {y \in inputs : /\ y.step = step /\ ~IsGoal(y.step)
                                         /\ y.how = "business"
                                         /\ [y EXCEPT !.how = "recovery"] \notin inputs}}

Discipline == INSTANCE DispatchDiscipline
              WITH N <- Len(Plan), done <- step - 1, live <- Live, over <- pc \in Over

\* A test case is executed as DispatchDiscipline promises: in order, with at most
\* one action of a one-action step in force, whatever the gates, the recoveries
\* and the exceptions do.
DisciplineHolds == Discipline!Spec

\* The device is never touched once a step ended otherwise than completed.
NoInputAfterFailure ==
    [][inputs' # inputs => \A i \in DOMAIN results : Completed(i)]_vars

\* execute() returns or raises, provided the model stops asking for the user.
Terminates == <>(pc \in Terminal)

-----------------------------------------------------------------------------
(* What the code's comments say and goals do not keep. *)

\* "PRE_DISPATCH_RETRY", action_dispatched = False: nothing reached the app.
RetriesArePreDispatch ==
    \A e \in audit : e.class = "PRE_DISPATCH_RETRY" =>
        \A x \in inputs : <<x.step, x.attempt>> # <<e.step, e.attempt>>

\* A runner control action "requires user intervention or terminated the step".
ControlStopsTheStep ==
    \A i \in DOMAIN results :
        Completed(i) /\ Plan[i].kind \in {"CLICK", "INPUT"} =>
            [step |-> i, attempt |-> results[i].attempts, how |-> "business"] \in inputs
=============================================================================

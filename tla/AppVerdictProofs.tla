------------------------- MODULE AppVerdictProofs -------------------------
(***************************************************************************)
(* The visit of the verification runner, for every route, every budget,    *)
(* every length of the bursts and whatever the screens show: it keeps what *)
(* VerificationPromise promises to the app, it repeats no more than its    *)
(* budget allows, and what it calls sufficient was seen.                   *)
(*                                                                         *)
(* The verdict of a test, for every set of tests and executions, every     *)
(* observation policy and every answer of the models: a conformant         *)
(* execution followed its contract, an absence decides only after a whole  *)
(* window, a text that passes was read, the environment is never held      *)
(* against the app, and a look that is required was taken.                 *)
(*                                                                         *)
(* Runs on a Harmony phone, for every number of calls and requests, every  *)
(* set of test cases, reports and saved executions: an observation is of   *)
(* one screen, no report is taken twice, what an intake accepts is whole,  *)
(* and a saved execution tells itself.                                     *)
(***************************************************************************)
EXTENDS AppVerdict, HarmonyRun, FiniteSetTheorems, WellFoundedInduction, TLAPS

RouteStep == [action : Actions, retries : Nat, target : SUBSET STRING, allowed : BOOLEAN]
Shot == [id : Nat, screen : Screens, offset : Nat, stable : BOOLEAN]
StepResult == [status : {"COMPLETED", "ROUTE_FAILED", "ENV_BLOCKED"}, attempts : Nat,
               reached : {"NONE", "TRUE", "FALSE"}, frames : SUBSET Nat, complete : BOOLEAN]
Audit == [step : Nat, retried : BOOLEAN,
          dispatch : {"NOT_DISPATCHED", "UNKNOWN", "DISPATCHED", "NO_DEVICE_DISPATCH"}]
Outcome == [status : RunStatuses \cup {"PENDING"}, reached : BOOLEAN, sufficient : BOOLEAN]

RunnerTypeOK ==
    /\ route \in Seq(RouteStep)
    /\ pc \in {"start", "step", "act", "observe", "finish", "end"}
    /\ index \in Nat \ {0} /\ attempt \in Nat /\ retryBudget \in Nat
    /\ frames \in Seq(Shot) /\ nextFrame \in Nat /\ burst \in Nat
    /\ results \in Seq(StepResult) /\ audits \in Seq(Audit)
    /\ dispatched \in Seq(Nat) /\ outcome \in Outcome

\* Every step before the current one left one result, and before the end
\* nothing is answered.
WalkInv ==
    /\ pc = "start" => /\ index = 1 /\ retryBudget = RetryBudget
                       /\ frames = <<>> /\ nextFrame = 1
                       /\ results = <<>> /\ audits = <<>> /\ dispatched = <<>>
    /\ pc \in {"step", "act", "observe"} => index \in DOMAIN route /\ Len(results) = index - 1
    /\ IF pc = "end" THEN outcome.status # "PENDING" ELSE outcome = Pending

\* A blocker in view stops the walk: only the burst under way may show one.
BlockerInv ==
    /\ pc \in {"start", "step", "act", "finish"} => ~Obstructed
    /\ pc = "observe" =>
           \A i \in DOMAIN frames : frames[i].screen.blocked => frames[i].id >= nextFrame - burst

Sent == {dispatched[i] : i \in DOMAIN dispatched}

\* The inputs sent are those of the steps behind the walk.
SentInv ==
    /\ Sent \subseteq Inputs
    /\ pc \in {"step", "act"} => Sent = {k \in Inputs : k < index}
    /\ pc = "observe" => Sent = {k \in Inputs : k <= index}
    /\ pc = "finish" /\ AllStepsCompleted => Sent = Inputs

\* Every retry was paid for.
RetryInv ==
    /\ \A i \in DOMAIN audits : audits[i].retried => audits[i].dispatch = "NOT_DISPATCHED"
    /\ IsFiniteSet(Retried) /\ Cardinality(Retried) + retryBudget = RetryBudget

\* The frames of a burst are numbered after all those before it.
NumberedInv ==
    /\ \A i \in DOMAIN frames : frames[i].id < nextFrame
    /\ \A k \in DOMAIN results : \A n \in results[k].frames :
           n < IF pc = "observe" THEN nextFrame - burst ELSE nextFrame
    /\ \A k, l \in DOMAIN results : k # l => results[k].frames \cap results[l].frames = {}

Holds(k, i) == frames[i].id \in results[k].frames

\* What the k-th result says of its burst is what the burst showed.
BurstAt(k) ==
    /\ results[k].complete => \A o \in 0..BurstLength - 1 : \E i \in DOMAIN frames :
                                  frames[i].offset = o /\ Holds(k, i)
    /\ results[k].status = "COMPLETED" =>
          /\ results[k].reached = "NONE" => route[k].target = {}
          /\ results[k].reached = "TRUE" =>
                 \E i \in DOMAIN frames : Holds(k, i) /\ ShowsTarget(route[k].target, i)

BurstInv == \A k \in DOMAIN results : BurstAt(k)

RunnerInv == /\ RunnerTypeOK /\ WalkInv /\ BlockerInv /\ SentInv
             /\ RetryInv /\ NumberedInv /\ BurstInv /\ SufficientMeansSeen

-----------------------------------------------------------------------------
(* Types.                                                                  *)

\* The runner starts with its variables in range.
LEMMA InitialTypes == RunnerInit => RunnerTypeOK
<1> SUFFICES ASSUME RunnerInit PROVE RunnerTypeOK
  OBVIOUS
<1> USE DEF RunnerInit
<1>1. route \in Seq(RouteStep)
  BY RouteAssumption DEF RouteStep
<1>2. outcome \in Outcome
  BY DEF Pending, Outcome
<1>3. retryBudget \in Nat
  BY RouteAssumption
<1>4. QED
  BY <1>1, <1>2, <1>3 DEF RunnerTypeOK

\* What is appended has the type of its sequence.
LEMMA AppendedTypes ==
    ASSUME RunnerTypeOK
    PROVE  /\ \A status \in {"ROUTE_FAILED", "ENV_BLOCKED"} : Failed(status, 0) \in StepResult
           /\ \A status \in {"ROUTE_FAILED", "ENV_BLOCKED"} : Failed(status, attempt) \in StepResult
           /\ \A status \in RunStatuses : Returned(status) \in Outcome
           /\ PostFrames \subseteq DOMAIN frames
           /\ \A shot \in SUBSET DOMAIN frames : \A target :
                 /\ Observed("ENV_BLOCKED", shot, "NONE") \in StepResult
                 /\ Observed("COMPLETED", shot, Reached(target, shot)) \in StepResult
<1>1. \A status \in {"ROUTE_FAILED", "ENV_BLOCKED"}, n \in Nat : Failed(status, n) \in StepResult
  BY DEF Failed, StepResult
<1>2. \A status \in RunStatuses : Returned(status) \in Outcome
  BY DEF Returned, Outcome
<1>3. PostFrames \subseteq DOMAIN frames
  BY DEF PostFrames
<1>4. ASSUME NEW shot \in SUBSET DOMAIN frames, NEW target
      PROVE  /\ Observed("ENV_BLOCKED", shot, "NONE") \in StepResult
             /\ Observed("COMPLETED", shot, Reached(target, shot)) \in StepResult
  <2>1. \A i \in shot : frames[i].id \in Nat
    <3>1. \A i \in DOMAIN frames : frames[i] \in Shot
      BY DEF RunnerTypeOK
    <3>2. QED
      BY <1>4, <3>1 DEF Shot
  <2>2. Reached(target, shot) \in {"NONE", "TRUE", "FALSE"}
    <3> DEFINE named == target # {}
               shown == \E i \in shot : ShowsTarget(target, i)
    <3>1. Reached(target, shot) = IF ~named THEN "NONE" ELSE IF shown THEN "TRUE" ELSE "FALSE"
      BY DEF Reached
    <3> HIDE DEF named, shown
    <3>2. QED
      BY <3>1
  <2> DEFINE ids == {frames[i].id : i \in shot}
             full == \A o \in 0..BurstLength - 1 : \E i \in shot : frames[i].offset = o
  <2>3. ids \in SUBSET Nat /\ full \in BOOLEAN
    BY <2>1
  <2>4. \A status, reached : Observed(status, shot, reached)
          = [status |-> status, attempts |-> attempt, reached |-> reached, frames |-> ids,
             complete |-> full]
    BY DEF Observed
  <2> DEFINE said == Reached(target, shot)
  <2> HIDE DEF ids, full, said
  <2>5. ASSUME NEW status \in {"COMPLETED", "ENV_BLOCKED"},
               NEW reached \in {"NONE", "TRUE", "FALSE"}
        PROVE  Observed(status, shot, reached) \in StepResult
    <3>1. Observed(status, shot, reached)
          = [status |-> status, attempts |-> attempt, reached |-> reached, frames |-> ids,
             complete |-> full]
      BY <2>4
    <3>2. attempt \in Nat
      BY DEF RunnerTypeOK
    <3>3. QED
      BY <2>3, <3>1, <3>2 DEF StepResult
  <2>6. said \in {"NONE", "TRUE", "FALSE"}
    BY <2>2 DEF said
  <2>7. Observed("COMPLETED", shot, said) \in StepResult
    BY <2>5, <2>6
  <2>8. QED
    BY <2>5, <2>7 DEF said
<1>5. QED
  BY <1>1, <1>2, <1>3, <1>4 DEF RunnerTypeOK

\* Every step of the runner keeps them there.
LEMMA StepTypes == RunnerTypeOK /\ [RunnerNext]_runnerVars => RunnerTypeOK'
<1> SUFFICES ASSUME RunnerTypeOK, [RunnerNext]_runnerVars PROVE RunnerTypeOK'
  OBVIOUS
<1> USE RouteAssumption, ScheduleAssumption, AppendedTypes
<1>1. CASE Refuse
  BY <1>1 DEF Refuse, RunnerTypeOK, RunStatuses, walk, record
<1>2. CASE SetupFails
  BY <1>2 DEF SetupFails, RunnerTypeOK, RunStatuses, walk, record
<1>3. ASSUME NEW screen \in Screens, InitialCapture(screen) PROVE RunnerTypeOK'
  <2>1. [id |-> 0, screen |-> screen, offset |-> 0, stable |-> FALSE] \in Shot
    BY DEF Shot
  <2>2. QED
    BY <1>3, <2>1 DEF InitialCapture, RunnerTypeOK, RunStatuses, walk
<1>4. CASE TimesOut
  BY <1>4 DEF TimesOut, RunnerTypeOK, walk, record
<1>5. CASE BeginStep
  BY <1>5 DEF BeginStep, RunnerTypeOK, record
<1>6. CASE FailsBeforeDispatch
  <2>1. [step |-> index, dispatch |-> "NOT_DISPATCHED", retried |-> RetryAllowed] \in Audit
    BY DEF Audit, RetryAllowed, RunnerTypeOK
  <2>2. RetryAllowed => retryBudget - 1 \in Nat
    BY DEF RetryAllowed, RunnerTypeOK
  <2>3. audits' \in Seq(Audit) /\ UNCHANGED <<route, index, frames, nextFrame, burst,
                                               dispatched, outcome>>
    BY <1>6, <2>1 DEF FailsBeforeDispatch, RunnerTypeOK, record
  <2>4. CASE RetryAllowed
    <3>1. retryBudget' = retryBudget - 1 /\ attempt' = attempt + 1 /\ UNCHANGED <<pc, results>>
      BY <1>6, <2>4 DEF FailsBeforeDispatch
    <3>2. QED
      BY <2>2, <2>3, <2>4, <3>1 DEF RunnerTypeOK
  <2>5. CASE ~RetryAllowed
    <3>1. /\ results' = Append(results, Failed("ROUTE_FAILED", attempt)) /\ pc' = "finish"
          /\ UNCHANGED <<retryBudget, attempt>>
      BY <1>6, <2>5 DEF FailsBeforeDispatch
    <3>2. QED
      BY <2>3, <3>1 DEF RunnerTypeOK
  <2>6. QED
    BY <2>4, <2>5
<1>7. CASE DispatchUncertain
  <2>1. [step |-> index, dispatch |-> "UNKNOWN", retried |-> FALSE] \in Audit
    BY DEF Audit, RunnerTypeOK
  <2>2. QED
    BY <1>7, <2>1 DEF DispatchUncertain, RunnerTypeOK, walk, record
<1>8. CASE Acts
  <2> DEFINE d == IF Touching(index) THEN "DISPATCHED" ELSE "NO_DEVICE_DISPATCH"
  <2>1. [step |-> index, retried |-> FALSE, dispatch |-> d] \in Audit
    BY DEF Audit, RunnerTypeOK
  <2>2. QED
    BY <1>8, <2>1 DEF Acts, RunnerTypeOK, walk
<1>9. ASSUME NEW screen \in Screens, Captures(screen) PROVE RunnerTypeOK'
  <2> DEFINE same == screen = frames[Len(frames)].screen
  <2>1. [id |-> nextFrame, screen |-> screen, offset |-> burst, stable |-> same] \in Shot
    BY DEF Shot, RunnerTypeOK
  <2>2. QED
    BY <1>9, <2>1 DEF Captures, RunnerTypeOK, walk
<1>10. CASE CaptureFails
  BY <1>10 DEF CaptureFails, RunnerTypeOK, walk
<1>11. CASE JudgeBurst
  <2>1. outcome' \in Outcome
    BY <1>11 DEF JudgeBurst, RunnerTypeOK, RunStatuses
  <2>2. results' \in Seq(StepResult)
    <3>1. \A r \in StepResult : Append(results, r) \in Seq(StepResult)
      BY DEF RunnerTypeOK
    <3> DEFINE failed == Failed("ROUTE_FAILED", attempt)
               blockedResult == Observed("ENV_BLOCKED", PostFrames, "NONE")
               seen == Observed("COMPLETED", PostFrames, Reached(Step.target, PostFrames))
    <3>2. failed \in StepResult /\ blockedResult \in StepResult /\ seen \in StepResult
      OBVIOUS
    <3>3. \/ results' = Append(results, failed)
          \/ results' = Append(results, blockedResult)
          \/ results' = Append(results, seen)
      BY <1>11 DEF JudgeBurst
    <3> HIDE DEF failed, blockedResult, seen
    <3>4. QED
      BY <3>1, <3>2, <3>3
  <2>3. index' \in Nat \ {0} /\ pc' \in {"finish", "step", "end"}
    BY <1>11 DEF JudgeBurst, RunnerTypeOK
  <2>4. QED
    BY <1>11, <2>1, <2>2, <2>3 DEF JudgeBurst, RunnerTypeOK, record
<1>12. CASE Finish
  BY <1>12 DEF Finish, RunnerTypeOK, walk, record, Outcome, RunStatuses, RouteReached,
     AllStepsCompleted, BurstsComplete
<1>13. CASE UNCHANGED runnerVars
  BY <1>13 DEF runnerVars, walk, record, RunnerTypeOK
<1>14. QED
  BY <1>1, <1>2, <1>3, <1>4, <1>5, <1>6, <1>7, <1>8, <1>9, <1>10, <1>11, <1>12, <1>13
     DEF RunnerNext

-----------------------------------------------------------------------------
(* What a step does to the sequences it extends.                           *)

\* What Append does to a sequence.
LEMMA Extended ==
    ASSUME NEW S, NEW s \in Seq(S), NEW e \in S
    PROVE  /\ Append(s, e) \in Seq(S)
           /\ DOMAIN Append(s, e) = DOMAIN s \cup {Len(s) + 1}
           /\ Len(Append(s, e)) = Len(s) + 1 /\ Len(s) + 1 \notin DOMAIN s
           /\ Append(s, e)[Len(s) + 1] = e
           /\ \A k \in DOMAIN s : Append(s, e)[k] = s[k]
  OBVIOUS

\* The three ends of a burst.
LEMMA Judgement ==
    ASSUME JudgeBurst
    PROVE  /\ pc = "observe" /\ burst = BurstLength
           /\ UNCHANGED <<route, attempt, retryBudget, frames, nextFrame, burst, audits, dispatched>>
           /\ \/ /\ BlockedSeen(PostFrames) /\ pc' = "end"
                 /\ results' = Append(results, Observed("ENV_BLOCKED", PostFrames, "NONE"))
                 /\ outcome' = Returned("ENV_BLOCKED") /\ index' = index
              \/ /\ ~BlockedSeen(PostFrames) /\ pc' = "finish"
                 /\ results' = Append(results, Failed("ROUTE_FAILED", attempt))
                 /\ UNCHANGED <<outcome, index>>
              \/ /\ ~BlockedSeen(PostFrames)
                 /\ results' = Append(results, Observed("COMPLETED", PostFrames,
                                                   Reached(Step.target, PostFrames)))
                 /\ UNCHANGED outcome
                 /\ \/ index = Len(route) /\ pc' = "finish" /\ index' = index
                    \/ index # Len(route) /\ pc' = "step" /\ index' = index + 1
  BY DEF JudgeBurst, record

\* An attempt without an input either starts again or ends the walk.
LEMMA Undispatched ==
    ASSUME FailsBeforeDispatch
    PROVE  /\ pc = "act"
           /\ audits' = Append(audits, [step |-> index, dispatch |-> "NOT_DISPATCHED",
                                        retried |-> RetryAllowed])
           /\ UNCHANGED <<route, index, frames, nextFrame, burst, dispatched, outcome>>
           /\ \/ /\ RetryAllowed /\ retryBudget' = retryBudget - 1
                 /\ UNCHANGED <<pc, results>>
              \/ /\ ~RetryAllowed /\ UNCHANGED retryBudget /\ pc' = "finish"
                 /\ results' = Append(results, Failed("ROUTE_FAILED", attempt))
  BY DEF FailsBeforeDispatch, record

\* The first look either ends the visit or starts the walk.
LEMMA FirstFrame ==
    ASSUME NEW screen \in Screens, InitialCapture(screen)
    PROVE  /\ pc = "start" /\ route # <<>>
           /\ frames' = <<[id |-> 0, screen |-> screen, offset |-> 0, stable |-> FALSE]>>
           /\ DOMAIN frames' = {1} /\ frames'[1].id = 0 /\ frames'[1].screen = screen
           /\ UNCHANGED <<route, index, retryBudget, nextFrame, burst, results, audits, dispatched>>
           /\ \/ screen.blocked /\ pc' = "end" /\ outcome' = Returned("ENV_BLOCKED")
              \/ ~screen.blocked /\ pc' = "step" /\ UNCHANGED outcome
<1>1. frames' = <<[id |-> 0, screen |-> screen, offset |-> 0, stable |-> FALSE]>>
  BY DEF InitialCapture
<1>2. DOMAIN frames' = {1} /\ frames'[1].id = 0 /\ frames'[1].screen = screen
  BY <1>1
<1>3. QED
  BY <1>1, <1>2 DEF InitialCapture, walk

\* A frame is added under the next number.
LEMMA NextFrame ==
    ASSUME RunnerTypeOK, NEW screen \in Screens, Captures(screen)
    PROVE  /\ pc = "observe" /\ pc' = "observe"
           /\ UNCHANGED <<route, index, retryBudget, results, audits, dispatched, outcome>>
           /\ nextFrame' = nextFrame + 1 /\ burst' = burst + 1
           /\ DOMAIN frames' = DOMAIN frames \cup {Len(frames) + 1}
           /\ \A i \in DOMAIN frames : frames'[i] = frames[i]
           /\ frames'[Len(frames) + 1].id = nextFrame
<1> DEFINE same == screen = frames[Len(frames)].screen
           f == [id |-> nextFrame, screen |-> screen, offset |-> burst, stable |-> same]
<1>1. f \in Shot /\ f.id = nextFrame
  BY DEF Shot, RunnerTypeOK
<1>2. frames' = Append(frames, f) /\ frames \in Seq(Shot)
  BY DEF Captures, RunnerTypeOK
<1> HIDE DEF f
<1>3. QED
  BY <1>1, <1>2, Extended DEF Captures, walk

-----------------------------------------------------------------------------
(* The walk.                                                               *)

\* The walk leaves one result per step behind.
LEMMA WalkSteps ==
    ASSUME RunnerTypeOK, WalkInv, [RunnerNext]_runnerVars
    PROVE  WalkInv'
<1> USE AppendedTypes, Extended DEF WalkInv
<1>0. \A status \in RunStatuses : Returned(status).status = status /\ status # "PENDING"
  BY DEF Returned, RunStatuses
<1>1. CASE Refuse
  BY <1>0, <1>1 DEF Refuse, RunStatuses
<1>2. CASE SetupFails
  BY <1>0, <1>2 DEF SetupFails, RunStatuses
<1>3. ASSUME NEW screen \in Screens, InitialCapture(screen) PROVE WalkInv'
  <2>1. route # <<>> => 1 \in DOMAIN route
    BY DEF RunnerTypeOK
  <2>2. QED
    BY <1>0, <1>3, <2>1, FirstFrame DEF RunStatuses, RunnerTypeOK
<1>4. CASE TimesOut
  BY <1>4 DEF TimesOut
<1>5. CASE BeginStep
  BY <1>5 DEF BeginStep
<1>6. CASE FailsBeforeDispatch
  BY <1>6, Undispatched
<1>7. CASE DispatchUncertain
  BY <1>7 DEF DispatchUncertain
<1>8. CASE Acts
  BY <1>8 DEF Acts, walk
<1>9. ASSUME NEW screen \in Screens, Captures(screen) PROVE WalkInv'
  BY <1>9, NextFrame
<1>10. CASE CaptureFails
  BY <1>10 DEF CaptureFails, walk
<1>11. CASE JudgeBurst
  <2>1. \A e \in StepResult : Len(Append(results, e)) = Len(results) + 1
    BY DEF RunnerTypeOK
  <2>2. QED
    <3>1. /\ pc = "observe" /\ UNCHANGED route
          /\ \/ pc' = "end" /\ outcome' = Returned("ENV_BLOCKED")
             \/ pc' = "finish" /\ outcome' = outcome
             \/ /\ pc' = "step" /\ outcome' = outcome
                /\ index # Len(route) /\ index' = index + 1 /\ Len(results') = Len(results) + 1
      BY <1>11, <2>1, Judgement
    <3>2. QED
      BY <1>0, <3>1 DEF RunStatuses, RunnerTypeOK
<1>12. CASE Finish
  BY <1>12 DEF Finish
<1>13. CASE UNCHANGED runnerVars
  BY <1>13 DEF runnerVars, walk, record
<1>14. QED
  BY <1>1, <1>2, <1>3, <1>4, <1>5, <1>6, <1>7, <1>8, <1>9, <1>10, <1>11, <1>12, <1>13
     DEF RunnerNext

\* A blocker stops the walk.
LEMMA BlockerSteps ==
    ASSUME RunnerTypeOK, BlockerInv, [RunnerNext]_runnerVars
    PROVE  BlockerInv'
<1> USE DEF BlockerInv, Obstructed
<1>1. CASE Refuse
  BY <1>1 DEF Refuse
<1>2. CASE SetupFails
  BY <1>2 DEF SetupFails
<1>3. ASSUME NEW screen \in Screens, InitialCapture(screen) PROVE BlockerInv'
  BY <1>3, FirstFrame
<1>4. CASE TimesOut
  BY <1>4 DEF TimesOut, record
<1>5. CASE BeginStep
  BY <1>5 DEF BeginStep, record
<1>6. CASE FailsBeforeDispatch
  BY <1>6, Undispatched
<1>7. CASE DispatchUncertain
  BY <1>7 DEF DispatchUncertain, record
<1>8. CASE Acts
  BY <1>8 DEF Acts
<1>9. ASSUME NEW screen \in Screens, Captures(screen) PROVE BlockerInv'
  <2>1. \A i \in DOMAIN frames' : frames'[i].screen.blocked => frames'[i].id >= nextFrame - burst
    <3>1. nextFrame \in Nat /\ burst \in Nat /\ nextFrame >= nextFrame - burst
      BY DEF RunnerTypeOK
    <3>2. \A i \in DOMAIN frames : frames'[i] = frames[i]
                                   /\ (frames[i].screen.blocked => frames[i].id >= nextFrame - burst)
      BY <1>9, NextFrame
    <3>3. frames'[Len(frames) + 1].id >= nextFrame - burst
      BY <1>9, <3>1, NextFrame
    <3>4. QED
      BY <1>9, <3>2, <3>3, NextFrame
  <2>2. nextFrame' - burst' = nextFrame - burst
    BY <1>9, NextFrame DEF RunnerTypeOK
  <2>3. QED
    BY <1>9, <2>1, <2>2, NextFrame
<1>10. CASE CaptureFails
  <2>1. nextFrame' - burst' = nextFrame - burst
    BY <1>10 DEF CaptureFails, RunnerTypeOK
  <2>2. QED
    BY <1>10, <2>1 DEF CaptureFails
<1>11. CASE JudgeBurst
  <2>1. ~BlockedSeen(PostFrames) => ~Obstructed
    BY <1>11, Judgement DEF BlockedSeen, PostFrames
  <2>2. QED
    BY <1>11, <2>1, Judgement
<1>12. CASE Finish
  BY <1>12 DEF Finish
<1>13. CASE UNCHANGED runnerVars
  BY <1>13 DEF runnerVars, walk, record
<1>14. QED
  BY <1>1, <1>2, <1>3, <1>4, <1>5, <1>6, <1>7, <1>8, <1>9, <1>10, <1>11, <1>12, <1>13
     DEF RunnerNext

\* A walk whose last result is a failure did not complete the route.
LEMMA LastFailed ==
    ASSUME RunnerTypeOK, NEW n \in Nat, results' = Append(results, Failed("ROUTE_FAILED", n))
    PROVE  ~AllStepsCompleted'
<1>1. Failed("ROUTE_FAILED", n) \in StepResult /\ Failed("ROUTE_FAILED", n).status = "ROUTE_FAILED"
  BY DEF Failed, StepResult
<1>2. Len(results) + 1 \in DOMAIN results' /\ results'[Len(results) + 1].status = "ROUTE_FAILED"
  BY <1>1, Extended DEF RunnerTypeOK
<1>3. QED
  BY <1>2 DEF AllStepsCompleted

\* The inputs sent are those behind the walk.
LEMMA SentSteps ==
    ASSUME RunnerTypeOK, WalkInv, SentInv, [RunnerNext]_runnerVars
    PROVE  SentInv'
<1> USE DEF SentInv
<1>0. route' = route => Inputs' = Inputs
  BY DEF Inputs, Touching
<1>1. dispatched' = dispatched => Sent' = Sent
  BY DEF Sent
<1>2. dispatched' = Append(dispatched, index) => Sent' = Sent \cup {index}
  BY Extended DEF Sent, RunnerTypeOK
<1>3. Inputs \subseteq Nat /\ \A k \in Inputs : k <= Len(route)
  BY DEF Inputs, RunnerTypeOK
<1>4. pc \in {"step", "act", "observe"} => index \in DOMAIN route /\ (Touching(index) <=> index \in Inputs)
  BY DEF WalkInv, Inputs
<1>5. CASE Refuse
  BY <1>0, <1>1, <1>5 DEF Refuse, walk
<1>6. CASE SetupFails
  BY <1>0, <1>1, <1>6 DEF SetupFails, walk
<1>7. ASSUME NEW screen \in Screens, InitialCapture(screen) PROVE SentInv'
  <2>1. Sent = {} /\ index = 1
    BY <1>7, FirstFrame DEF WalkInv, Sent
  <2>2. {k \in Inputs : k < index} = {}
    BY <2>1 DEF Inputs, RunnerTypeOK
  <2>3. QED
    BY <1>0, <1>1, <1>7, <2>1, <2>2, FirstFrame
<1>8. CASE TimesOut
  BY <1>0, <1>1, <1>8, LastFailed DEF TimesOut, walk
<1>9. CASE BeginStep
  BY <1>0, <1>1, <1>9 DEF BeginStep
<1>10. CASE FailsBeforeDispatch
  BY <1>0, <1>1, <1>10, Undispatched, LastFailed DEF RunnerTypeOK
<1>11. CASE DispatchUncertain
  BY <1>0, <1>2, <1>4, <1>11, LastFailed DEF DispatchUncertain, walk, RunnerTypeOK
<1>12. CASE Acts
  <2>1. Sent' = {k \in Inputs : k <= index}
    <3>1. Sent = {k \in Inputs : k < index} /\ index \in Nat
      BY <1>12 DEF Acts, RunnerTypeOK
    <3>2. {k \in Inputs : k <= index}
          = {k \in Inputs : k < index} \cup (IF index \in Inputs THEN {index} ELSE {})
      <4>1. \A k \in Inputs : k <= index <=> (k < index \/ k = index)
        BY <1>3, <3>1
      <4>2. QED
        BY <4>1
    <3>3. QED
      BY <1>1, <1>2, <1>4, <1>12, <3>1, <3>2 DEF Acts
  <2>2. QED
    BY <1>0, <1>12, <2>1 DEF Acts, walk
<1>13. ASSUME NEW screen \in Screens, Captures(screen) PROVE SentInv'
  BY <1>0, <1>1, <1>13, NextFrame
<1>14. CASE CaptureFails
  BY <1>0, <1>1, <1>14 DEF CaptureFails, walk
<1>15. CASE JudgeBurst
  <2>1. Sent = {k \in Inputs : k <= index} /\ index \in Nat
    BY <1>15, Judgement DEF RunnerTypeOK
  <2>2. {k \in Inputs : k <= index} = {k \in Inputs : k < index + 1}
    <3>1. \A k \in Inputs : k <= index <=> k < index + 1
      BY <1>3, <2>1
    <3>2. QED
      BY <3>1
  <2>3. index = Len(route) => {k \in Inputs : k <= index} = Inputs
    BY <1>3
  <2>4. attempt \in Nat
    BY DEF RunnerTypeOK
  <2>5. QED
    BY <1>0, <1>1, <1>15, <2>1, <2>2, <2>3, <2>4, Judgement, LastFailed
<1>16. CASE Finish
  BY <1>0, <1>1, <1>16 DEF Finish, walk
<1>17. CASE UNCHANGED runnerVars
  BY <1>0, <1>1, <1>17 DEF runnerVars, walk, record, AllStepsCompleted
<1>18. QED
  BY <1>5, <1>6, <1>7, <1>8, <1>9, <1>10, <1>11, <1>12, <1>13, <1>14, <1>15, <1>16, <1>17
     DEF RunnerNext

-----------------------------------------------------------------------------
(* The retries.                                                            *)

\* A new audit entry counts as a retry when it says so.
LEMMA Audited ==
    ASSUME RunnerTypeOK, RetryInv, NEW e \in Audit, audits' = Append(audits, e),
           e.retried => e.dispatch = "NOT_DISPATCHED"
    PROVE  /\ \A i \in DOMAIN audits' : audits'[i].retried => audits'[i].dispatch = "NOT_DISPATCHED"
           /\ IsFiniteSet(Retried')
           /\ Cardinality(Retried') = Cardinality(Retried) + (IF e.retried THEN 1 ELSE 0)
<1> DEFINE n == Len(audits) + 1
<1>1. /\ DOMAIN audits' = DOMAIN audits \cup {n} /\ n \notin DOMAIN audits /\ audits'[n] = e
      /\ \A i \in DOMAIN audits : audits'[i] = audits[i]
  BY Extended DEF RunnerTypeOK
<1> HIDE DEF n
<1>2. Retried' = IF e.retried THEN Retried \cup {n} ELSE Retried
  BY <1>1 DEF Retried
<1>3. n \notin Retried
  BY <1>1 DEF Retried
<1>4. IsFiniteSet(Retried) /\ Cardinality(Retried) \in Nat
  BY FS_CardinalityType DEF RetryInv
<1>5. IsFiniteSet(Retried \cup {n}) /\ Cardinality(Retried \cup {n}) = Cardinality(Retried) + 1
  BY <1>3, <1>4, FS_AddElement
<1>6. QED
  BY <1>1, <1>2, <1>4, <1>5 DEF RetryInv

\* Retries and what is left of the budget come to the budget.
LEMMA RetrySteps ==
    ASSUME RunnerTypeOK, WalkInv, RetryInv, [RunnerNext]_runnerVars
    PROVE  RetryInv'
<1>1. CASE UNCHANGED <<audits, retryBudget>>
  BY <1>1 DEF RetryInv, Retried
<1>2. CASE FailsBeforeDispatch
  <2> DEFINE e == [step |-> index, dispatch |-> "NOT_DISPATCHED", retried |-> RetryAllowed]
  <2>1. e \in Audit /\ e.dispatch = "NOT_DISPATCHED" /\ (e.retried <=> RetryAllowed)
    BY DEF Audit, RunnerTypeOK, RetryAllowed
  <2>2. audits' = Append(audits, e)
    BY <1>2, Undispatched
  <2> HIDE DEF e
  <2>3. Cardinality(Retried') = Cardinality(Retried) + (IF e.retried THEN 1 ELSE 0)
        /\ IsFiniteSet(Retried')
        /\ \A i \in DOMAIN audits' : audits'[i].retried => audits'[i].dispatch = "NOT_DISPATCHED"
    BY <2>1, <2>2, Audited
  <2>4. retryBudget' = IF e.retried THEN retryBudget - 1 ELSE retryBudget
    BY <1>2, <2>1, Undispatched
  <2>5. retryBudget \in Nat /\ Cardinality(Retried) \in Nat
    BY FS_CardinalityType DEF RunnerTypeOK, RetryInv
  <2>6. Cardinality(Retried') + retryBudget' = Cardinality(Retried) + retryBudget
    BY <2>3, <2>4, <2>5
  <2>7. QED
    BY <2>3, <2>6, RouteAssumption DEF RetryInv
<1>3. ASSUME NEW d \in {"UNKNOWN", "DISPATCHED", "NO_DEVICE_DISPATCH"},
             audits' = Append(audits, [step |-> index, retried |-> FALSE, dispatch |-> d]),
             retryBudget' = retryBudget
      PROVE  RetryInv'
  <2> DEFINE e == [step |-> index, retried |-> FALSE, dispatch |-> d]
  <2>1. e \in Audit /\ e.retried = FALSE
    BY DEF Audit, RunnerTypeOK
  <2>2. audits' = Append(audits, e)
    BY <1>3
  <2> HIDE DEF e
  <2>3. Cardinality(Retried') = Cardinality(Retried) + 0
        /\ IsFiniteSet(Retried')
        /\ \A i \in DOMAIN audits' : audits'[i].retried => audits'[i].dispatch = "NOT_DISPATCHED"
    BY <2>1, <2>2, Audited
  <2>4. Cardinality(Retried) \in Nat
    BY FS_CardinalityType DEF RetryInv
  <2>5. QED
    BY <1>3, <2>3, <2>4 DEF RetryInv
<1>4. CASE DispatchUncertain
  <2>1. [step |-> index, dispatch |-> "UNKNOWN", retried |-> FALSE]
        = [step |-> index, retried |-> FALSE, dispatch |-> "UNKNOWN"]
    OBVIOUS
  <2>2. QED
    BY <1>3, <1>4, <2>1 DEF DispatchUncertain, walk
<1>5. CASE Acts
  <2> DEFINE d == IF Touching(index) THEN "DISPATCHED" ELSE "NO_DEVICE_DISPATCH"
  <2>1. d \in {"UNKNOWN", "DISPATCHED", "NO_DEVICE_DISPATCH"}
    OBVIOUS
  <2>2. audits' = Append(audits, [step |-> index, retried |-> FALSE, dispatch |-> d])
        /\ retryBudget' = retryBudget
    BY <1>5 DEF Acts, walk
  <2> HIDE DEF d
  <2>3. QED
    BY <1>3, <2>1, <2>2
<1>6. QED
  BY <1>1, <1>2, <1>4, <1>5, Undispatched, Judgement, FirstFrame, NextFrame
     DEF RunnerNext, Refuse, SetupFails, TimesOut, BeginStep, CaptureFails, Finish, runnerVars, walk

-----------------------------------------------------------------------------
(* The bursts.                                                             *)

\* The result of a burst holds frames of that burst, or none.
LEMMA JudgedBurst ==
    ASSUME RunnerTypeOK, JudgeBurst
    PROVE  \E e \in StepResult : /\ results' = Append(results, e)
                                 /\ \A n \in e.frames : \E i \in PostFrames : n = frames[i].id
<1> DEFINE failed == Failed("ROUTE_FAILED", attempt)
           obstructed == Observed("ENV_BLOCKED", PostFrames, "NONE")
           seen == Observed("COMPLETED", PostFrames, Reached(Step.target, PostFrames))
<1>1. failed \in StepResult /\ obstructed \in StepResult /\ seen \in StepResult
  BY AppendedTypes
<1>2. failed.frames = {}
  BY DEF Failed
<1>3. /\ obstructed.frames = {frames[i].id : i \in PostFrames}
      /\ seen.frames = {frames[i].id : i \in PostFrames}
  BY DEF Observed
<1>4. \/ results' = Append(results, failed)
      \/ results' = Append(results, obstructed)
      \/ results' = Append(results, seen)
  BY Judgement
<1> HIDE DEF failed, obstructed, seen
<1>5. QED
  BY <1>1, <1>2, <1>3, <1>4

\* A burst that is recorded has numbers of its own.
LEMMA NumberedResult ==
    ASSUME RunnerTypeOK, NumberedInv, UNCHANGED <<frames, nextFrame>>, pc' # "observe",
           NEW e \in StepResult, results' = Append(results, e),
           \A n \in e.frames : n < nextFrame /\ \A k \in DOMAIN results : n \notin results[k].frames
    PROVE  NumberedInv'
<1> DEFINE new == Len(results) + 1
<1>1. /\ DOMAIN results' = DOMAIN results \cup {new} /\ new \notin DOMAIN results
      /\ results'[new] = e /\ \A k \in DOMAIN results : results'[k] = results[k]
  BY Extended DEF RunnerTypeOK
<1> HIDE DEF new
<1>2. \A k \in DOMAIN results : \A n \in results[k].frames : n < nextFrame
  <2>1. ASSUME NEW k \in DOMAIN results, NEW n \in results[k].frames PROVE n < nextFrame
    <3>1. results[k] \in StepResult
      BY DEF RunnerTypeOK
    <3>2. n \in Nat /\ nextFrame \in Nat /\ burst \in Nat
      BY <3>1 DEF RunnerTypeOK, StepResult
    <3>3. QED
      BY <3>2 DEF NumberedInv
  <2>2. QED
    BY <2>1
<1>3. \A k, l \in DOMAIN results' : k # l => results'[k].frames \cap results'[l].frames = {}
  BY <1>1 DEF NumberedInv
<1>4. \A k \in DOMAIN results' : \A n \in results'[k].frames : n < nextFrame'
  BY <1>1, <1>2
<1>5. \A i \in DOMAIN frames' : frames'[i].id < nextFrame'
  BY DEF NumberedInv
<1>6. QED
  BY <1>3, <1>4, <1>5 DEF NumberedInv

\* A failed step has no frames.
LEMMA NumberedFailure ==
    ASSUME RunnerTypeOK, NumberedInv, UNCHANGED <<frames, nextFrame>>, pc' # "observe",
           NEW n \in Nat, results' = Append(results, Failed("ROUTE_FAILED", n))
    PROVE  NumberedInv'
<1>1. Failed("ROUTE_FAILED", n) \in StepResult /\ Failed("ROUTE_FAILED", n).frames = {}
  BY DEF Failed, StepResult
<1>2. QED
  BY <1>1, NumberedResult

\* The numbers of the frames grow.
LEMMA NumberedSteps ==
    ASSUME RunnerTypeOK, WalkInv, NumberedInv, [RunnerNext]_runnerVars
    PROVE  NumberedInv'
<1>1. CASE UNCHANGED <<frames, nextFrame, results, burst, pc>>
  BY <1>1 DEF NumberedInv
<1>2. CASE UNCHANGED <<frames, nextFrame, results>> /\ pc # "observe"
           /\ (pc' = "observe" => burst' = 0)
  BY <1>2 DEF NumberedInv, RunnerTypeOK
<1>3. ASSUME NEW screen \in Screens, InitialCapture(screen) PROVE NumberedInv'
  BY <1>3, FirstFrame DEF WalkInv, NumberedInv
<1>4. CASE TimesOut
  BY <1>4, NumberedFailure DEF TimesOut, record
<1>5. CASE FailsBeforeDispatch
  BY <1>2, <1>5, Undispatched, NumberedFailure DEF RunnerTypeOK
<1>6. CASE DispatchUncertain
  BY <1>6, NumberedFailure DEF DispatchUncertain, record, RunnerTypeOK
<1>7. ASSUME NEW screen \in Screens, Captures(screen) PROVE NumberedInv'
  <2>1. nextFrame \in Nat /\ burst \in Nat /\ nextFrame' - burst' = nextFrame - burst
    BY <1>7, NextFrame DEF RunnerTypeOK
  <2>2. \A i \in DOMAIN frames : frames[i].id \in Nat /\ frames[i].id < nextFrame
    <3>1. \A i \in DOMAIN frames : frames[i] \in Shot
      BY DEF RunnerTypeOK
    <3>2. QED
      BY <3>1 DEF Shot, NumberedInv
  <2>3. \A i \in DOMAIN frames : frames'[i] = frames[i] /\ frames'[i].id < nextFrame'
    BY <1>7, <2>1, <2>2, NextFrame
  <2>4. \A i \in DOMAIN frames' : frames'[i].id < nextFrame'
    BY <1>7, <2>1, <2>3, NextFrame
  <2>5. QED
    BY <1>7, <2>1, <2>4, NextFrame DEF NumberedInv
<1>8. CASE CaptureFails
  <2>1. nextFrame \in Nat /\ burst \in Nat /\ nextFrame' - burst' = nextFrame - burst
        /\ nextFrame' = nextFrame + 1
    BY <1>8 DEF CaptureFails, RunnerTypeOK
  <2>2. \A i \in DOMAIN frames : frames[i].id \in Nat /\ frames[i].id < nextFrame
    <3>1. \A i \in DOMAIN frames : frames[i] \in Shot
      BY DEF RunnerTypeOK
    <3>2. QED
      BY <3>1 DEF Shot, NumberedInv
  <2>3. \A i \in DOMAIN frames : frames[i].id < nextFrame'
    BY <2>1, <2>2 DEF NumberedInv
  <2>4. QED
    BY <1>8, <2>1, <2>3 DEF CaptureFails, NumberedInv
<1>9. CASE JudgeBurst
  <2>1. PICK e \in StepResult : /\ results' = Append(results, e)
                                /\ \A n \in e.frames : \E i \in PostFrames : n = frames[i].id
    BY <1>9, JudgedBurst
  <2>2. ASSUME NEW n \in e.frames
        PROVE  n < nextFrame /\ \A k \in DOMAIN results : n \notin results[k].frames
    <3>1. PICK i \in DOMAIN frames : n = frames[i].id /\ n >= nextFrame - burst
      BY <1>9, <2>1, Judgement DEF PostFrames
    <3>2. \A k \in DOMAIN results : \A m \in results[k].frames : m < nextFrame - burst
      BY <1>9, Judgement DEF NumberedInv
    <3>3. n \in Nat /\ nextFrame \in Nat /\ burst \in Nat
      BY DEF RunnerTypeOK, StepResult
    <3>4. QED
      BY <3>1, <3>2, <3>3 DEF NumberedInv
  <2>3. UNCHANGED <<frames, nextFrame>> /\ pc' # "observe"
    BY <1>9, Judgement
  <2>4. QED
    BY <2>1, <2>2, <2>3, NumberedResult
<1>10. QED
  BY <1>1, <1>2, <1>3, <1>4, <1>5, <1>6, <1>7, <1>8, <1>9
     DEF RunnerNext, Refuse, SetupFails, BeginStep, Acts, Finish, runnerVars, walk, record

\* What a result says still holds when frames are added and later results given.
LEMMA BurstKept ==
    ASSUME BurstInv, route' = route,
           \A i \in DOMAIN frames : i \in DOMAIN frames' /\ frames'[i] = frames[i],
           NEW k \in DOMAIN results, results'[k] = results[k]
    PROVE  BurstAt(k)'
  BY DEF BurstInv, BurstAt, Holds, ShowsTarget

\* A failed step says nothing of a burst.
LEMMA BurstFailed ==
    ASSUME RunnerTypeOK, BurstInv, route' = route, frames' = frames,
           NEW n \in Nat, results' = Append(results, Failed("ROUTE_FAILED", n))
    PROVE  BurstInv'
<1> DEFINE e == Failed("ROUTE_FAILED", n)
<1>1. e \in StepResult /\ e.complete = FALSE /\ e.status = "ROUTE_FAILED"
  BY DEF Failed, StepResult
<1> HIDE DEF e
<1>2. /\ DOMAIN results' = DOMAIN results \cup {Len(results) + 1}
      /\ results'[Len(results) + 1] = e /\ \A k \in DOMAIN results : results'[k] = results[k]
  BY <1>1, Extended DEF RunnerTypeOK, e
<1>3. ASSUME NEW k \in DOMAIN results PROVE BurstAt(k)'
  BY <1>2, BurstKept
<1>4. ASSUME NEW k, k = Len(results) + 1 PROVE BurstAt(k)'
  BY <1>1, <1>2, <1>4 DEF BurstAt
<1>5. QED
  BY <1>2, <1>3, <1>4 DEF BurstInv

\* What a result says of its burst stays true.
LEMMA BurstSteps ==
    ASSUME RunnerTypeOK, WalkInv, BurstInv, [RunnerNext]_runnerVars
    PROVE  BurstInv'
<1>1. CASE UNCHANGED <<route, frames, results>>
  BY <1>1 DEF BurstInv, BurstAt, Holds, ShowsTarget
<1>2. ASSUME NEW screen \in Screens, InitialCapture(screen) PROVE BurstInv'
  BY <1>2, FirstFrame DEF WalkInv, BurstInv
<1>3. CASE TimesOut
  BY <1>3, BurstFailed DEF TimesOut, record, walk
<1>4. CASE FailsBeforeDispatch
  BY <1>1, <1>4, Undispatched, BurstFailed DEF RunnerTypeOK
<1>5. CASE DispatchUncertain
  BY <1>5, BurstFailed DEF DispatchUncertain, record, walk, RunnerTypeOK
<1>6. ASSUME NEW screen \in Screens, Captures(screen) PROVE BurstInv'
  <2>1. ASSUME NEW k \in DOMAIN results PROVE BurstAt(k)'
    BY <1>6, NextFrame, BurstKept
  <2>2. QED
    BY <1>6, <2>1, NextFrame DEF BurstInv
<1>7. CASE JudgeBurst
  <2> DEFINE obstructed == Observed("ENV_BLOCKED", PostFrames, "NONE")
             seen == Observed("COMPLETED", PostFrames, Reached(Step.target, PostFrames))
  <2>1. CASE results' = Append(results, Failed("ROUTE_FAILED", attempt))
    BY <1>7, <2>1, Judgement, BurstFailed DEF RunnerTypeOK
  <2>2. ASSUME NEW e \in {obstructed, seen}, results' = Append(results, e)
        PROVE  BurstInv'
    <3>1. e \in StepResult
      BY AppendedTypes
    <3>2. /\ e.frames = {frames[i].id : i \in PostFrames}
          /\ e.complete => \A o \in 0..BurstLength - 1 : \E i \in PostFrames : frames[i].offset = o
          /\ e.status = "COMPLETED" => e.reached = Reached(Step.target, PostFrames)
      BY DEF Observed
    <3>3. /\ Reached(Step.target, PostFrames) = "NONE" => Step.target = {}
          /\ Reached(Step.target, PostFrames) = "TRUE" =>
                 \E i \in PostFrames : ShowsTarget(Step.target, i)
      BY DEF Reached
    <3>4. PostFrames \subseteq DOMAIN frames
      BY AppendedTypes
    <3>5. Len(results) + 1 = index
      BY <1>7, Judgement DEF WalkInv, RunnerTypeOK
    <3> HIDE DEF obstructed, seen
    <3>6. /\ DOMAIN results' = DOMAIN results \cup {index}
          /\ results'[index] = e /\ \A k \in DOMAIN results : results'[k] = results[k]
      BY <2>2, <3>1, <3>5, Extended DEF RunnerTypeOK
    <3>7. UNCHANGED <<route, frames>>
      BY <1>7, Judgement
    <3>8. ASSUME NEW k \in DOMAIN results PROVE BurstAt(k)'
      BY <3>6, <3>7, BurstKept
    <3>9. ASSUME NEW k, k = index PROVE BurstAt(k)'
      <4>1. \A i \in PostFrames : i \in DOMAIN frames' /\ Holds(k, i)'
        BY <3>2, <3>4, <3>6, <3>7, <3>9 DEF Holds
      <4>2. e.complete => \A o \in 0..BurstLength - 1 : \E i \in DOMAIN frames' :
                              frames'[i].offset = o /\ Holds(k, i)'
        BY <3>2, <3>7, <4>1
      <4>3. e.status = "COMPLETED" => /\ e.reached = "NONE" => Step.target = {}
                                      /\ e.reached = "TRUE" =>
                                           \E i \in DOMAIN frames' : Holds(k, i)' /\ ShowsTarget(Step.target, i)
        BY <3>2, <3>3, <4>1
      <4>4. \A i : ShowsTarget(route[k].target, i)' <=> ShowsTarget(Step.target, i)
        BY <3>7, <3>9 DEF ShowsTarget, Step
      <4>5. route'[k].target = Step.target /\ results'[k] = e
        BY <3>6, <3>7, <3>9 DEF Step
      <4>6. QED
        BY <4>2, <4>3, <4>4, <4>5 DEF BurstAt
    <3>10. QED
      BY <3>6, <3>8, <3>9 DEF BurstInv
  <2>3. QED
    BY <1>7, <2>1, <2>2, Judgement
<1>8. QED
  BY <1>1, <1>2, <1>3, <1>4, <1>5, <1>6, <1>7
     DEF RunnerNext, Refuse, SetupFails, BeginStep, Acts, CaptureFails, Finish, runnerVars, walk, record

-----------------------------------------------------------------------------
(* What "sufficient" means.                                                *)

\* A nonempty set of positions has a last one.
LEMMA LastStep ==
    ASSUME NEW n \in Nat, NEW S \in SUBSET (1..n), S # {}
    PROVE  \E k \in S : \A j \in S : j <= k
<1> DEFINE T == {n - k : k \in S}
<1>1. T \subseteq Nat /\ T # {}
  <2>1. \A k \in S : k \in Nat /\ k <= n /\ n - k \in Nat
    OBVIOUS
  <2>2. QED
    BY <2>1
<1>2. PICK m \in T : \A t \in T : <<t, m>> \notin OpToRel(<, Nat)
  <2> DEFINE R == OpToRel(<, Nat)
  <2>1. IsWellFoundedOn(R, Nat)
    BY NatLessThanWellFounded
  <2> HIDE DEF R
  <2>2. \E m \in T : \A t \in T : <<t, m>> \notin R
    BY <1>1, <2>1, WFMin
  <2>3. QED
    BY <2>2 DEF R
<1>3. \A t \in T : ~(t < m)
  <2>1. ASSUME NEW t \in T, t < m PROVE FALSE
    <3>1. <<t, m>> \in Nat \X Nat /\ <<t, m>>[1] < <<t, m>>[2]
      BY <1>1, <2>1
    <3>2. <<t, m>> \in OpToRel(<, Nat)
      BY <3>1 DEF OpToRel
    <3>3. QED
      BY <1>2, <3>2
  <2>2. QED
    BY <2>1
<1>4. PICK k \in S : m = n - k
  BY <1>2
<1>5. \A j \in S : j <= k
  <2>1. ASSUME NEW j \in S PROVE j <= k
    <3>1. ~(n - j < n - k)
      BY <1>3, <1>4
    <3>2. j \in Nat /\ k \in Nat
      OBVIOUS
    <3>3. QED
      BY <3>1, <3>2
  <2>2. QED
    BY <2>1
<1>6. QED
  BY <1>4, <1>5

\* What the end of the walk calls sufficient was seen.
LEMMA SufficientAtTheEnd ==
    ASSUME RunnerTypeOK, WalkInv, BlockerInv, NumberedInv, BurstInv, Finish
    PROVE  SufficientMeansSeen'
<1> SUFFICES ASSUME AllStepsCompleted, RouteReached, BurstsComplete PROVE SufficientMeansSeen'
  BY DEF Finish, SufficientMeansSeen
<1>1. UNCHANGED <<route, frames, results>> /\ ~Obstructed
  BY DEF Finish, walk, record, BlockerInv
<1>2. DOMAIN route = DOMAIN results /\ DOMAIN results = 1..Len(results) /\ Len(results) \in Nat
      /\ Len(route) = Len(results)
  BY DEF AllStepsCompleted, RunnerTypeOK
<1>3. \A k \in DOMAIN results : results[k].status = "COMPLETED" /\ results[k].complete /\ BurstAt(k)
  BY DEF AllStepsCompleted, BurstsComplete, BurstInv
<1>4. \A k \in DOMAIN results : \A o \in 0..BurstLength - 1 : \E i \in DOMAIN frames :
         frames[i].offset = o /\ frames[i].id \in results[k].frames
  BY <1>3 DEF BurstAt, Holds
<1> DEFINE said == {k \in DOMAIN results : results[k].reached # "NONE"}
           named == {k \in DOMAIN route : route[k].target # {}}
           last == CHOOSE k \in said : \A j \in said : j <= k
<1>5. said # {}
  <2>1. SUFFICES ASSUME said = {} PROVE FALSE
    OBVIOUS
  <2>2. named = {}
    BY <1>2, <1>3, <2>1 DEF BurstAt
  <2>3. QED
    BY <2>1, <2>2 DEF RouteReached
<1>6. last \in said /\ \A j \in said : j <= last
  <2>1. said \in SUBSET (1..Len(results))
    BY <1>2
  <2>2. \E k \in said : \A j \in said : j <= k
    BY <1>2, <1>5, <2>1, LastStep
  <2>3. QED
    BY <2>2
<1>7. results[last].reached = "TRUE"
  BY <1>5 DEF RouteReached
<1>8. \A l \in last + 1..Len(route) : route[l].target = {}
  <2>1. ASSUME NEW l \in last + 1..Len(route) PROVE route[l].target = {}
    <3>1. l \in DOMAIN results /\ l \notin said
      BY <1>2, <1>6
    <3>2. QED
      BY <1>3, <3>1 DEF BurstAt
  <2>2. QED
    BY <2>1
<1>9. \E i \in DOMAIN frames :
         frames[i].id \in results[last].frames /\ ShowsTarget(route[last].target, i)
  BY <1>3, <1>6, <1>7 DEF BurstAt, Holds
<1>10. \A k, l \in DOMAIN route : k # l => results[k].frames \cap results[l].frames = {}
  BY <1>2 DEF NumberedInv
<1>11. last \in DOMAIN route
  BY <1>2, <1>6
<1> HIDE DEF last
<1>12. Obstructed' = Obstructed /\ \A target, i : ShowsTarget(target, i)' <=> ShowsTarget(target, i)
  BY <1>1 DEF Obstructed, ShowsTarget
<1>13. QED
  BY <1>1, <1>2, <1>4, <1>8, <1>9, <1>10, <1>11, <1>12 DEF SufficientMeansSeen

\* No other step calls a visit sufficient.
LEMMA SufficientSteps ==
    ASSUME RunnerInv, [RunnerNext]_runnerVars
    PROVE  SufficientMeansSeen'
<1>1. CASE Finish
  BY <1>1, SufficientAtTheEnd DEF RunnerInv
<1>2. CASE ~outcome'.sufficient
  BY <1>2 DEF SufficientMeansSeen
<1>3. \A status : Returned(status).sufficient = FALSE
  BY DEF Returned
<1>4. pc # "end" => ~outcome.sufficient
  BY DEF RunnerInv, WalkInv, Pending
<1>5. CASE UNCHANGED runnerVars
  BY <1>5 DEF RunnerInv, SufficientMeansSeen, Obstructed, ShowsTarget, runnerVars, walk, record
<1>6. QED
  BY <1>1, <1>2, <1>3, <1>4, <1>5, FirstFrame, Undispatched, Judgement
     DEF RunnerNext, Refuse, SetupFails, InitialCapture, TimesOut, BeginStep, DispatchUncertain,
         Acts, Captures, CaptureFails

-----------------------------------------------------------------------------
(* The promise.                                                            *)

\* Every step of the runner is a step of the promise, or none.
LEMMA PromiseSteps ==
    ASSUME RunnerInv, [RunnerNext]_runnerVars
    PROVE  [Promise!PromiseNext]_(Promise!promiseVars)
<1> USE DEF Promise!promiseVars
<1>1. RunnerTypeOK /\ WalkInv /\ BlockerInv /\ SentInv
  BY DEF RunnerInv
<1>2. route' = route => Inputs' = Inputs
  BY DEF Inputs, Touching
<1>3. frames' = frames => Obstructed' = Obstructed
  BY DEF Obstructed
<1>4. pc # "end" => outcome.status = "PENDING"
  BY <1>1 DEF WalkInv, Pending
<1>5. Obstructed \in BOOLEAN /\ Obstructed' \in BOOLEAN
  BY DEF Obstructed
<1>6. Promise!SentSet = Sent
  BY DEF Promise!SentSet, Sent
<1>7. ASSUME pc # "end", UNCHANGED <<route, dispatched>>,
             NEW v \in {"NOT_RUN", "COMPLETED", "ROUTE_FAILED", "ENV_BLOCKED", "UNSUPPORTED"},
             outcome'.status = v,
             Obstructed => Obstructed', Obstructed' => v = "ENV_BLOCKED",
             v = "COMPLETED" => Sent = Inputs
      PROVE  Promise!PromiseNext
  <2>1. Obstructed' \in {Obstructed, TRUE}
    BY <1>5, <1>7
  <2>2. v # "PENDING"
    BY <1>7
  <2>3. Promise!Give(v)
    BY <1>2, <1>4, <1>6, <1>7, <2>1, <2>2 DEF Promise!Give
  <2>4. QED
    BY <2>3 DEF Promise!PromiseNext
<1>8. \A status : Returned(status).status = status
  BY DEF Returned
<1>9. ASSUME UNCHANGED <<route, dispatched, frames, outcome>>
      PROVE  UNCHANGED Promise!promiseVars
  BY <1>2, <1>3, <1>9
<1>10. ASSUME pc = "act", Touching(index), dispatched' = Append(dispatched, index),
              UNCHANGED <<route, frames, outcome>>
       PROVE  Promise!PromiseNext
  <2>1. index \in Inputs
    BY <1>1, <1>10 DEF WalkInv, Inputs
  <2>2. ~Obstructed
    BY <1>1, <1>10 DEF BlockerInv
  <2>3. \A t \in Sent : t < index
    BY <1>1, <1>10 DEF SentInv
  <2>4. Promise!Send(index)
    BY <1>2, <1>3, <1>4, <1>6, <1>10, <2>2, <2>3 DEF Promise!Send
  <2>5. QED
    BY <2>1, <2>4 DEF Promise!PromiseNext
<1>11. CASE Refuse
  BY <1>1, <1>3, <1>7, <1>8, <1>11 DEF Refuse, walk, record, BlockerInv
<1>12. CASE SetupFails
  BY <1>1, <1>3, <1>7, <1>8, <1>12 DEF SetupFails, walk, record, BlockerInv
<1>13. ASSUME NEW screen \in Screens, InitialCapture(screen)
       PROVE  [Promise!PromiseNext]_(Promise!promiseVars)
  <2>1. pc = "start" /\ ~Obstructed /\ UNCHANGED <<route, dispatched>>
    BY <1>1, <1>13, FirstFrame DEF BlockerInv
  <2>2. Obstructed' <=> screen.blocked
    BY <1>13, FirstFrame DEF Obstructed
  <2>3. CASE screen.blocked
    BY <1>7, <1>8, <1>13, <2>1, <2>3, FirstFrame
  <2>4. CASE ~screen.blocked
    <3>1. Obstructed' = Obstructed
      BY <1>5, <2>1, <2>2, <2>4
    <3>2. QED
      BY <1>2, <1>13, <2>1, <2>4, <3>1, FirstFrame
  <2>5. QED
    BY <2>3, <2>4
<1>14. CASE TimesOut
  BY <1>9, <1>14 DEF TimesOut, walk, record
<1>15. CASE BeginStep
  BY <1>9, <1>15 DEF BeginStep, record
<1>16. CASE FailsBeforeDispatch
  BY <1>9, <1>16, Undispatched
<1>17. CASE DispatchUncertain
  BY <1>10, <1>17 DEF DispatchUncertain, walk, record
<1>18. CASE Acts
  <2>1. CASE Touching(index)
    BY <1>10, <1>18, <2>1 DEF Acts, walk
  <2>2. CASE ~Touching(index)
    BY <1>9, <1>18, <2>2 DEF Acts, walk
  <2>3. QED
    BY <2>1, <2>2
<1>19. ASSUME NEW screen \in Screens, Captures(screen)
       PROVE  [Promise!PromiseNext]_(Promise!promiseVars)
  <2>1. pc # "end" /\ UNCHANGED <<route, dispatched, outcome>>
    BY <1>19, NextFrame, <1>1
  <2>2. Obstructed => Obstructed'
    BY <1>1, <1>19, NextFrame DEF Obstructed
  <2>3. CASE Obstructed'
    <3>1. Promise!SeeBlocker
      BY <1>2, <1>4, <2>1, <2>3 DEF Promise!SeeBlocker
    <3>2. QED
      BY <3>1 DEF Promise!PromiseNext
  <2>4. CASE ~Obstructed'
    <3>1. Obstructed' = Obstructed
      BY <1>5, <2>2, <2>4
    <3>2. QED
      BY <1>2, <2>1, <3>1
  <2>5. QED
    BY <2>3, <2>4
<1>20. CASE CaptureFails
  BY <1>9, <1>20 DEF CaptureFails, walk
<1>21. CASE JudgeBurst
  BY <1>3, <1>7, <1>8, <1>9, <1>21, Judgement
<1>22. CASE Finish
  <2>1. pc = "finish" /\ UNCHANGED <<route, dispatched, frames>>
        /\ outcome'.status = IF AllStepsCompleted THEN "COMPLETED" ELSE "ROUTE_FAILED"
    BY <1>22 DEF Finish, walk, record
  <2>2. ~Obstructed /\ ~Obstructed' /\ (AllStepsCompleted => Sent = Inputs)
    BY <1>1, <1>3, <2>1 DEF BlockerInv, SentInv
  <2>3. QED
    BY <1>7, <2>1, <2>2
<1>23. CASE UNCHANGED runnerVars
  BY <1>9, <1>23 DEF runnerVars, walk, record
<1>24. QED
  BY <1>11, <1>12, <1>13, <1>14, <1>15, <1>16, <1>17, <1>18, <1>19, <1>20, <1>21, <1>22, <1>23
     DEF RunnerNext

-----------------------------------------------------------------------------
(* The theorems.                                                           *)

\* The invariant holds at first.
LEMMA InitialInv == RunnerInit => RunnerInv
<1> SUFFICES ASSUME RunnerInit PROVE RunnerInv
  OBVIOUS
<1>1. RunnerTypeOK
  BY InitialTypes
<1>2. WalkInv /\ BlockerInv
  BY DEF RunnerInit, WalkInv, BlockerInv, Obstructed
<1>3. SentInv
  BY DEF RunnerInit, SentInv, Sent, AllStepsCompleted
<1>4. RetryInv
  <2>1. Retried = {}
    BY DEF RunnerInit, Retried
  <2>2. QED
    BY <2>1, FS_EmptySet, RouteAssumption DEF RunnerInit, RetryInv
<1>5. NumberedInv /\ BurstInv /\ SufficientMeansSeen
  BY DEF RunnerInit, NumberedInv, BurstInv, SufficientMeansSeen, Pending
<1>6. QED
  BY <1>1, <1>2, <1>3, <1>4, <1>5 DEF RunnerInv

\* Every step keeps it.
LEMMA KeptInv == RunnerInv /\ [RunnerNext]_runnerVars => RunnerInv'
  BY StepTypes, WalkSteps, BlockerSteps, SentSteps, RetrySteps, NumberedSteps, BurstSteps,
     SufficientSteps DEF RunnerInv

\* The inductive invariant of the visit: verification_runner.py:561-970.
THEOREM RunnerInvariant == RunnerSpec => []RunnerInv
  BY InitialInv, KeptInv, PTL DEF RunnerSpec

\* The walk keeps its variables in range: verification_runner.py:561-970.
THEOREM RunnerTypesHold == RunnerSpec => []RunnerTypeOK
<1>1. RunnerInv => RunnerTypeOK
  BY DEF RunnerInv
<1>2. QED
  BY <1>1, RunnerInvariant, PTL

\* A route repeats only what touched nothing, and no more often than
\* verification_policy.max_retries says (verification_runner.py:657-703).
THEOREM RetriesStayWithinBudget == RunnerSpec => []RetriesWithinBudget
<1>1. RunnerInv => RetriesWithinBudget
  <2> SUFFICES ASSUME RunnerInv PROVE RetriesWithinBudget
    OBVIOUS
  <2>1. Cardinality(Retried) \in Nat /\ retryBudget \in Nat
    BY FS_CardinalityType DEF RunnerInv, RetryInv, RunnerTypeOK
  <2>2. QED
    BY <2>1, RouteAssumption DEF RunnerInv, RetryInv, RetriesWithinBudget
<1>2. QED
  BY <1>1, RunnerInvariant, PTL

\* A route that is called sufficient was seen, step by step and to its end
\* (verification_runner.py:890-913).
THEOREM SufficientWasSeen == RunnerSpec => []SufficientMeansSeen
<1>1. RunnerInv => SufficientMeansSeen
  BY DEF RunnerInv
<1>2. QED
  BY <1>1, RunnerInvariant, PTL

\* The visit implements VerificationPromise: no input is sent twice, out of
\* order or past a blocker, and "COMPLETED" tells that all were sent.
THEOREM RunnerKeepsPromise == RunnerSpec => PromiseHolds
<1>1. RunnerInit => Promise!PromiseInit
  <2> SUFFICES ASSUME RunnerInit PROVE Promise!PromiseInit
    OBVIOUS
  <2>1. Inputs \subseteq Nat
    BY InitialTypes DEF RunnerTypeOK, Inputs
  <2>2. Obstructed = FALSE
    BY DEF RunnerInit, Obstructed
  <2>3. QED
    BY <2>1, <2>2 DEF RunnerInit, Promise!PromiseInit, Pending
<1>2. RunnerInv /\ [RunnerNext]_runnerVars => [Promise!PromiseNext]_(Promise!promiseVars)
  BY PromiseSteps
<1>3. QED
  BY <1>1, <1>2, RunnerInvariant, PTL DEF RunnerSpec, PromiseHolds, Promise!PromiseSpec

-----------------------------------------------------------------------------
(* What is selected from a sequence.                                       *)

\* A nonempty set of numbers has a least element.
LEMMA LeastPosition ==
    ASSUME NEW S \in SUBSET Nat, S # {}
    PROVE  \E i \in S : \A j \in S : i <= j
<1> DEFINE Before == {ss \in Nat \X Nat : ss[1] < ss[2]}
<1>1. IsWellFoundedOn(Before, Nat)
  BY NatLessThanWellFounded DEF OpToRel
<1>2. \E x \in S : \A y \in S : ~ (<<y, x>> \in Before)
  <2> HIDE DEF Before
  <2> QED BY <1>1, WFMin
<1>3. \A x, y \in S : <<y, x>> \notin Before => x <= y
  BY DEF Before
<1>4. QED
  <2> HIDE DEF Before
  <2> QED BY <1>2, <1>3

\* What is selected from the first n elements.
Grown(S, s, chosen, g, n) ==
    /\ g \in [0 .. n -> Seq(S)] /\ g[0] = <<>>
    /\ \A i \in 1 .. n : g[i] = IF i \in chosen THEN Append(g[i - 1], s[i]) ELSE g[i - 1]

\* Such a record of the selection exists: no shortest prefix is without one.
LEMMA GrownExists ==
    ASSUME NEW S, NEW s \in Seq(S), NEW chosen, NEW n \in 0 .. Len(s)
    PROVE  \E g : Grown(S, s, chosen, g, n)
<1> DEFINE Bad == {m \in 0 .. Len(s) : ~ \E g : Grown(S, s, chosen, g, m)}
<1>1. Bad = {}
  <2> SUFFICES ASSUME Bad # {} PROVE FALSE
    OBVIOUS
  <2>1. PICK m \in Bad : \A j \in Bad : m <= j
    <3>1. Bad \in SUBSET Nat
      OBVIOUS
    <3> HIDE DEF Bad
    <3> QED BY <3>1, LeastPosition
  <2>2. m # 0
    <3>1. Grown(S, s, chosen, [i \in 0 .. 0 |-> <<>>], 0)
      BY DEF Grown
    <3> QED BY <3>1
  <2>3. m \in Nat /\ m - 1 \in 0 .. Len(s) /\ m \in 1 .. Len(s) /\ m - 1 \notin Bad
    BY <2>1, <2>2
  <2>4. PICK g : Grown(S, s, chosen, g, m - 1)
    BY <2>3
  <2> DEFINE last == IF m \in chosen THEN Append(g[m - 1], s[m]) ELSE g[m - 1]
             h == [i \in 0 .. m |-> IF i = m THEN last ELSE g[i]]
  <2>5. last \in Seq(S)
    BY <2>3, <2>4 DEF Grown
  <2>6. h \in [0 .. m -> Seq(S)]
    <3> HIDE DEF last
    <3> QED BY <2>3, <2>4, <2>5 DEF Grown
  <2>7. h[0] = <<>> /\ h[m] = last /\ \A i \in 0 .. m - 1 : h[i] = g[i]
    <3> HIDE DEF last
    <3> QED BY <2>3, <2>4 DEF Grown
  <2>8. \A i \in 1 .. m : h[i] = IF i \in chosen THEN Append(h[i - 1], s[i]) ELSE h[i - 1]
    <3> SUFFICES ASSUME NEW i \in 1 .. m
                 PROVE  h[i] = IF i \in chosen THEN Append(h[i - 1], s[i]) ELSE h[i - 1]
      OBVIOUS
    <3>1. i - 1 \in 0 .. m - 1 /\ h[i - 1] = g[i - 1]
      BY <2>3, <2>7
    <3> HIDE DEF h
    <3>2. CASE i = m
      BY <2>7, <3>1, <3>2
    <3>3. CASE i # m
      <4>1. i \in 1 .. m - 1 /\ h[i] = g[i]
        BY <2>3, <2>7, <3>3
      <4>2. QED
        BY <2>4, <3>1, <4>1 DEF Grown
    <3>4. QED
      BY <3>2, <3>3
  <2>9. Grown(S, s, chosen, h, m)
    <3> HIDE DEF h
    <3> QED BY <2>6, <2>7, <2>8 DEF Grown
  <2>10. QED
    BY <2>1, <2>9
<1>2. QED
  BY <1>1

\* The recursive function of Selected is such a record.
LEMMA SelectedGrown ==
    ASSUME NEW S, NEW s \in Seq(S), NEW chosen
    PROVE  \E g : Grown(S, s, chosen, g, Len(s)) /\ Selected(s, chosen) = g[Len(s)]
<1> DEFINE Def(f) == f = [i \in 0 .. Len(s) |->
                     IF i = 0 THEN <<>>
                     ELSE IF i \in chosen THEN Append(f[i - 1], s[i]) ELSE f[i - 1]]
           climb == CHOOSE f : Def(f)
<1>0. Len(s) \in 0 .. Len(s)
  OBVIOUS
<1>1. PICK g : Grown(S, s, chosen, g, Len(s))
  BY <1>0, GrownExists
<1>2. Def(g)
  <2>1. g \in [0 .. Len(s) -> Seq(S)]
    BY <1>1 DEF Grown
  <2>2. ASSUME NEW i \in 0 .. Len(s)
        PROVE  g[i] = IF i = 0 THEN <<>>
                      ELSE IF i \in chosen THEN Append(g[i - 1], s[i]) ELSE g[i - 1]
    <3>1. CASE i = 0
      BY <1>1, <3>1 DEF Grown
    <3>2. CASE i # 0
      <4>1. i \in 1 .. Len(s)
        BY <3>2
      <4>2. QED
        BY <1>1, <3>2, <4>1 DEF Grown
    <3>3. QED
      BY <3>1, <3>2
  <2>3. QED
    BY <2>1, <2>2
<1>3. Def(climb)
  <2> HIDE DEF Def
  <2> QED BY <1>2
<1>4. \A i \in 0 .. Len(s) : climb[i] = g[i]
  <2> DEFINE Bad == {m \in 0 .. Len(s) : climb[m] # g[m]}
  <2> SUFFICES ASSUME Bad # {} PROVE FALSE
    OBVIOUS
  <2>1. PICK m \in Bad : \A j \in Bad : m <= j
    <3>1. Bad \in SUBSET Nat
      OBVIOUS
    <3> HIDE DEF Bad, climb
    <3> QED BY <3>1, LeastPosition
  <2> HIDE DEF climb
  <2>2. m # 0
    BY <1>2, <1>3
  <2>3. m - 1 \in 0 .. Len(s) /\ climb[m - 1] = g[m - 1]
    BY <2>1, <2>2
  <2>4. QED
    BY <1>2, <1>3, <2>2, <2>3
<1>5. Selected(s, chosen) = climb[Len(s)]
  BY DEF Selected
<1>6. QED
  <2> HIDE DEF climb
  <2> QED BY <1>1, <1>4, <1>5

\* What is selected was there.
LEMMA SelectedWasThere ==
    ASSUME NEW S, NEW s \in Seq(S), NEW chosen
    PROVE  /\ Selected(s, chosen) \in Seq(S)
           /\ \A k \in DOMAIN Selected(s, chosen) :
                 \E i \in DOMAIN s : i \in chosen /\ Selected(s, chosen)[k] = s[i]
<1>1. PICK g : Grown(S, s, chosen, g, Len(s)) /\ Selected(s, chosen) = g[Len(s)]
  BY SelectedGrown
<1> DEFINE There(m) == \A k \in DOMAIN g[m] : \E i \in DOMAIN s : i \in chosen /\ g[m][k] = s[i]
           Bad == {m \in 0 .. Len(s) : ~There(m)}
<1>2. Bad = {}
  <2> SUFFICES ASSUME Bad # {} PROVE FALSE
    OBVIOUS
  <2>1. PICK m \in Bad : \A j \in Bad : m <= j
    <3>1. Bad \in SUBSET Nat
      OBVIOUS
    <3> HIDE DEF Bad
    <3> QED BY <3>1, LeastPosition
  <2>2. m # 0
    BY <1>1, <2>1 DEF Grown
  <2>3. m \in 1 .. Len(s) /\ m - 1 \in 0 .. Len(s) /\ There(m - 1)
    BY <2>1, <2>2
  <2>4. g[m - 1] \in Seq(S)
    BY <1>1, <2>3 DEF Grown
  <2>5. CASE m \in chosen
    <3>1. g[m] = Append(g[m - 1], s[m])
      BY <1>1, <2>3, <2>5 DEF Grown
    <3>2. m \in DOMAIN s
      BY <2>3
    <3>3. \A k \in DOMAIN g[m] : \/ k \in DOMAIN g[m - 1] /\ g[m][k] = g[m - 1][k]
                                 \/ g[m][k] = s[m]
      BY <2>4, <3>1
    <3>4. There(m)
      BY <2>3, <2>5, <3>2, <3>3
    <3>5. QED
      BY <2>1, <3>4
  <2>6. CASE m \notin chosen
    <3>1. g[m] = g[m - 1]
      BY <1>1, <2>3, <2>6 DEF Grown
    <3>2. QED
      BY <2>1, <2>3, <3>1
  <2>7. QED
    BY <2>5, <2>6
<1>3. There(Len(s)) /\ g[Len(s)] \in Seq(S)
  BY <1>1, <1>2 DEF Grown
<1>4. QED
  BY <1>1, <1>3

\* The frames an assertion is judged on are frames of the record.
LEMMA SliceIsOfTheRecord ==
    ASSUME NEW F, NEW a, NEW rec, rec.frames \in Seq(F)
    PROVE  /\ Slice(a, rec) \in Seq(F)
           /\ \A k \in DOMAIN Slice(a, rec) : \E i \in DOMAIN rec.frames :
                 Slice(a, rec)[k] = rec.frames[i]
<1> DEFINE ofRecord(shots) == /\ shots \in Seq(F)
                              /\ \A k \in DOMAIN shots : \E i \in DOMAIN rec.frames :
                                    shots[k] = rec.frames[i]
<1>1. ofRecord(rec.frames) /\ ofRecord(<<>>)
  OBVIOUS
<1>2. \A chosen : ofRecord(Selected(rec.frames, chosen))
  BY SelectedWasThere
<1>3. ofRecord(VerificationSurfaceSlice(rec))
  <2> HIDE DEF ofRecord
  <2> QED BY <1>2 DEF VerificationSurfaceSlice
<1>4. ofRecord(BusinessSlice(a, rec))
  <2> HIDE DEF ofRecord
  <2> QED BY <1>1, <1>2 DEF BusinessSlice
<1>5. ofRecord(Slice(a, rec))
  <2> HIDE DEF ofRecord
  <2> QED BY <1>1, <1>3, <1>4 DEF Slice
<1>6. QED
  BY <1>5

-----------------------------------------------------------------------------
(* What a conformant execution is.                                         *)

\* The first of some positions is one of them.
LEMMA FirstIsIn ==
    ASSUME NEW S \in SUBSET Nat, S # {}
    PROVE  FirstIn(S) \in S
<1>1. \E k \in S : \A l \in S : k <= l
  BY LeastPosition
<1>2. QED
  BY <1>1 DEF FirstIn

\* The failures that the check of an execution may name, none of which is the
\* word for a conformant one.
Failures == {"TEST_EXECUTION_FAILED", "ENV_BLOCKED", "INCONCLUSIVE", "UNSUPPORTED", "FAIL"}

\* Preconditions that name no failure all hold.
LEMMA PreconditionsHold ==
    ASSUME NEW c, NEW e, c.preconditions \in Seq(Answered)
    PROVE  /\ VerifyPreconditions(c, e) \in Failures \cup {NoFailure}
           /\ VerifyPreconditions(c, e) = NoFailure =>
                  \A k \in DOMAIN c.preconditions : c.preconditions[k] = "OK"
<1> DEFINE failing == {k \in DOMAIN c.preconditions : c.preconditions[k] # "OK"}
           first == c.preconditions[FirstIn(failing)]
<1>1. failing # {} => first \in Answered \ {"OK"}
  <2>1. failing \in SUBSET Nat
    OBVIOUS
  <2> SUFFICES ASSUME failing # {} PROVE first \in Answered \ {"OK"}
    OBVIOUS
  <2>2. FirstIn(failing) \in failing
    <3> HIDE DEF failing
    <3> QED BY <2>1, FirstIsIn
  <2> DEFINE k == FirstIn(failing)
  <2>3. k \in DOMAIN c.preconditions /\ c.preconditions[k] # "OK"
    BY <2>2
  <2> HIDE DEF k
  <2>4. c.preconditions[k] \in Answered \ {"OK"}
    BY <2>3
  <2>5. QED
    BY <2>4 DEF k
<1>2. VerifyPreconditions(c, e)
      = IF c.preconditions = <<>> THEN NoFailure
        ELSE IF ~e.initialSeen
        THEN IF \E k \in DOMAIN e.steps : e.steps[k].status = "ENV_BLOCKED"
             THEN "ENV_BLOCKED" ELSE "TEST_EXECUTION_FAILED"
        ELSE IF failing = {} THEN NoFailure
        ELSE IF first = "FAIL" THEN "TEST_EXECUTION_FAILED" ELSE first
  BY DEF VerifyPreconditions
<1>3. failing = {} => \A k \in DOMAIN c.preconditions : c.preconditions[k] = "OK"
  OBVIOUS
<1>4. c.preconditions = <<>> => \A k \in DOMAIN c.preconditions : c.preconditions[k] = "OK"
  OBVIOUS
<1> DEFINE all == \A k \in DOMAIN c.preconditions : c.preconditions[k] = "OK"
           seen == e.initialSeen
           blocked == \E k \in DOMAIN e.steps : e.steps[k].status = "ENV_BLOCKED"
<1> HIDE DEF failing, first, all, seen, blocked
<1>5. VerifyPreconditions(c, e)
      = IF c.preconditions = <<>> THEN NoFailure
        ELSE IF ~seen THEN IF blocked THEN "ENV_BLOCKED" ELSE "TEST_EXECUTION_FAILED"
        ELSE IF failing = {} THEN NoFailure
        ELSE IF first = "FAIL" THEN "TEST_EXECUTION_FAILED" ELSE first
  BY <1>2 DEF seen, blocked
<1>6. all \/ (c.preconditions # <<>> /\ failing # {})
  BY <1>3, <1>4 DEF all
<1>7. QED
  <2>1. VerifyPreconditions(c, e) = NoFailure => all
    BY <1>1, <1>5, <1>6 DEF Answered, NoFailure
  <2>2. VerifyPreconditions(c, e) \in Failures \cup {NoFailure}
    BY <1>1, <1>5 DEF Answered, NoFailure, Failures
  <2>3. QED
    BY <2>1, <2>2 DEF all

\* Statuses that name no failure all say that the step was completed.
LEMMA StatusesHold ==
    ASSUME NEW e, e.steps \in Seq(StepRecord)
    PROVE  /\ VerifyStatuses(e) \in Failures \cup {NoFailure}
           /\ VerifyStatuses(e) = NoFailure =>
                  \A k \in DOMAIN e.steps : e.steps[k].status = "STEP_COMPLETED"
<1> DEFINE broken == {k \in DOMAIN e.steps : e.steps[k].status # "STEP_COMPLETED"}
           status == e.steps[FirstIn(broken)].status
<1>1. VerifyStatuses(e)
      = IF broken = {} THEN NoFailure
        ELSE IF status \in {"ENV_BLOCKED", "UNSUPPORTED", "INCONCLUSIVE"} THEN status
        ELSE "TEST_EXECUTION_FAILED"
  BY DEF VerifyStatuses
<1>2. broken = {} => \A k \in DOMAIN e.steps : e.steps[k].status = "STEP_COMPLETED"
  OBVIOUS
<1> DEFINE all == \A k \in DOMAIN e.steps : e.steps[k].status = "STEP_COMPLETED"
<1>3. broken = {} => all
  BY <1>2
<1> HIDE DEF broken, status, all
<1>4. VerifyStatuses(e) = NoFailure => all
  BY <1>1, <1>3 DEF NoFailure
<1>5. VerifyStatuses(e) \in Failures \cup {NoFailure}
  BY <1>1 DEF NoFailure, Failures
<1>6. QED
  BY <1>4, <1>5 DEF all

\* A step as its contract wants it, which no model had to excuse.
Sound(step, result) ==
    /\ result.action /\ result.framed
    /\ result.attempts \in 1..step.retries + 1
    /\ result.gate \notin {"TEST_EXECUTION_FAIL", "RETRY", "ENV_BLOCKED", "INCONCLUSIVE"}
    /\ step.mode = "GOAL" => result.goal = "COMPLETED"
    /\ step.mode = "ATOMIC" => ~result.done

\* A step that passes is as its contract wants it.
LEMMA StepHolds ==
    ASSUME NEW step \in StepContract, NEW result \in StepRecord
    PROVE  /\ StepFlow(step, result).status \in Failures \cup {NoFailure}
           /\ StepFlow(step, result).uncertain \in BOOLEAN
           /\ StepFlow(step, result).status = NoFailure => Sound(step, result)
<1>1. /\ \A s : Certain(s).status = s /\ Certain(s).uncertain = FALSE
      /\ \A s : Uncertain(s).status = s /\ Uncertain(s).uncertain = TRUE
  BY DEF Certain, Uncertain
<1> DEFINE kept == /\ result.action /\ result.attempts \in 1..step.retries + 1 /\ result.framed
<1>2. StepFlow(step, result)
      = IF ~kept THEN Broken
        ELSE IF result.gate \in {"ENV_BLOCKED", "INCONCLUSIVE"} THEN Uncertain(result.gate)
        ELSE IF result.gate \in {"TEST_EXECUTION_FAIL", "RETRY"} THEN Broken
        ELSE IF step.mode = "GOAL"
        THEN CASE result.goal = "MISSING" -> Uncertain("INCONCLUSIVE")
               [] result.goal = "COMPLETED" -> Certain(NoFailure)
               [] OTHER -> Broken
        ELSE IF result.done THEN Broken
        ELSE Certain(NoFailure)
  BY DEF StepFlow
<1>3. Broken.status = "TEST_EXECUTION_FAILED" /\ Broken.uncertain = FALSE
  BY <1>1 DEF Broken
<1> DEFINE said == StepFlow(step, result)
           over == result.done
<1> HIDE DEF kept, said, over
<1>4. said = IF ~kept THEN Broken
        ELSE IF result.gate \in {"ENV_BLOCKED", "INCONCLUSIVE"} THEN Uncertain(result.gate)
        ELSE IF result.gate \in {"TEST_EXECUTION_FAIL", "RETRY"} THEN Broken
        ELSE IF step.mode = "GOAL"
        THEN IF result.goal = "MISSING" THEN Uncertain("INCONCLUSIVE")
             ELSE IF result.goal = "COMPLETED" THEN Certain(NoFailure)
             ELSE Broken
        ELSE IF over THEN Broken
        ELSE Certain(NoFailure)
  BY <1>2 DEF said, over
<1>5. step.mode \in {"ATOMIC", "GOAL"}
  BY DEF StepContract
<1>6. said.status \in Failures \cup {NoFailure} /\ said.uncertain \in BOOLEAN
  BY <1>1, <1>3, <1>4 DEF Failures, NoFailure
<1>7. said.status = NoFailure =>
        /\ kept
        /\ result.gate \notin {"TEST_EXECUTION_FAIL", "RETRY", "ENV_BLOCKED", "INCONCLUSIVE"}
        /\ step.mode = "GOAL" => result.goal = "COMPLETED"
        /\ step.mode = "ATOMIC" => ~over
  BY <1>1, <1>3, <1>4, <1>5 DEF NoFailure
<1>8. QED
  BY <1>6, <1>7 DEF said, kept, over, Sound

\* A flow that passes without the model passes step by step.
LEMMA FlowHolds ==
    ASSUME NEW c, NEW e, c.steps \in Seq(StepContract), e.steps \in Seq(StepRecord),
           Len(e.steps) = Len(c.steps),
           FlowStatus(VerifyFlow(c, e), "OFF") = NoFailure
    PROVE  \A k \in DOMAIN e.steps : Sound(c.steps[k], e.steps[k])
<1> DEFINE flow == [k \in DOMAIN c.steps |-> StepFlow(c.steps[k], e.steps[k])]
           stopping == {k \in DOMAIN flow : flow[k].status # NoFailure}
<1>1. \A k \in DOMAIN c.steps :
          k \in DOMAIN e.steps /\ c.steps[k] \in StepContract /\ e.steps[k] \in StepRecord
  OBVIOUS
<1>2. VerifyFlow(c, e) = IF stopping = {} THEN Certain(NoFailure) ELSE flow[FirstIn(stopping)]
  BY DEF VerifyFlow
<1>3. stopping \in SUBSET Nat
  OBVIOUS
<1>4. stopping # {} => FirstIn(stopping) \in stopping
  <2> HIDE DEF stopping
  <2> QED BY <1>3, FirstIsIn
<1>5. ASSUME stopping # {} PROVE FALSE
  <2> DEFINE k == FirstIn(stopping)
  <2>1. VerifyFlow(c, e) = flow[k] /\ k \in DOMAIN c.steps /\ flow[k].status # NoFailure
    BY <1>2, <1>4, <1>5
  <2>2. flow[k] = StepFlow(c.steps[k], e.steps[k])
    BY <2>1
  <2>3. FlowStatus(VerifyFlow(c, e), "OFF") = VerifyFlow(c, e).status
    BY DEF FlowStatus
  <2>4. QED
    BY <2>1, <2>3
<1>6. \A k \in DOMAIN c.steps : StepFlow(c.steps[k], e.steps[k]).status = NoFailure
  BY <1>5
<1>7. DOMAIN e.steps = DOMAIN c.steps
  OBVIOUS
<1>8. QED
  BY <1>1, <1>6, <1>7, StepHolds

\* What the word "COMPLETED" of the check means.
LEMMA ConformanceMeans ==
    ASSUME NEW c, NEW e, NEW answer, c.steps \in Seq(StepContract),
           c.preconditions \in Seq(Answered), e.steps \in Seq(StepRecord),
           Conformance(c, e, answer) = "COMPLETED"
    PROVE  /\ Len(e.steps) = Len(c.steps)
           /\ \A k \in DOMAIN c.preconditions : c.preconditions[k] = "OK"
           /\ \A k \in DOMAIN e.steps :
                 e.steps[k].step = k /\ e.steps[k].status = "STEP_COMPLETED" /\ e.steps[k].value
           /\ Conformance(c, e, "OFF") = "COMPLETED" =>
                 \A k \in DOMAIN e.steps : Sound(c.steps[k], e.steps[k])
<1>1. \A a : Conformance(c, e, a) = "COMPLETED" =>
        /\ VerifyPreconditions(c, e) = NoFailure /\ VerifyStatuses(e) = NoFailure
        /\ InOrder(c, e) /\ ValuesMatch(e)
  BY PreconditionsHold, StatusesHold DEF Conformance, Failures, NoFailure
<1>2. Len(e.steps) = Len(c.steps)
  BY <1>1 DEF InOrder
<1>3. ASSUME Conformance(c, e, "OFF") = "COMPLETED"
      PROVE  FlowStatus(VerifyFlow(c, e), "OFF") = NoFailure
  <2>1. FlowStatus(VerifyFlow(c, e), "OFF") # NoFailure
        => FlowStatus(VerifyFlow(c, e), "OFF") = "COMPLETED"
    BY <1>1, <1>3 DEF Conformance
  <2>2. FlowStatus(VerifyFlow(c, e), "OFF") = VerifyFlow(c, e).status
    BY DEF FlowStatus
  <2>3. VerifyFlow(c, e).status # "COMPLETED"
    <3> DEFINE flow == [k \in DOMAIN c.steps |-> StepFlow(c.steps[k], e.steps[k])]
               stopping == {k \in DOMAIN flow : flow[k].status # NoFailure}
    <3>1. VerifyFlow(c, e) = IF stopping = {} THEN Certain(NoFailure) ELSE flow[FirstIn(stopping)]
      BY DEF VerifyFlow
    <3>2. stopping \in SUBSET Nat
      OBVIOUS
    <3>3. stopping # {} => FirstIn(stopping) \in stopping
      <4> HIDE DEF stopping
      <4> QED BY <3>2, FirstIsIn
    <3>4. CASE stopping = {}
      BY <3>1, <3>4 DEF Certain, NoFailure
    <3>5. CASE stopping # {}
      <4>1. PICK k \in DOMAIN c.steps : VerifyFlow(c, e) = StepFlow(c.steps[k], e.steps[k])
        BY <3>1, <3>3, <3>5
      <4>2. c.steps[k] \in StepContract /\ e.steps[k] \in StepRecord
        BY <1>2
      <4>3. QED
        BY <4>1, <4>2, StepHolds DEF Failures, NoFailure
    <3>6. QED
      BY <3>4, <3>5
  <2>4. QED
    BY <2>1, <2>2, <2>3
<1>4. QED
  BY <1>1, <1>2, <1>3, PreconditionsHold, StatusesHold, FlowHolds DEF InOrder, ValuesMatch

-----------------------------------------------------------------------------
(* The stages of a test.                                                   *)

\* What was executed is what the executor may make of the test, and how
\* conformant it is was read from it.
CaseInv ==
    /\ test \in TestCases
    /\ stage = "execute" => conformance = "NONE"
    /\ stage # "execute" =>
           /\ execution \in Executions[test]
           /\ \E answer \in FlowAnswers : conformance = Conformance(test.contract, execution, answer)
           /\ ~excused => conformance = Conformance(test.contract, execution, "OFF")

\* Every action but the first leaves the case alone.
LEMMA CaseKept ==
    ASSUME [VerdictNext]_verdictVars, ~Execute
    PROVE  UNCHANGED caseVars /\ (stage = "execute" <=> stage' = "execute")
<1>1. CASE UNCHANGED verdictVars
  BY <1>1 DEF verdictVars
<1>2. QED
  BY <1>1 DEF VerdictNext, Advance, JudgeDirectly, StandByDirect, NobodyToAsk, StartVisit,
     Visit, VisitFailed, AdoptVisit, ScriptedVisit, Attribute

\* The case is invariant: only Execute writes it.
LEMMA CaseInvariant == VerdictSpec => []CaseInv
<1>1. VerdictInit => CaseInv
  BY DEF VerdictInit, CaseInv
<1>2. CaseInv /\ [VerdictNext]_verdictVars => CaseInv'
  <2> SUFFICES ASSUME CaseInv, [VerdictNext]_verdictVars PROVE CaseInv'
    OBVIOUS
  <2>1. CASE Execute
    <3>1. PICK e \in Executions[test], answer \in FlowAnswers :
             /\ execution' = e /\ conformance' = Conformance(test.contract, e, answer)
             /\ excused' = (conformance' # Conformance(test.contract, e, "OFF"))
      BY <2>1 DEF Execute
    <3>2. stage' # "execute" /\ test' = test
      BY <2>1 DEF Execute
    <3>3. ~excused' => conformance' = Conformance(test.contract, e, "OFF")
      BY <3>1
    <3>4. QED
      BY <3>1, <3>2, <3>3 DEF CaseInv
  <2>2. CASE ~Execute
    BY <2>2, CaseKept DEF CaseInv, caseVars
  <2>3. QED
    BY <2>1, <2>2
<1>3. QED
  BY <1>1, <1>2, PTL DEF VerdictSpec

\* A conformant case followed its contract.
LEMMA ConformantCase == CaseInv => CompletedFollowsContract
<1> SUFFICES ASSUME CaseInv, conformance = "COMPLETED"
             PROVE  CompletedFollowsContract
  BY DEF CompletedFollowsContract
<1> DEFINE c == test.contract
           e == execution
<1>1. /\ test \in TestCases /\ e \in Executions[test]
      /\ ~excused => Conformance(c, e, "OFF") = "COMPLETED"
  BY DEF CaseInv
<1>2. PICK answer : Conformance(c, e, answer) = "COMPLETED"
  BY DEF CaseInv
<1>3. /\ c.steps \in Seq(StepContract) /\ c.preconditions \in Seq(Answered)
      /\ e.steps \in Seq(StepRecord)
  BY <1>1, ExecutionsAssumption
<1> HIDE DEF c, e
<1>4. /\ Len(e.steps) = Len(c.steps)
      /\ \A k \in DOMAIN c.preconditions : c.preconditions[k] = "OK"
      /\ \A k \in DOMAIN e.steps :
            e.steps[k].step = k /\ e.steps[k].status = "STEP_COMPLETED" /\ e.steps[k].value
      /\ Conformance(c, e, "OFF") = "COMPLETED" =>
            \A k \in DOMAIN e.steps : Sound(c.steps[k], e.steps[k])
  BY <1>2, <1>3, ConformanceMeans
<1>5. QED
  BY <1>1, <1>4 DEF CompletedFollowsContract, Sound, c, e

\* The app is judged only on an execution of exactly the declared steps, in
\* their order, with the declared values and after all the preconditions, for
\* every contract, every execution and every answer of the flow model
\* (execution_verifier.py:25-207).
THEOREM ConformanceTheorem == VerdictSpec => []CompletedFollowsContract
  BY ConformantCase, CaseInvariant, PTL

-----------------------------------------------------------------------------
(* What decides a text.                                                    *)

\* One observation that is no frame decides nothing.
LEMMA SingleIsNotDecisive ==
    \A status : \A i \in DOMAIN Single(status) : ~Decisive(Single(status)[i])
  BY DEF Single, Decisive, NonDecisive

\* A text is observed by the frames or by one word.
LEMMA ObservedSomehow ==
    ASSUME NEW a, NEW rec, NEW shots
    PROVE  \/ TextObservations(a, rec, shots) = FrameObservations(a, rec, shots)
           \/ \E status : TextObservations(a, rec, shots) = Single(status)
<1> DEFINE reason == SliceReason(a, rec, shots)
           obs == TextObservations(a, rec, shots)
           byFrames == FrameObservations(a, rec, shots)
<1>1. obs = CASE reason = "no value" -> Single("UNSUPPORTED_CAPABILITY")
               [] reason \in {"needs runner", "historical"} -> Single("UNKNOWN_EVIDENCE")
               [] reason \in {"no boundary", "no source"} -> Single("SOURCE_EVIDENCE_MISSING")
               [] OTHER -> byFrames
  BY DEF TextObservations
<1> HIDE DEF reason, byFrames, obs
<1>2. CASE reason = "no value"
  BY <1>1, <1>2 DEF obs
<1>3. CASE reason \in {"needs runner", "historical"}
  BY <1>1, <1>3 DEF obs
<1>4. CASE reason \in {"no boundary", "no source"}
  BY <1>1, <1>4 DEF obs
<1>5. CASE reason \notin {"no value", "needs runner", "historical", "no boundary", "no source"}
  BY <1>1, <1>5 DEF obs, byFrames
<1>6. QED
  BY <1>2, <1>3, <1>4, <1>5

\* A frame on which an absence decides belongs to a whole window.
LEMMA AbsentFrame ==
    ASSUME NEW a, NEW rec, NEW shots, NEW i \in DOMAIN shots,
           NEW o, o = FrameObservations(a, rec, shots)[i],
           \/ a.type = "TEXT_ABSENT" /\ o.status = "SATISFIED"
           \/ a.type = "TEXT_VISIBLE" /\ o.status = "VIOLATED"
    PROVE  NegativeSufficient(shots) /\ SettledOn(shots[i]) /\ ~Shows(shots[i])
<1> DEFINE fresh == FreshnessProven(a.fresh, InitialCount(rec),
                                    {shots[j].screen.count : j \in DOMAIN shots})
           window == NegativeSufficient(shots)
           f == shots[i]
           status == FrameStatus(a, f, fresh)
<1>1. o = FrameObservation(a, f, fresh, rec.sufficient, window)
  BY DEF FrameObservations
<1>2. o.status = IF rec.sufficient /\ (Shows(f) \/ window) THEN status ELSE "UNKNOWN_EVIDENCE"
  BY <1>1 DEF FrameObservation
<1>3. o.status = status /\ (Shows(f) \/ window)
  BY <1>2
<1>4. SettledOn(f) /\ ~Shows(f)
  BY <1>3 DEF FrameStatus
<1>5. QED
  BY <1>3, <1>4

\* Unknown is neither.
LEMMA UnknownDecidesNothing ==
    \A obs : UnknownStatus(obs) \notin {"SATISFIED", "VIOLATED"}
  BY DEF UnknownStatus

\* What is decided by an absence was decided on a whole window.
LEMMA AbsenceByTheWindow ==
    ASSUME NEW F, NEW a, NEW rec, rec.frames \in Seq(F),
           \/ a.type = "TEXT_ABSENT" /\ CurrentReview(a, rec).status = "SATISFIED"
           \/ a.type = "TEXT_VISIBLE" /\ CurrentReview(a, rec).status = "VIOLATED"
    PROVE  /\ NegativeSufficient(Slice(a, rec))
           /\ \E k \in DOMAIN Slice(a, rec) :
                 SettledOn(Slice(a, rec)[k]) /\ ~Shows(Slice(a, rec)[k])
<1> DEFINE shots == Slice(a, rec)
           obs == TextObservations(a, rec, shots)
           said == AggregateCriterion(Criterion(a), obs)
<1>1. shots \in Seq(F)
  BY SliceIsOfTheRecord
<1>2. CurrentReview(a, rec).status = AppStatus(said)
  BY DEF CurrentReview, TextTypes
<1> HIDE DEF shots, obs, said
<1>3. /\ AppStatus(said) = "SATISFIED" => said = "SATISFIED"
      /\ AppStatus(said) = "VIOLATED" => said = "VIOLATED"
  BY DEF AppStatus
<1>4. DOMAIN FrameObservations(a, rec, shots) = DOMAIN shots
  BY DEF FrameObservations
<1>5. DOMAIN obs \subseteq Nat /\ \E n \in Nat : DOMAIN obs = 1..n
  <2>1. \A status : DOMAIN Single(status) = 1..1
    BY DEF Single
  <2>2. DOMAIN shots = 1..Len(shots) /\ Len(shots) \in Nat
    BY <1>1
  <2>3. DOMAIN obs = 1..1 \/ DOMAIN obs = 1..Len(shots)
    BY <2>1, <2>2, <1>4, ObservedSomehow DEF obs
  <2> DEFINE d == DOMAIN obs
             n == Len(shots)
  <2> HIDE DEF d, n
  <2>4. n \in Nat /\ (d = 1..1 \/ d = 1..n)
    BY <2>2, <2>3 DEF d, n
  <2>5. \E m \in Nat : d = 1..m
    BY <2>4
  <2>6. d \subseteq Nat
    BY <2>5
  <2>7. QED
    BY <2>5, <2>6 DEF d
<1>6. ASSUME NEW i \in DOMAIN obs, Decisive(obs[i]),
             \/ a.type = "TEXT_ABSENT" /\ obs[i].status = "SATISFIED"
             \/ a.type = "TEXT_VISIBLE" /\ obs[i].status = "VIOLATED"
      PROVE  NegativeSufficient(shots) /\ \E k \in DOMAIN shots : SettledOn(shots[k]) /\ ~Shows(shots[k])
  <2>1. obs = FrameObservations(a, rec, shots)
    BY <1>6, ObservedSomehow, SingleIsNotDecisive DEF obs
  <2>2. i \in DOMAIN shots
    BY <1>4, <1>6, <2>1
  <2>3. NegativeSufficient(shots) /\ SettledOn(shots[i]) /\ ~Shows(shots[i])
    BY <1>6, <2>1, <2>2, AbsentFrame
  <2>4. QED
    BY <2>2, <2>3
<1>7. CASE a.type = "TEXT_ABSENT" /\ said = "SATISFIED"
  <2> DEFINE looks == {i \in Where(obs, Success) \cup Where(obs, Violation) :
                          obs[i].state # "OBSCURED_BUT_PERSISTENT"}
             k == LastOf(looks)
  <2>1. said = AggregatePersistent(obs)
    BY <1>7 DEF said, AggregateCriterion, Criterion
  <2>2. AggregatePersistent(obs) = IF looks = {} THEN UnknownStatus(obs) ELSE obs[k].status
    BY DEF AggregatePersistent
  <2>3. looks # {} /\ obs[k].status = "SATISFIED"
    <3> HIDE DEF looks, k
    <3> QED BY <1>7, <2>1, <2>2, UnknownDecidesNothing
  <2>4. looks \subseteq DOMAIN obs /\ \A i \in looks : Decisive(obs[i])
    BY DEF Where, Success, Violation
  <2>5. k \in looks
    <3> HIDE DEF looks
    <3>1. PICK n \in Nat : looks \in SUBSET (1..n)
      BY <1>5, <2>4
    <3>2. \E j \in looks : \A l \in looks : l <= j
      BY <2>3, <3>1, LastStep
    <3>3. QED
      BY <3>2 DEF LastOf
  <2> HIDE DEF looks, k
  <2>6. QED
    BY <1>6, <1>7, <2>3, <2>4, <2>5 DEF shots
<1>8. CASE a.type = "TEXT_VISIBLE" /\ said = "VIOLATED"
  <2>1. said = AggregateEventual(obs)
    BY <1>8 DEF said, AggregateCriterion, Criterion
  <2>2. Where(obs, Violation) # {}
    BY <1>8, <2>1, UnknownDecidesNothing DEF AggregateEventual
  <2>3. PICK i \in DOMAIN obs : Violation(obs[i])
    BY <2>2 DEF Where
  <2>4. QED
    BY <1>6, <1>8, <2>3 DEF Violation, shots
<1>9. QED
  BY <1>2, <1>3, <1>7, <1>8

\* A whole window of a part of the record is one of the record, and a frame
\* of the part is a frame of the record.
LEMMA WindowOfTheRecord ==
    ASSUME NEW F, NEW a, NEW rec, rec.frames \in Seq(F),
           NegativeSufficient(Slice(a, rec))
    PROVE  /\ \A o \in ExpectedOffsets : \E f \in ToSet(rec.frames) : f.offset = o
           /\ \E f \in ToSet(rec.frames) : f.stable
           /\ \A k \in DOMAIN Slice(a, rec) : Slice(a, rec)[k] \in ToSet(rec.frames)
<1> DEFINE shots == Slice(a, rec)
<1>1. \A k \in DOMAIN shots : \E i \in DOMAIN rec.frames : shots[k] = rec.frames[i]
  BY SliceIsOfTheRecord
<1>2. \A k \in DOMAIN shots : shots[k] \in ToSet(rec.frames)
  <2> HIDE DEF shots
  <2> QED BY <1>1 DEF ToSet
<1> HIDE DEF shots
<1>3. NegativeSufficient(shots)
  BY DEF shots
<1>4. /\ \A o \in ExpectedOffsets : \E i \in DOMAIN shots : shots[i].offset = o
      /\ \E i \in DOMAIN shots : shots[i].stable
  BY <1>3 DEF NegativeSufficient
<1>5. QED
  BY <1>2, <1>4 DEF shots

-----------------------------------------------------------------------------
(* The visit inside the test.                                              *)

\* What the runner does inside a test is what it does on its own.
LEMMA VisitIsARun == VerdictSpec => RunnerSpec
<1>1. VerdictInit => RunnerInit
  BY DEF VerdictInit
<1>2. [VerdictNext]_verdictVars => [RunnerNext]_runnerVars
  <2> SUFFICES ASSUME [VerdictNext]_verdictVars PROVE RunnerNext \/ UNCHANGED runnerVars
    OBVIOUS
  <2>1. CASE UNCHANGED verdictVars
    BY <2>1 DEF verdictVars
  <2>2. CASE Visit
    BY <2>2 DEF Visit
  <2>3. QED
    BY <2>1, <2>2 DEF VerdictNext, Advance, Execute, JudgeDirectly, StandByDirect, NobodyToAsk,
       StartVisit, VisitFailed, AdoptVisit, ScriptedVisit, Attribute
<1>3. QED
  BY <1>1, <1>2, PTL DEF VerdictSpec, RunnerSpec

\* Nobody looks before the test was judged directly, and the visit ends once.
\* What the verdict rests on is the judgement of one record.
OnRecord(rec) == ~assisted => statuses = Unassisted(rec)
Decided == behavior \in {"SATISFIED", "VIOLATED"}

\* It is a judgement of that record, whoever else was heard.
HeardOn(rec) ==
    \E legacy \in Answers(LegacyAnswers \cup {"NONE"}), vision \in Answers(VisionAnswers) :
        statuses = Judged(rec, legacy, vision)

\* The direct judgement stands only where the policy asks for no look.
LookTaken == Adopted \/ (pc = "start" /\ test.policy # "REQUIRED_FOR_RESULT")

StageInv ==
    /\ stage \in {"execute", "judge", "decide"} => pc = "start"
    /\ stage = "execute" => behavior = "NOT_EVALUATED"
    /\ stage \in {"decide", "visit"} =>
           /\ behavior = Behavior(statuses)
           /\ OnRecord(execution.evidence) /\ HeardOn(execution.evidence)
    /\ stage \in {"attribute", "done"} /\ Decided =>
           /\ behavior = Behavior(statuses) /\ LookTaken
           /\ OnRecord(JudgedRecord) /\ HeardOn(JudgedRecord)
    /\ IF stage = "done" THEN verdict = OverallResult ELSE verdict = "NONE"

\* A judgement does not change while the case and the record stay.
LEMMA JudgementKept ==
    ASSUME UNCHANGED <<test, execution, statuses, behavior, assisted>>
    PROVE  /\ Behavior(statuses)' = Behavior(statuses)
           /\ \A rec : OnRecord(rec)' <=> OnRecord(rec)
           /\ OnRecord(execution.evidence)' <=> OnRecord(execution.evidence)
           /\ HeardOn(execution.evidence)' <=> HeardOn(execution.evidence)
           /\ (Decided' <=> Decided)
<1>1. \A rec : Unassisted(rec)' = Unassisted(rec)
  BY DEF Unassisted, Judged, Unheard, Asserted
<1>2. Unassisted(execution.evidence)' = Unassisted(execution.evidence)
  BY DEF Unassisted, Judged, Unheard, Asserted
<1>3. Behavior(statuses)' = Behavior(statuses)
  BY DEF Behavior, Asserted
<1>4. HeardOn(execution.evidence)' <=> HeardOn(execution.evidence)
  BY DEF HeardOn, Judged, Answers, Asserted
<1>5. QED
  BY <1>1, <1>2, <1>3, <1>4 DEF OnRecord, Decided

\* Before a visit has ended there is only the business record.
LEMMA RecordBeforeTheVisit ==
    (pc = "start" \/ ~Usable \/ stage \notin {"attribute", "done"}) =>
        JudgedRecord = execution.evidence
  BY DEF JudgedRecord, Adopted

\* Every step keeps what each stage knows of the judgement.
LEMMA StageSteps ==
    ASSUME StageInv, CaseInv, [VerdictNext]_verdictVars
    PROVE  StageInv'
<1>1. CASE Execute
  <2>1. /\ stage = "execute" /\ stage' \in {"judge", "attribute"}
        /\ UNCHANGED <<pc, behavior, verdict>>
    BY <1>1 DEF Execute, runnerVars, judgeVars
  <2>2. pc = "start" /\ behavior = "NOT_EVALUATED" /\ verdict = "NONE"
    BY <2>1 DEF StageInv
  <2>3. QED
    BY <2>1, <2>2 DEF StageInv, Decided
<1>2. CASE JudgeDirectly
  <2>1. /\ stage = "judge" /\ stage' = "decide"
        /\ UNCHANGED <<pc, test, execution, verdict>>
        /\ statuses' = direct' /\ behavior' = Behavior(direct')
        /\ assisted' = (direct' # Unassisted(execution.evidence))
    BY <1>2 DEF JudgeDirectly, runnerVars, caseVars
  <2>2. pc = "start" /\ verdict = "NONE"
    BY <2>1 DEF StageInv
  <2>3. Behavior(statuses)' = Behavior(direct')
    BY <2>1 DEF Behavior, Asserted
  <2>4. Unassisted(execution.evidence)' = Unassisted(execution.evidence)
    BY <2>1 DEF Unassisted, Judged, Unheard, Asserted
  <2>5. OnRecord(execution.evidence)'
    BY <2>1, <2>4 DEF OnRecord
  <2>6. HeardOn(execution.evidence)'
    <3>1. PICK legacy \in Answers(LegacyAnswers), vision \in Answers(VisionAnswers) :
             direct' = Judged(execution.evidence, legacy, vision)
      BY <1>2 DEF JudgeDirectly
    <3>2. legacy \in Answers(LegacyAnswers \cup {"NONE"})
      BY <3>1 DEF Answers
    <3>3. statuses' = Judged(execution.evidence, legacy, vision)
      BY <2>1, <3>1
    <3>4. QED
      BY <2>1, <3>2, <3>3 DEF HeardOn, Judged, Answers, Asserted
  <2>7. QED
    BY <2>1, <2>2, <2>3, <2>5, <2>6 DEF StageInv
<1>3. ASSUME stage = "decide", stage' = "attribute",
             UNCHANGED <<pc, test, execution, statuses, assisted, verdict>>,
             \/ behavior' = behavior /\ test.policy # "REQUIRED_FOR_RESULT"
             \/ behavior' \notin {"SATISFIED", "VIOLATED"}
      PROVE  StageInv'
  <2>1. pc = "start" /\ verdict = "NONE" /\ behavior = Behavior(statuses)
        /\ OnRecord(execution.evidence) /\ HeardOn(execution.evidence)
    BY <1>3 DEF StageInv
  <2>2. CASE behavior' = behavior /\ test.policy # "REQUIRED_FOR_RESULT"
    <3>1. JudgedRecord' = execution.evidence
      BY <1>3, <2>1, <2>2 DEF JudgedRecord, Adopted
    <3>2. OnRecord(JudgedRecord)'
      BY <1>3, <2>1, <2>2, <3>1 DEF OnRecord, Unassisted, Judged, Unheard, Asserted
    <3>3. behavior' = Behavior(statuses)'
      BY <1>3, <2>1, <2>2, JudgementKept
    <3>4. HeardOn(JudgedRecord)'
      BY <1>3, <2>1, <2>2, <3>1 DEF HeardOn, Judged, Answers, Asserted
    <3>5. LookTaken'
      BY <1>3, <2>1, <2>2 DEF LookTaken
    <3>6. QED
      BY <1>3, <2>1, <3>2, <3>3, <3>4, <3>5 DEF StageInv
  <2>3. CASE behavior' \notin {"SATISFIED", "VIOLATED"}
    BY <1>3, <2>1, <2>3 DEF StageInv, Decided
  <2>4. QED
    BY <1>3, <2>2, <2>3
<1>4. CASE StandByDirect
  BY <1>3, <1>4 DEF StandByDirect, NoVisitNeeded, runnerVars, caseVars, judgeVars
<1>5. CASE NobodyToAsk
  BY <1>3, <1>5 DEF NobodyToAsk, runnerVars, caseVars
<1>6. CASE StartVisit
  <2>1. stage = "decide" /\ stage' = "visit"
        /\ UNCHANGED <<pc, test, execution, statuses, behavior, assisted, verdict>>
    BY <1>6 DEF StartVisit, runnerVars, caseVars, judgeVars
  <2>2. QED
    BY <2>1, JudgementKept DEF StageInv
<1>7. CASE Visit
  <2>1. stage = "visit" /\ stage' = "visit"
        /\ UNCHANGED <<test, execution, statuses, behavior, assisted, verdict>>
    BY <1>7 DEF Visit, caseVars, judgeVars
  <2>2. QED
    BY <2>1, JudgementKept DEF StageInv
<1>8. CASE VisitFailed
  <2>1. /\ stage = "visit" /\ stage' = "attribute" /\ verdict' = verdict
        /\ behavior' \notin {"SATISFIED", "VIOLATED"}
    BY <1>8 DEF VisitFailed, UnusableVisit
  <2>2. QED
    BY <2>1 DEF StageInv, Decided
<1>9. CASE AdoptVisit
  <2>1. /\ stage = "visit" /\ stage' = "attribute" /\ verdict' = verdict /\ pc = "end" /\ Usable
        /\ UNCHANGED <<pc, frames, results, outcome, test, execution>>
        /\ behavior' = Behavior(statuses')
        /\ assisted' = (statuses' # Unassisted(VerificationRecord))
    BY <1>9 DEF AdoptVisit, runnerVars, caseVars, record
  <2>2. JudgedRecord' = VerificationRecord
    BY <2>1 DEF JudgedRecord, Adopted, Usable, VerificationRecord
  <2>3. Unassisted(JudgedRecord)' = Unassisted(VerificationRecord)
    BY <2>1, <2>2 DEF Unassisted, Judged, Unheard, Asserted
  <2>4. Behavior(statuses)' = Behavior(statuses')
    BY <2>1 DEF Behavior, Asserted
  <2>5. HeardOn(JudgedRecord)'
    <3>1. PICK vision \in Answers(VisionAnswers) :
             statuses' = Judged(VerificationRecord, Unheard, vision)
      BY <1>9 DEF AdoptVisit
    <3>2. Unheard \in Answers(LegacyAnswers \cup {"NONE"})
      BY DEF Unheard, Answers
    <3>3. QED
      BY <2>1, <2>2, <3>1, <3>2 DEF HeardOn, Judged, Answers, Asserted
  <2>6. LookTaken'
    BY <2>1 DEF LookTaken, Adopted, Usable
  <2>7. QED
    BY <2>1, <2>3, <2>4, <2>5, <2>6 DEF StageInv, OnRecord
<1>10. ASSUME NEW status \in {"ROUTE_FAILED", "ENV_BLOCKED", "UNSUPPORTED"}, ScriptedVisit(status)
       PROVE  StageInv'
  <2>1. UnusableVisit(status) \notin {"SATISFIED", "VIOLATED"}
    BY DEF UnusableVisit
  <2>2. QED
    BY <1>3, <1>10, <2>1 DEF ScriptedVisit, runnerVars, caseVars
<1>11. CASE Attribute
  <2>1. /\ stage = "attribute" /\ stage' = "done" /\ verdict' = OverallResult
        /\ UNCHANGED <<pc, frames, results, outcome, test, execution, conformance, statuses,
                       behavior, assisted>>
    BY <1>11 DEF Attribute, runnerVars, caseVars, judgeVars, record
  <2>2. OverallResult' = OverallResult
    BY <2>1 DEF OverallResult
  <2>3. JudgedRecord' = JudgedRecord
    BY <2>1 DEF JudgedRecord, Adopted, Usable, VerificationRecord
  <2>4. OnRecord(JudgedRecord)' <=> OnRecord(JudgedRecord)
    BY <2>1, <2>3 DEF OnRecord, Unassisted, Judged, Unheard, Asserted
  <2>5. (HeardOn(JudgedRecord)' <=> HeardOn(JudgedRecord)) /\ (LookTaken => LookTaken')
    BY <2>1, <2>3 DEF HeardOn, Judged, Answers, Asserted, LookTaken, Adopted, Usable
  <2>6. QED
    BY <2>1, <2>2, <2>4, <2>5, JudgementKept DEF StageInv
<1>12. CASE UNCHANGED verdictVars
  <2>1. UNCHANGED <<stage, pc, frames, results, outcome, test, execution, conformance, statuses,
                    behavior, assisted, verdict>>
    BY <1>12 DEF verdictVars, runnerVars, caseVars, judgeVars, record
  <2>2. OverallResult' = OverallResult /\ JudgedRecord' = JudgedRecord
    BY <2>1 DEF OverallResult, JudgedRecord, Adopted, Usable, VerificationRecord
  <2>3. OnRecord(JudgedRecord)' <=> OnRecord(JudgedRecord)
    BY <2>1, <2>2 DEF OnRecord, Unassisted, Judged, Unheard, Asserted
  <2>4. (HeardOn(JudgedRecord)' <=> HeardOn(JudgedRecord)) /\ (LookTaken' <=> LookTaken)
    BY <2>1, <2>2 DEF HeardOn, Judged, Answers, Asserted, LookTaken, Adopted, Usable
  <2>5. QED
    BY <2>1, <2>2, <2>3, <2>4, JudgementKept DEF StageInv
<1>13. QED
  BY <1>1, <1>2, <1>4, <1>5, <1>6, <1>7, <1>8, <1>9, <1>10, <1>11, <1>12
     DEF VerdictNext, Advance

\* What each stage knows of the judgement holds throughout.
LEMMA StageInvariant == VerdictSpec => []StageInv
<1>1. VerdictInit => StageInv
  BY DEF VerdictInit, RunnerInit, StageInv
<1>2. QED
  BY <1>1, StageSteps, CaseInvariant, PTL DEF VerdictSpec

-----------------------------------------------------------------------------
(* What the absence of something is worth.                                 *)

\* What a decided verdict rests on.
LEMMA Unaided ==
    ASSUME NEW i \in Asserted, statuses = Unassisted(JudgedRecord),
           test.assertions[i].type \in TextTypes
    PROVE  statuses[i] = CurrentReview(test.assertions[i], JudgedRecord).status
<1> DEFINE a == test.assertions[i]
           rec == JudgedRecord
<1>1. statuses[i] = AssertionStatus(a, rec, execution.evidence, "NONE", "OFF")
  <2> HIDE DEF rec, a
  <2>1. statuses = Unassisted(rec)
    BY DEF rec
  <2>2. QED
    BY <2>1 DEF Unassisted, Judged, Unheard, Asserted, a
<1> HIDE DEF a, rec
<1>2. OfflineReview(a, rec, "NONE") = CurrentReview(a, rec)
  BY DEF OfflineReview
<1>3. AssertionStatus(a, rec, execution.evidence, "NONE", "OFF") = CurrentReview(a, rec).status
  BY <1>2 DEF AssertionStatus, VisualAllowed
<1>4. QED
  BY <1>1, <1>3 DEF a, rec

\* A behavior that is satisfied found no forbidden effect in the whole window.
LEMMA ForbiddenWindow ==
    ASSUME behavior = Behavior(statuses), behavior = "SATISFIED", test.forbids,
           NEW F, execution.evidence.frames \in Seq(F)
    PROVE  /\ \A o \in ExpectedOffsets : \E f \in ToSet(execution.evidence.frames) : f.offset = o
           /\ \A f \in ToSet(execution.evidence.frames) : ~f.screen.forbidden
<1> DEFINE e == execution.evidence
           said == ForbiddenStatus(e)
           own == {statuses[i] : i \in {j \in Asserted : test.assertions[j].required}}
<1> HIDE DEF e, said, own
<1>1. BehaviorOf(own \cup {said}) = "SATISFIED"
  BY DEF Behavior, own, said, e
<1>2. said = "SATISFIED"
  <2>1. said \in {"SATISFIED", "VIOLATED", "UNKNOWN_EVIDENCE"}
    BY DEF said, ForbiddenStatus
  <2>2. QED
    BY <1>1, <2>1 DEF BehaviorOf
<1>3. NegativeSufficient(e.frames) /\ \A f \in ToSet(e.frames) : ~f.screen.forbidden
  BY <1>2 DEF said, ForbiddenStatus
<1>4. QED
  BY <1>3 DEF NegativeSufficient, ToSet, e

\* Unless a model or the legacy checker said so, no verdict rests on
\* the absence of a text, or of a forbidden effect, but after a look at every
\* delay of the observation policy, whatever the tests, the executions, the
\* visits and the schedule (evidence.py:69-163, offline_verifier.py:560-760).
THEOREM AbsenceTheorem == VerdictSpec => []AbsenceNeedsTheWindow
<1>1. StageInv /\ CaseInv /\ RunnerInv => AbsenceNeedsTheWindow
  <2> SUFFICES ASSUME StageInv, CaseInv, RunnerInv, verdict \in {"APP_PASS", "APP_FAIL"}
               PROVE  AbsenceNeedsTheWindow
    BY DEF AbsenceNeedsTheWindow
  <2>1. stage = "done" /\ verdict = OverallResult
    BY DEF StageInv
  <2>2. /\ conformance = "COMPLETED"
        /\ verdict = "APP_PASS" => behavior = "SATISFIED"
        /\ verdict = "APP_FAIL" => behavior = "VIOLATED"
    BY <2>1 DEF OverallResult
  <2>3. behavior = Behavior(statuses) /\ OnRecord(JudgedRecord)
    BY <2>1, <2>2 DEF StageInv, Decided
  <2>4. execution.evidence.frames \in Seq(BusinessFrame)
    BY <2>1, ExecutionsAssumption DEF CaseInv
  <2>5. \E F : JudgedRecord.frames \in Seq(F)
    <3>1. CASE Adopted
      <4>1. JudgedRecord.frames = frames
        BY <3>1 DEF JudgedRecord, VerificationRecord
      <4>2. QED
        BY <4>1 DEF RunnerInv, RunnerTypeOK
    <3>2. CASE ~Adopted
      <4>1. JudgedRecord.frames = execution.evidence.frames
        BY <3>2 DEF JudgedRecord
      <4>2. QED
        BY <2>4, <4>1
    <3>3. QED
      BY <3>1, <3>2
  <2> DEFINE whole(shots) == \A o \in ExpectedOffsets : \E f \in shots : f.offset = o
             byText(status, type) == \E i \in Required :
                 statuses[i] = status /\ test.assertions[i].type = type
             business == ToSet(execution.evidence.frames)
  <2>6. ASSUME verdict = "APP_PASS", test.forbids
        PROVE  whole(business) /\ \A f \in business : ~f.screen.forbidden
    BY <2>2, <2>3, <2>4, <2>6, ForbiddenWindow
  <2>7. ASSUME ~assisted, NEW i \in Required,
               \/ statuses[i] = "SATISFIED" /\ test.assertions[i].type = "TEXT_ABSENT"
               \/ statuses[i] = "VIOLATED" /\ test.assertions[i].type = "TEXT_VISIBLE"
        PROVE  /\ whole(JudgedFrames) /\ \E f \in JudgedFrames : f.stable
               /\ \E f \in JudgedFrames : SettledOn(f) /\ ~Shows(f)
    <3> DEFINE a == test.assertions[i]
               rec == JudgedRecord
    <3>1. i \in Asserted /\ a.type \in TextTypes
      BY <2>7 DEF Required, TextTypes
    <3>2. statuses[i] = CurrentReview(a, rec).status
      BY <2>3, <2>7, <3>1, Unaided DEF OnRecord
    <3>3. PICK F : rec.frames \in Seq(F)
      BY <2>5
    <3> HIDE DEF a, rec
    <3>4. \/ a.type = "TEXT_ABSENT" /\ CurrentReview(a, rec).status = "SATISFIED"
          \/ a.type = "TEXT_VISIBLE" /\ CurrentReview(a, rec).status = "VIOLATED"
      BY <2>7, <3>2 DEF a
    <3>5. /\ NegativeSufficient(Slice(a, rec))
          /\ \E k \in DOMAIN Slice(a, rec) :
                SettledOn(Slice(a, rec)[k]) /\ ~Shows(Slice(a, rec)[k])
      BY <3>3, <3>4, AbsenceByTheWindow
    <3>6. /\ whole(ToSet(rec.frames)) /\ \E f \in ToSet(rec.frames) : f.stable
          /\ \A k \in DOMAIN Slice(a, rec) : Slice(a, rec)[k] \in ToSet(rec.frames)
      BY <3>3, <3>5, WindowOfTheRecord
    <3>7. QED
      BY <3>5, <3>6 DEF rec, JudgedFrames
  <2>8. verdict = "APP_PASS" /\ ~assisted /\ byText("SATISFIED", "TEXT_ABSENT") =>
            whole(JudgedFrames) /\ \E f \in JudgedFrames : f.stable
    BY <2>7
  <2>9. verdict = "APP_FAIL" /\ ~assisted /\ byText("VIOLATED", "TEXT_VISIBLE") =>
            whole(JudgedFrames) /\ \E f \in JudgedFrames : SettledOn(f) /\ ~Shows(f)
    BY <2>7
  <2>10. QED
    BY <2>6, <2>8, <2>9 DEF AbsenceNeedsTheWindow
<1>2. QED
  BY <1>1, StageInvariant, CaseInvariant, VisitIsARun, RunnerInvariant, PTL

\* A route that is called sufficient was seen, also inside a test.
THEOREM SufficientVisitTheorem == VerdictSpec => []SufficientMeansSeen
  BY VisitIsARun, SufficientWasSeen, PTL

\* The visit keeps its promise to the app also inside a test.
THEOREM VisitKeepsPromise == VerdictSpec => PromiseHolds
  BY VisitIsARun, RunnerKeepsPromise, PTL

\* An environment that got in the way is never held for or against the app,
\* be it in a precondition, a step or the visit (attribution.py:15-67).
\* Where the look of an independent runner is required by the policy, no
\* verdict on the app comes without one (orchestrator.py:120-251).

-----------------------------------------------------------------------------
(* What a verdict on the app is worth.                                     *)

\* What is known when a verdict on the app was given.
LEMMA VerdictOnTheApp ==
    ASSUME StageInv, CaseInv, RunnerInv, OfTheApp
    PROVE  /\ stage = "done" /\ conformance = "COMPLETED"
           /\ verdict = "APP_PASS" => behavior = "SATISFIED"
           /\ behavior = Behavior(statuses) /\ LookTaken
           /\ OnRecord(JudgedRecord) /\ HeardOn(JudgedRecord)
           /\ execution.evidence.frames \in Seq(BusinessFrame)
           /\ execution.evidence.role = "BUSINESS_EXECUTION"
<1>1. stage = "done" /\ verdict = OverallResult
  BY DEF StageInv, OfTheApp
<1>2. /\ conformance = "COMPLETED"
      /\ verdict = "APP_PASS" => behavior = "SATISFIED"
      /\ verdict = "APP_FAIL" => behavior = "VIOLATED"
  BY <1>1 DEF OverallResult, OfTheApp
<1>3. QED
  BY <1>1, <1>2, ExecutionsAssumption DEF StageInv, CaseInv, Decided, OfTheApp

\* No frame shows a blocker once a look was taken.
LEMMA LookWasClear ==
    ASSUME RunnerInv, LookTaken
    PROVE  \A k \in DOMAIN frames : ~frames[k].screen.blocked
<1>1. CASE Adopted
  <2>1. ~Obstructed
    BY <1>1 DEF Adopted, Usable, RunnerInv, SufficientMeansSeen
  <2>2. QED
    BY <2>1 DEF Obstructed
<1>2. CASE pc = "start"
  <2>1. ~Obstructed
    BY <1>2 DEF RunnerInv, BlockerInv
  <2>2. QED
    BY <2>1 DEF Obstructed
<1>3. QED
  BY <1>1, <1>2 DEF LookTaken

\* An environment that got in the way - in a precondition, a step or a
\* dialog over the visit - is never held for or against the app
\* (attribution.py:15-67).
THEOREM EnvironmentTheorem == VerdictSpec => []EnvironmentNeverBlamesApp
<1>1. StageInv /\ CaseInv /\ RunnerInv => EnvironmentNeverBlamesApp
  <2> SUFFICES ASSUME StageInv, CaseInv, RunnerInv, OfTheApp PROVE EnvironmentNeverBlamesApp
    BY DEF EnvironmentNeverBlamesApp
  <2>1. conformance = "COMPLETED" /\ LookTaken
    BY VerdictOnTheApp
  <2>2. /\ \A k \in DOMAIN execution.steps : execution.steps[k].status = "STEP_COMPLETED"
        /\ \A k \in DOMAIN test.contract.preconditions : test.contract.preconditions[k] = "OK"
    BY <2>1, ConformantCase DEF CompletedFollowsContract
  <2>3. QED
    BY <2>1, <2>2, LookWasClear DEF EnvironmentNeverBlamesApp
<1>2. QED
  BY <1>1, StageInvariant, CaseInvariant, VisitIsARun, RunnerInvariant, PTL

\* A behavior that is satisfied has no required status against it.
LEMMA RequiredSatisfied ==
    ASSUME behavior = Behavior(statuses), behavior = "SATISFIED", NEW i \in Required
    PROVE  statuses[i] \notin {"UNSUPPORTED", "VIOLATED", "UNKNOWN_EVIDENCE"}
<1> DEFINE own == {statuses[j] : j \in {k \in Asserted : test.assertions[k].required}}
           other == IF test.forbids THEN {ForbiddenStatus(execution.evidence)} ELSE {}
<1>1. statuses[i] \in own
  BY DEF Required
<1>2. BehaviorOf(own \cup other) = "SATISFIED"
  BY DEF Behavior
<1> HIDE DEF own, other
<1>3. QED
  BY <1>1, <1>2 DEF BehaviorOf

\* A text that needs the runner is never found on the business record.
LEMMA RunnerNeeded ==
    ASSUME NEW a, NEW rec, NEW business, NEW legacy, NEW vision,
           a.type \in TextTypes, a.needsRunner, rec.role = "BUSINESS_EXECUTION"
    PROVE  AssertionStatus(a, rec, business, legacy, vision) \in {"UNSUPPORTED", "UNKNOWN_EVIDENCE"}
<1> DEFINE reason == SliceReason(a, rec, Slice(a, rec))
           obs == TextObservations(a, rec, Slice(a, rec))
           said == AggregateCriterion(Criterion(a), obs)
           current == CurrentReview(a, rec)
<1>1. current = [status |-> AppStatus(said), reason |-> reason]
  BY DEF CurrentReview, TextTypes
<1>2. reason \in {"no value", "needs runner"}
  BY DEF SliceReason
<1>3. \/ reason = "no value" /\ obs = Single("UNSUPPORTED_CAPABILITY")
      \/ reason = "needs runner" /\ obs = Single("UNKNOWN_EVIDENCE")
  BY <1>2 DEF TextObservations
<1>4. ~LegacyHeard(a, rec)
  BY DEF LegacyHeard
<1>5. OfflineReview(a, rec, legacy) = current
  BY <1>4 DEF OfflineReview
<1> HIDE DEF reason, obs, said, current
<1>6. ASSUME NEW status \in {"UNSUPPORTED_CAPABILITY", "UNKNOWN_EVIDENCE"}
      PROVE  /\ Where(Single(status), Success) = {} /\ Where(Single(status), Violation) = {}
             /\ Single(status) # <<>>
             /\ \A i \in DOMAIN Single(status) : Single(status)[i].status = status
             /\ UnknownStatus(Single(status)) = status
  <2>1. /\ DOMAIN Single(status) = {1} /\ Single(status)[1].status = status
        /\ ~Decisive(Single(status)[1]) /\ Single(status) # <<>>
    BY DEF Single, Decisive, NonDecisive
  <2>2. Where(Single(status), Success) = {} /\ Where(Single(status), Violation) = {}
    BY <2>1 DEF Where, Success, Violation
  <2>3. UnknownStatus(Single(status)) = status
    BY <2>1 DEF UnknownStatus
  <2>4. QED
    BY <2>1, <2>2, <2>3
<1>7. Criterion(a) \in {"EVENTUAL_STATE", "PERSISTENT_STATE"}
  BY DEF Criterion
<1>8. ASSUME NEW status \in {"UNSUPPORTED_CAPABILITY", "UNKNOWN_EVIDENCE"}, obs = Single(status)
      PROVE  said = status
  <2>1. AggregateEventual(obs) = status
    BY <1>6, <1>8 DEF AggregateEventual
  <2>2. AggregatePersistent(obs) = status
    BY <1>6, <1>8 DEF AggregatePersistent
  <2>3. QED
    BY <1>7, <2>1, <2>2 DEF AggregateCriterion, said
<1>9. \/ reason = "no value" /\ current.status = "UNSUPPORTED"
      \/ reason = "needs runner" /\ current.status = "UNKNOWN_EVIDENCE"
  BY <1>1, <1>3, <1>8 DEF AppStatus
<1>10. ~VisualAllowed(a, current, vision)
  BY <1>1, <1>9 DEF VisualAllowed
<1>11. AssertionStatus(a, rec, business, legacy, vision) = current.status
  BY <1>5, <1>10 DEF AssertionStatus
<1>12. QED
  BY <1>9, <1>11

\* Where the look of an independent runner is required - by the policy of the
\* test, or by a text it must find - no verdict on the app, or no pass, comes
\* without one that reached its surface and saw the whole window
\* (orchestrator.py:120-251, offline_verifier.py:648-657).
THEOREM LookTheorem == VerdictSpec => []NoVerdictWithoutTheLook
<1>1. StageInv /\ CaseInv /\ RunnerInv => NoVerdictWithoutTheLook
  <2> SUFFICES ASSUME StageInv, CaseInv, RunnerInv, OfTheApp PROVE NoVerdictWithoutTheLook
    BY DEF NoVerdictWithoutTheLook, OfTheApp
  <2>1. test.policy = "REQUIRED_FOR_RESULT" => Adopted
    BY VerdictOnTheApp DEF LookTaken
  <2>2. ASSUME verdict = "APP_PASS", ~Adopted, NEW i \in Required,
               test.assertions[i].needsRunner, test.assertions[i].type \in TextTypes
        PROVE  FALSE
    <3>1. PICK legacy, vision : statuses = Judged(JudgedRecord, legacy, vision)
      BY VerdictOnTheApp DEF HeardOn
    <3>2. JudgedRecord = execution.evidence
      BY <2>2 DEF JudgedRecord
    <3>3. statuses[i] = AssertionStatus(test.assertions[i], execution.evidence,
                                        execution.evidence, legacy[i], vision[i])
      BY <3>1, <3>2 DEF Judged, Required
    <3>4. execution.evidence.role = "BUSINESS_EXECUTION"
      BY VerdictOnTheApp
    <3>5. statuses[i] \in {"UNSUPPORTED", "UNKNOWN_EVIDENCE"}
      BY <2>2, <3>3, <3>4, RunnerNeeded
    <3>6. statuses[i] \notin {"UNSUPPORTED", "UNKNOWN_EVIDENCE"}
      BY <2>2, VerdictOnTheApp, RequiredSatisfied
    <3>7. QED
      BY <3>5, <3>6
  <2>3. QED
    BY <2>1, <2>2 DEF NoVerdictWithoutTheLook
<1>2. QED
  BY <1>1, StageInvariant, CaseInvariant, VisitIsARun, RunnerInvariant, PTL

-----------------------------------------------------------------------------
(* What a text that is found was found on.                                 *)

\* A text that is found was read on one of the frames it is judged on.
LEMMA FoundOnAFrame ==
    ASSUME NEW F, NEW a, NEW rec, rec.frames \in Seq(F),
           a.type = "TEXT_VISIBLE", CurrentReview(a, rec).status = "SATISFIED"
    PROVE  \E k \in DOMAIN Slice(a, rec) :
              /\ SettledOn(Slice(a, rec)[k]) /\ Shows(Slice(a, rec)[k])
              /\ ~Slice(a, rec)[k].screen.overlay
<1> DEFINE shots == Slice(a, rec)
           obs == TextObservations(a, rec, shots)
           said == AggregateCriterion(Criterion(a), obs)
<1>1. CurrentReview(a, rec).status = AppStatus(said)
  BY DEF CurrentReview, TextTypes
<1> HIDE DEF shots, obs, said
<1>2. said = "SATISFIED"
  BY <1>1 DEF AppStatus
<1>3. said = AggregateEventual(obs)
  BY DEF said, AggregateCriterion, Criterion
<1>4. PICK k \in DOMAIN obs : Success(obs[k])
  BY <1>2, <1>3, UnknownDecidesNothing DEF AggregateEventual, Where
<1>5. obs = FrameObservations(a, rec, shots)
  BY <1>4, ObservedSomehow, SingleIsNotDecisive DEF obs, Success
<1>6. k \in DOMAIN shots
  BY <1>4, <1>5 DEF FrameObservations
<1> DEFINE fresh == FreshnessProven(a.fresh, InitialCount(rec),
                                    {shots[j].screen.count : j \in DOMAIN shots})
           window == NegativeSufficient(shots)
           f == shots[k]
           status == FrameStatus(a, f, fresh)
<1>7. obs[k] = FrameObservation(a, f, fresh, rec.sufficient, window)
  BY <1>5, <1>6 DEF FrameObservations
<1>8. obs[k].status = IF rec.sufficient /\ (Shows(f) \/ window) THEN status ELSE "UNKNOWN_EVIDENCE"
  BY <1>7 DEF FrameObservation
<1>9. status = "SATISFIED"
  BY <1>4, <1>8 DEF Success
<1>10. SettledOn(f) /\ Shows(f) /\ ~f.screen.overlay
  BY <1>9 DEF FrameStatus
<1>11. QED
  BY <1>6, <1>10 DEF shots

\* What the frames of the slice have in common.
LEMMA SliceMeets ==
    ASSUME NEW F, NEW a, NEW rec, rec.frames \in Seq(F), NEW k \in DOMAIN Slice(a, rec)
    PROVE  /\ rec.role = "BUSINESS_EXECUTION" /\ a.after =>
                  /\ Slice(a, rec)[k].after
                  /\ a.surface => OnSurface(Slice(a, rec)[k])
           /\ rec.role # "BUSINESS_EXECUTION" /\ a.surface =>
                  \E g \in SurfaceFrames(rec) : Slice(a, rec)[k].id >= g.id
<1>1. ASSUME rec.role = "BUSINESS_EXECUTION", a.after
      PROVE  Slice(a, rec)[k].after /\ (a.surface => OnSurface(Slice(a, rec)[k]))
  <2> DEFINE later(f) == f.after /\ (a.surface => OnSurface(f))
             chosen == {i \in DOMAIN rec.frames : later(rec.frames[i])}
  <2>1. Slice(a, rec) = Selected(rec.frames, chosen)
    BY <1>1 DEF Slice, BusinessSlice
  <2> HIDE DEF chosen
  <2>2. PICK i \in DOMAIN rec.frames : i \in chosen /\ Slice(a, rec)[k] = rec.frames[i]
    BY <2>1, SelectedWasThere
  <2>3. QED
    BY <2>2 DEF chosen
<1>2. ASSUME rec.role # "BUSINESS_EXECUTION", a.surface
      PROVE  \E g \in SurfaceFrames(rec) : Slice(a, rec)[k].id >= g.id
  <2> DEFINE proofs == {f.id : f \in SurfaceFrames(rec)}
             late(f) == SettledOn(f) /\ \E p \in proofs : f.id >= p
             chosen == {i \in DOMAIN rec.frames : late(rec.frames[i])}
  <2>1. Slice(a, rec) = Selected(rec.frames, chosen)
    BY <1>2 DEF Slice, VerificationSurfaceSlice
  <2> HIDE DEF chosen
  <2>2. PICK i \in DOMAIN rec.frames : i \in chosen /\ Slice(a, rec)[k] = rec.frames[i]
    BY <2>1, SelectedWasThere
  <2>3. \E p \in proofs : Slice(a, rec)[k].id >= p
    BY <2>2 DEF chosen
  <2>4. QED
    BY <2>3
<1>3. QED
  BY <1>1, <1>2

\* Unless a model or the legacy checker said so, a test passes only
\* if every text it requires was read on a settled page of the record that
\* was judged, not just in the clipboard or an input field, after the action
\* it should follow, and not before its surface had shown
\* (offline_verifier.py:707-757, evidence.py:249-283).
THEOREM UnseenTextTheorem == VerdictSpec => []UnseenTextNeverPasses
<1>1. StageInv /\ CaseInv /\ RunnerInv => UnseenTextNeverPasses
  <2> SUFFICES ASSUME StageInv, CaseInv, RunnerInv, verdict = "APP_PASS", ~assisted,
                      NEW i \in Required, test.assertions[i].type = "TEXT_VISIBLE"
               PROVE  \E f \in JudgedFrames :
                         /\ Shows(f) /\ SettledOn(f) /\ ~f.screen.overlay
                         /\ test.assertions[i].after /\ ~Adopted => f.after
                         /\ test.assertions[i].surface /\ (Adopted \/ test.assertions[i].after) =>
                                \E g \in JudgedFrames : OnSurface(g) /\ g.id <= f.id
    BY DEF UnseenTextNeverPasses
  <2> DEFINE a == test.assertions[i]
             rec == JudgedRecord
  <2>1. /\ behavior = Behavior(statuses) /\ behavior = "SATISFIED" /\ statuses = Unassisted(rec)
        /\ execution.evidence.frames \in Seq(BusinessFrame)
        /\ execution.evidence.role = "BUSINESS_EXECUTION"
    BY VerdictOnTheApp DEF OfTheApp, OnRecord
  <2>2. PICK F : rec.frames \in Seq(F) /\ \A f \in F : f.id \in Nat
    <3>1. CASE Adopted
      <4>1. rec.frames = frames /\ frames \in Seq(Shot)
        BY <3>1 DEF JudgedRecord, VerificationRecord, RunnerInv, RunnerTypeOK
      <4>2. \A f \in Shot : f.id \in Nat
        BY DEF Shot
      <4>3. QED
        BY <4>1, <4>2
    <3>2. CASE ~Adopted
      <4>1. rec.frames = execution.evidence.frames
        BY <3>2 DEF JudgedRecord
      <4>2. \A f \in BusinessFrame : f.id \in Nat
        BY DEF BusinessFrame
      <4>3. QED
        BY <2>1, <4>1, <4>2
    <3>3. QED
      BY <3>1, <3>2
  <2>3. rec.role = "BUSINESS_EXECUTION" <=> ~Adopted
    BY <2>1 DEF JudgedRecord, VerificationRecord
  <2>4. i \in Asserted /\ a.type \in TextTypes
    BY DEF Required, TextTypes
  <2>5. statuses[i] = CurrentReview(a, rec).status
    BY <2>1, <2>4, Unaided
  <2>6. statuses[i] \notin {"UNSUPPORTED", "VIOLATED", "UNKNOWN_EVIDENCE"}
    BY <2>1, RequiredSatisfied
  <2>7. a.type = "TEXT_VISIBLE"
    OBVIOUS
  <2>8. \A f : f \in ToSet(rec.frames) <=> f \in JudgedFrames
    BY DEF JudgedFrames
  <2>9. Adopted \in BOOLEAN
    BY DEF Adopted
  <2> HIDE DEF a, rec
  <2>10. CurrentReview(a, rec).status = "SATISFIED"
    <3>1. CurrentReview(a, rec).status \in {"SATISFIED", "VIOLATED", "UNSUPPORTED", "UNKNOWN_EVIDENCE"}
      BY <2>4 DEF CurrentReview, AppStatus
    <3>2. QED
      BY <2>5, <2>6, <3>1
  <2>11. PICK k \in DOMAIN Slice(a, rec) :
            /\ SettledOn(Slice(a, rec)[k]) /\ Shows(Slice(a, rec)[k])
            /\ ~Slice(a, rec)[k].screen.overlay
    BY <2>2, <2>7, <2>10, FoundOnAFrame
  <2>12. PICK n \in DOMAIN rec.frames : Slice(a, rec)[k] = rec.frames[n]
    BY <2>2, SliceIsOfTheRecord
  <2> DEFINE f == Slice(a, rec)[k]
  <2>13. f \in ToSet(rec.frames) /\ f.id \in Nat
    BY <2>2, <2>12 DEF ToSet
  <2>14. a.after /\ ~Adopted => f.after /\ (a.surface => OnSurface(f))
    BY <2>2, <2>3, SliceMeets
  <2>15. Adopted /\ a.surface => \E g \in SurfaceFrames(rec) : f.id >= g.id
    BY <2>2, <2>3, SliceMeets
  <2> HIDE DEF f
  <2>16. \A g \in SurfaceFrames(rec) : g \in ToSet(rec.frames) /\ OnSurface(g)
    BY DEF SurfaceFrames
  <2>17. ASSUME a.surface, Adopted \/ a.after
         PROVE  \E g \in ToSet(rec.frames) : OnSurface(g) /\ g.id <= f.id
    <3>1. CASE Adopted
      <4>1. PICK g \in SurfaceFrames(rec) : f.id >= g.id
        BY <2>15, <2>17, <3>1
      <4>2. QED
        BY <2>16, <4>1
    <3>2. CASE ~Adopted
      BY <2>13, <2>14, <2>17, <3>2
    <3>3. QED
      BY <3>1, <3>2
  <2>18. SettledOn(f) /\ Shows(f) /\ ~f.screen.overlay
    BY <2>11 DEF f
  <2>19. QED
    BY <2>8, <2>13, <2>14, <2>17, <2>18 DEF a
<1>2. QED
  BY <1>1, StageInvariant, CaseInvariant, VisitIsARun, RunnerInvariant, PTL

-----------------------------------------------------------------------------
(* HarmonyRun: the types of its variables.                                 *)

ReportLine == [agent : Calls, case : Cases, at : Nat]
Request == [service : Calls, agent : Calls, action : {"observe", "act"},
            stage : {"admitted", "acting", "layout", "torn"}]

CallTypeOK ==
    /\ call \in [n : Nat, kind : Kinds \cup {"owned"}, case : Cases, started : Nat,
                 failed : BOOLEAN]
    /\ doing # "idle" => call.n \in Calls
    /\ taken \in Seq([call : Nat, report : ReportLine])
BridgeTypeOK ==
    /\ up \in Calls \cup {Nobody}
    /\ workers \subseteq Request
PhoneTypeOK ==
    /\ agents \in [Calls -> Cases \cup {"off"}]
    /\ log \subseteq ReportLine
    /\ clock \in Nat
HarmonyTypeOK == CallTypeOK /\ BridgeTypeOK /\ PhoneTypeOK

LEMMA HarmonyTypesInit == HarmonyInit => HarmonyTypeOK
BY CallsAssumption DEF HarmonyInit, HarmonyTypeOK, CallTypeOK, BridgeTypeOK, PhoneTypeOK, Nobody

\* A step of a call that goes on, or raises, leaves its record one.
LEMMA CallGoesOn ==
  ASSUME CallTypeOK, doing # "idle", NEW next, GoOn(next) \/ Raise(next), taken' = taken
  PROVE  CallTypeOK'
<1>1. call.n \in Calls
  BY DEF CallTypeOK
<1>2. call' \in [n : Nat, kind : Kinds \cup {"owned"}, case : Cases, started : Nat,
                 failed : BOOLEAN] /\ call'.n = call.n
  BY DEF CallTypeOK, GoOn, Raise
<1>3. QED
  BY <1>1, <1>2 DEF CallTypeOK, Calls

LEMMA HarmonyTypesStep == HarmonyTypeOK /\ [HarmonyNext]_harmonyVars => HarmonyTypeOK'
<1> SUFFICES ASSUME HarmonyTypeOK, [HarmonyNext]_harmonyVars PROVE HarmonyTypeOK'
  OBVIOUS
<1> USE DEF HarmonyTypeOK
<1>a. UNCHANGED phone => PhoneTypeOK'
  BY DEF phone, PhoneTypeOK, Calls, ReportLine
<1>b. UNCHANGED bridge => BridgeTypeOK'
  BY DEF bridge, BridgeTypeOK, Calls, Request, Nobody
<1>c. UNCHANGED callVars => CallTypeOK'
  BY DEF callVars, CallTypeOK, Calls, ReportLine
<1>d. UNCHANGED <<agents, log, clock>> => PhoneTypeOK'
  BY DEF PhoneTypeOK, Calls, ReportLine
<1>e. UNCHANGED <<up, workers>> => BridgeTypeOK'
  BY DEF BridgeTypeOK, Calls, Request, Nobody
<1>f. \A next : doing # "idle" /\ (GoOn(next) \/ Raise(next)) /\ taken' = taken => CallTypeOK'
  BY CallGoesOn
<1>1. ASSUME NEW kind \in Kinds, NEW c \in Cases, Begin(kind, c) PROVE HarmonyTypeOK'
  <2>1. CallTypeOK'
    BY <1>1, CallsAssumption DEF Begin, CallTypeOK, Calls
  <2>2. QED
    BY <1>a, <1>b, <1>1, <2>1 DEF Begin
<1>2. CASE Bind
  <2>1. BridgeTypeOK'
    BY <1>2 DEF Bind, BridgeTypeOK, CallTypeOK, Calls, Request
  <2>2. QED
    BY <1>a, <1>f, <1>2, <2>1 DEF Bind
<1>3. CASE Start
  BY <1>3, <1>a, <1>e, <1>f DEF Start
<1>4. CASE _hdc_rport
  BY <1>4, <1>a, <1>b, <1>f DEF _hdc_rport, RaiseInside
<1>5. CASE _send_case
  BY <1>5, <1>d, <1>b, <1>f DEF _send_case, RaiseInside
<1>6. CASE SendKey
  BY <1>6, <1>d, <1>b, <1>f DEF SendKey, RaiseInside
<1>7. CASE Launch
  <2>1. BridgeTypeOK'
    BY <1>7, <1>b DEF Launch
  <2>2. PhoneTypeOK'
    <3>1. agents' \in [Calls -> Cases \cup {"off"}]
      <4>1. CASE agents' = agents
        BY <4>1 DEF PhoneTypeOK
      <4>2. CASE Started(call.n, call.case)
        BY <4>2 DEF Started, PhoneTypeOK, CallTypeOK
      <4>3. QED
        BY <1>7, <4>1, <4>2 DEF Launch
    <3>2. log' = log /\ clock' = clock + 1
      BY <1>7 DEF Launch
    <3>3. QED
      BY <3>1, <3>2 DEF PhoneTypeOK, ReportLine, Calls
  <2>3. CallTypeOK'
    <3>1. CASE call' = [call EXCEPT !.started = clock + 1]
      <4>1. call' \in [n : Nat, kind : Kinds \cup {"owned"}, case : Cases, started : Nat,
                       failed : BOOLEAN] /\ call'.n = call.n
        BY <3>1 DEF CallTypeOK, PhoneTypeOK
      <4>2. QED
        BY <1>7, <4>1 DEF Launch, CallTypeOK, Calls
    <3>2. CASE \E next : GoOn(next) \/ Raise(next)
      BY <1>7, <1>f, <3>2 DEF Launch
    <3>3. QED
      BY <1>7, <3>1, <3>2 DEF Launch, RaiseInside
  <2>4. QED
    BY <2>1, <2>2, <2>3
<1>8. CASE _run_test
  BY <1>8, <1>a, <1>b, <1>f DEF _run_test, RaiseInside
<1>9. CASE FindReport
  <2>1. ASSUME NEW line \in Candidates, GoOn("export"),
               taken' = Append(taken, [call |-> call.n, report |-> line]), doing = "poll"
        PROVE  CallTypeOK'
    <3>1. [call |-> call.n, report |-> line] \in [call : Nat, report : ReportLine]
      BY <2>1 DEF Candidates, PhoneTypeOK, CallTypeOK
    <3>2. taken' \in Seq([call : Nat, report : ReportLine])
      BY <2>1, <3>1 DEF CallTypeOK
    <3>3. QED
      BY <2>1, <3>2 DEF CallTypeOK, GoOn, Calls, ReportLine
  <2>2. CallTypeOK'
    BY <1>9, <1>f, <2>1 DEF FindReport, RaiseInside
  <2>3. QED
    BY <1>9, <1>a, <1>b, <2>2 DEF FindReport
<1>10. CASE _export_report
  BY <1>10, <1>a, <1>b, <1>f DEF _export_report, RaiseInside
<1>11. CASE intake_report
  BY <1>11, <1>a, <1>b, <1>f DEF intake_report, RaiseInside
<1>12. CASE Reload
  BY <1>12, <1>a, <1>b, <1>f DEF Reload
<1>13. CASE Return
  BY <1>13, <1>a, <1>b, <1>f DEF Return
<1>14. CASE RemoveFiles
  BY <1>14, <1>d, <1>b, <1>f DEF RemoveFiles
<1>15. CASE close
  <2>1. BridgeTypeOK'
    BY <1>15 DEF close, BridgeTypeOK, Calls, Request, Nobody
  <2>2. QED
    BY <1>15, <1>a, <1>f, <2>1 DEF close
<1>16. CASE serve_forever
  BY <1>16, <1>a, <1>c, <1>e DEF serve_forever
<1>17. CASE Interrupted
  <2>1. BridgeTypeOK'
    BY <1>17 DEF Interrupted, BridgeTypeOK, Calls, Request, Nobody
  <2>2. QED
    BY <1>17, <1>a, <1>f, <2>1 DEF Interrupted
<1>18. ASSUME NEW w \in workers, execute(w) PROVE HarmonyTypeOK'
  <2>1. [w EXCEPT !.stage = IF w.action = "observe" THEN "layout" ELSE "acting"] \in Request
    BY DEF BridgeTypeOK, Request
  <2>2. BridgeTypeOK'
    BY <1>18, <2>1 DEF execute, BridgeTypeOK, Calls, Request, Nobody
  <2>3. QED
    BY <1>18, <1>a, <1>c, <2>2 DEF execute
<1>19. ASSUME NEW w \in workers, WorkerEnds(w) PROVE HarmonyTypeOK'
  <2>1. \A v \in workers : [v EXCEPT !.stage = "torn"] \in Request /\ v \in Request
    BY DEF BridgeTypeOK, Request
  <2>2. Performed(w) \subseteq Request
    BY <2>1 DEF Performed
  <2>3. BridgeTypeOK'
    BY <1>19, <2>2 DEF WorkerEnds, BridgeTypeOK, Calls, Request, Nobody
  <2>4. QED
    BY <1>19, <1>a, <1>c, <2>3 DEF WorkerEnds
<1>20. CASE LogRotates
  BY <1>20, <1>b, <1>c DEF LogRotates, PhoneTypeOK, ReportLine, Calls
<1>21. ASSUME NEW a \in Calls, AgentReports(a) PROVE HarmonyTypeOK'
  <2>1. [agent |-> a, case |-> agents[a], at |-> clock + 1] \in ReportLine
    BY <1>21 DEF AgentReports, Working, PhoneTypeOK, ReportLine
  <2>2. PhoneTypeOK'
    BY <1>21, <2>1 DEF AgentReports, PhoneTypeOK, ReportLine, Calls
  <2>3. QED
    BY <1>21, <1>b, <1>c, <2>2 DEF AgentReports
<1>22. ASSUME NEW a \in Calls, create_session(a) PROVE HarmonyTypeOK'
  BY <1>22, <1>a, <1>c, <1>e DEF create_session
<1>23. ASSUME NEW a \in Calls, close_session(a) PROVE HarmonyTypeOK'
  BY <1>23, <1>a, <1>c, <1>e DEF close_session
<1>24. ASSUME NEW a \in Calls, NEW action \in {"observe", "act"}, do_POST(a, action)
       PROVE  HarmonyTypeOK'
  <2>1. [service |-> up, agent |-> a, action |-> action, stage |-> "admitted"] \in Request
    BY <1>24 DEF do_POST, authorized, Request
  <2>2. BridgeTypeOK'
    BY <1>24, <2>1 DEF do_POST, BridgeTypeOK, Calls, Request, Nobody
  <2>3. QED
    BY <1>24, <1>a, <1>c, <2>2 DEF do_POST
<1>25. CASE UNCHANGED harmonyVars
  BY <1>25, <1>a, <1>b, <1>c DEF harmonyVars
<1>26. CASE OfTheCall
  BY <1>26, <1>2, <1>3, <1>4, <1>5, <1>6, <1>7, <1>8, <1>9, <1>10, <1>11, <1>12, <1>13, <1>14,
     <1>15, <1>16 DEF OfTheCall
<1>27. QED
  BY <1>1, <1>26, <1>17, <1>18, <1>19, <1>20, <1>21, <1>22, <1>23, <1>24, <1>25
     DEF HarmonyNext, OfTheBridge, OfThePhone

-----------------------------------------------------------------------------
(* HarmonyRun: requests of one bridge.                                     *)

\* A worker serves the agent of its service, at most one of a service is acting,
\* and none was disturbed.
WorkersInv ==
    /\ StaleAgentsStayOut
    /\ ObservationIsOfOneScreen
    /\ \A v, w \in workers :
        /\ v.service = w.service
        /\ v.stage \in {"acting", "layout"} /\ w.stage \in {"acting", "layout"}
        => v = w

LEMMA WorkersInvStep == HarmonyTypeOK /\ WorkersInv /\ [HarmonyNext]_harmonyVars => WorkersInv'
<1> SUFFICES ASSUME HarmonyTypeOK, WorkersInv, [HarmonyNext]_harmonyVars PROVE WorkersInv'
  OBVIOUS
<1> USE DEF WorkersInv, StaleAgentsStayOut, ObservationIsOfOneScreen
<1>1. ASSUME workers' = workers PROVE WorkersInv'
  BY <1>1
<1>2. ASSUME NEW w \in workers, execute(w) PROVE WorkersInv'
  <2> DEFINE x == [w EXCEPT !.stage = IF w.action = "observe" THEN "layout" ELSE "acting"]
  <2>1. /\ workers' = (workers \ {w}) \cup {x}
        /\ x.service = w.service /\ x.agent = w.agent /\ x.stage \in {"layout", "acting"}
    BY <1>2 DEF execute, HarmonyTypeOK, BridgeTypeOK, Request
  <2>2. \A v \in workers : v.service = w.service => v.stage \notin {"acting", "layout"}
    BY <1>2 DEF execute, LockFree, Acting
  <2> HIDE DEF x
  <2>3. QED
    BY <2>1, <2>2
<1>3. ASSUME NEW w \in workers, WorkerEnds(w) PROVE WorkersInv'
  <2>1. \A v \in workers \ {w} : ~(v.service = w.service /\ v.stage = "layout")
    BY <1>3 DEF WorkerEnds
  <2>2. workers' = workers \ {w}
    BY <1>3, <2>1 DEF WorkerEnds, Performed
  <2>3. QED
    BY <2>2
<1>4. ASSUME NEW a \in Calls, NEW action \in {"observe", "act"}, do_POST(a, action) PROVE WorkersInv'
  <2> DEFINE x == [service |-> up, agent |-> a, action |-> action, stage |-> "admitted"]
  <2>1. workers' = workers \cup {x} /\ x.service = x.agent /\ x.stage = "admitted"
    BY <1>4 DEF do_POST, authorized
  <2> HIDE DEF x
  <2>2. QED
    BY <2>1
<1>5. ASSUME OfTheCall PROVE workers' = workers
  BY <1>5 DEF OfTheCall, Bind, Start, _hdc_rport, _send_case, SendKey, Launch, _run_test, FindReport,
     _export_report, intake_report, Reload, Return, RemoveFiles, close, serve_forever, bridge
<1>6. QED
  BY <1>1, <1>2, <1>3, <1>4, <1>5 DEF HarmonyNext, OfTheBridge, OfThePhone, Begin, Interrupted, LogRotates,
     AgentReports, create_session, close_session, bridge, harmonyVars

-----------------------------------------------------------------------------
(* HarmonyRun: reports and calls.                                          *)

\* The call started its agent and has not found a report yet.
Looking == doing \in {"test", "poll"} \/ (doing = "remove" /\ ~Owned /\ ~call.failed)

\* Reports are of the past; while a call looks for one, what was taken is older than it.
TakenInv ==
    /\ call.started <= clock
    /\ \A line \in log : line.at <= clock
    /\ \A i \in DOMAIN taken : taken[i].report.at <= clock
    /\ Looking => \A i \in DOMAIN taken : taken[i].report.at < call.started
    /\ ReportsAreTakenOnce

LEMMA TimesAreNumbers ==
  ASSUME HarmonyTypeOK
  PROVE  /\ clock \in Nat /\ call.started \in Nat
         /\ \A line \in log : line.at \in Nat
         /\ \A i \in DOMAIN taken : taken[i].report.at \in Nat
<1>1. \A i \in DOMAIN taken : taken[i] \in [call : Nat, report : ReportLine]
  <2>1. \A S : taken \in Seq(S) => \A i \in DOMAIN taken : taken[i] \in S
    OBVIOUS
  <2>2. QED
    BY <2>1 DEF HarmonyTypeOK, CallTypeOK
<1>2. \A line \in ReportLine : line.at \in Nat
  BY DEF ReportLine
<1>3. QED
  BY <1>1, <1>2 DEF HarmonyTypeOK, CallTypeOK, PhoneTypeOK

\* A step of a call that neither starts its agent, nor takes a report, nor goes on to look
\* for one.
LEMMA TakenStays ==
  ASSUME TakenInv, HarmonyTypeOK, taken' = taken, call'.started = call.started,
         clock' = clock \/ clock' = clock + 1, Looking' => Looking,
         \A line \in log' : line \in log \/ line.at = clock'
  PROVE  TakenInv'
BY TimesAreNumbers DEF TakenInv, ReportsAreTakenOnce

LEMMA TakenInvStep == HarmonyTypeOK /\ TakenInv /\ [HarmonyNext]_harmonyVars => TakenInv'
<1> SUFFICES ASSUME HarmonyTypeOK, TakenInv, [HarmonyNext]_harmonyVars PROVE TakenInv'
  OBVIOUS
<1> DEFINE Record == [n : Nat, kind : Kinds \cup {"owned"}, case : Cases, started : Nat,
                      failed : BOOLEAN]
<1>a. call \in Record /\ clock \in Nat
  BY DEF HarmonyTypeOK, CallTypeOK, PhoneTypeOK
<1>b. ASSUME taken' = taken, clock' = clock, log' = log, call'.started = call.started,
             Looking' => Looking
      PROVE  TakenInv'
  BY <1>b, TakenStays
<1>c. \A next : GoOn(next) => doing' = next /\ call' = call
  BY DEF GoOn
<1>d. \A next : Raise(next) => /\ doing' = next /\ call'.started = call.started /\ call'.failed
                               /\ call'.kind = call.kind
  BY <1>a DEF Raise
<1>1. ASSUME NEW kind \in Kinds, NEW c \in Cases, Begin(kind, c) PROVE TakenInv'
  <2>1. /\ call'.started = 0 /\ UNCHANGED <<taken, log, clock>>
        /\ doing' \in {"send", "execute", "bind"}
    BY <1>1 DEF Begin, phone
  <2>2. QED
    BY <1>a, <2>1 DEF TakenInv, Looking, ReportsAreTakenOnce
<1>2. CASE OfTheCall /\ ~Launch /\ ~FindReport
  <2>1. UNCHANGED <<taken, clock, log>> /\ call'.started = call.started /\ (Looking' => Looking)
    <3>1. CASE Bind
      BY <3>1, <1>c, <1>d DEF Bind, phone, Looking
    <3>2. CASE Start
      BY <3>2, <1>c, <1>d DEF Start, phone, Looking
    <3>3. CASE _hdc_rport
      BY <3>3, <1>c, <1>d DEF _hdc_rport, phone, RaiseInside, Looking
    <3>4. CASE _send_case
      BY <3>4, <1>c, <1>d DEF _send_case, RaiseInside, Looking
    <3>5. CASE SendKey
      BY <3>5, <1>c, <1>d DEF SendKey, RaiseInside, Looking
    <3>6. CASE _run_test
      BY <3>6, <1>c, <1>d DEF _run_test, phone, RaiseInside, Looking
    <3>7. CASE _export_report
      BY <3>7, <1>c, <1>d DEF _export_report, phone, RaiseInside, Looking
    <3>8. CASE intake_report
      BY <3>8, <1>c, <1>d DEF intake_report, phone, RaiseInside, Looking, Owned
    <3>9. CASE Reload
      BY <3>9, <1>c, <1>d DEF Reload, phone, Looking
    <3>10. CASE Return
      BY <3>10, <1>c, <1>d DEF Return, phone, Looking
    <3>11. CASE RemoveFiles
      BY <3>11, <1>c, <1>d DEF RemoveFiles, Looking, Owned
    <3>12. CASE close
      BY <3>12, <1>c, <1>d DEF close, phone, Looking
    <3>13. CASE serve_forever
      BY <3>13 DEF serve_forever, phone, callVars, Looking, Owned
    <3>14. QED
      BY <1>2, <3>1, <3>2, <3>3, <3>4, <3>5, <3>6, <3>7, <3>8, <3>9, <3>10, <3>11, <3>12, <3>13
         DEF OfTheCall
  <2>2. QED
    BY <1>b, <2>1
<1>3. CASE Launch
  <2>1. taken' = taken /\ log' = log /\ clock' = clock + 1
    BY <1>3 DEF Launch
  <2>2. CASE call' = [call EXCEPT !.started = clock + 1]
    <3>1. call'.started = clock + 1
      BY <1>a, <2>2
    <3>2. QED
      BY <2>1, <3>1, TimesAreNumbers DEF TakenInv, ReportsAreTakenOnce
  <2>3. CASE Raise("remove") \/ Raise("close")
    <3>1. call'.started = call.started /\ ~Looking'
      BY <2>3, <1>d DEF Looking
    <3>2. QED
      BY <2>1, <3>1, TakenStays
  <2>4. QED
    BY <1>3, <2>2, <2>3 DEF Launch, RaiseInside
<1>4. CASE FindReport
  <2>1. ASSUME NEW line \in Candidates, GoOn("export"),
               taken' = Append(taken, [call |-> call.n, report |-> line])
        PROVE  TakenInv'
    <3>1. /\ UNCHANGED <<log, clock>> /\ doing = "poll" /\ doing' = "export" /\ call' = call
      BY <1>4, <2>1 DEF FindReport, phone, GoOn
    <3>2. line.at >= call.started /\ line \in log /\ line.at <= clock /\ line.at \in Nat
      BY <2>1 DEF Candidates, TakenInv, HarmonyTypeOK, PhoneTypeOK, ReportLine
    <3>3. \A i \in DOMAIN taken : taken[i].report.at < call.started
      BY <3>1 DEF TakenInv, Looking
    <3>4. /\ taken \in Seq([call : Nat, report : ReportLine])
          /\ [call |-> call.n, report |-> line] \in [call : Nat, report : ReportLine]
      BY <3>2 DEF HarmonyTypeOK, CallTypeOK, PhoneTypeOK
    <3>5. /\ DOMAIN taken' = DOMAIN taken \cup {Len(taken) + 1}
          /\ taken'[Len(taken) + 1].report = line
          /\ \A i \in DOMAIN taken : taken'[i] = taken[i]
      <4> HIDE DEF Candidates
      <4>1. \A S, e : taken \in Seq(S) /\ e \in S =>
              /\ DOMAIN Append(taken, e) = DOMAIN taken \cup {Len(taken) + 1}
              /\ Append(taken, e)[Len(taken) + 1] = e
              /\ \A i \in DOMAIN taken : Append(taken, e)[i] = taken[i]
        OBVIOUS
      <4>2. QED
        BY <2>1, <3>4, <4>1
    <3>6. \A i \in DOMAIN taken : taken[i].report # line
      BY <1>a, <3>2, <3>3, TimesAreNumbers
    <3>7. ReportsAreTakenOnce'
      BY <3>5, <3>6 DEF TakenInv, ReportsAreTakenOnce
    <3>8. ~Looking'
      BY <3>1 DEF Looking
    <3>9. QED
      BY <3>1, <3>2, <3>5, <3>7, <3>8 DEF TakenInv
  <2>2. CASE taken' = taken /\ (RaiseInside \/ Raise("idle"))
    <3>1. call'.started = call.started /\ ~Looking'
      BY <2>2, <1>d DEF Looking, RaiseInside
    <3>2. UNCHANGED <<log, clock>>
      BY <1>4 DEF FindReport, phone
    <3>3. QED
      BY <1>b, <2>2, <3>1, <3>2
  <2>3. QED
    BY <1>4, <2>1, <2>2 DEF FindReport
<1>5. CASE Interrupted
  BY <1>5, <1>b, <1>c DEF Interrupted, Looking, phone
<1>6. ASSUME UNCHANGED callVars, clock' = clock, log' \subseteq log PROVE TakenInv'
  BY <1>6, TakenStays DEF callVars, Looking, Owned
<1>7. ASSUME NEW a \in Calls, AgentReports(a) PROVE TakenInv'
  <2>1. UNCHANGED callVars /\ clock' = clock + 1 /\ \A line \in log' : line \in log \/ line.at = clock'
    BY <1>7 DEF AgentReports
  <2>2. QED
    BY <2>1, TakenStays DEF callVars, Looking, Owned
<1>8. ASSUME UNCHANGED <<callVars, phone>> PROVE TakenInv'
  BY <1>8, <1>6 DEF phone
<1>9. ASSUME OfTheBridge \/ UNCHANGED harmonyVars PROVE TakenInv'
  BY <1>9, <1>8 DEF OfTheBridge, execute, WorkerEnds, harmonyVars
<1>10. ASSUME OfThePhone PROVE TakenInv'
  BY <1>10, <1>6, <1>7, <1>8 DEF OfThePhone, LogRotates, create_session, close_session, do_POST
<1>11. QED
  BY <1>1, <1>2, <1>3, <1>4, <1>5, <1>9, <1>10 DEF HarmonyNext, OfTheCall

-----------------------------------------------------------------------------
(* HarmonyRun: what an intake says.                                        *)

OfReport(report) == [by |-> "intake", accepted |-> Acceptable(report), report |-> report]
OfSaved(saved, binding) ==
    LET manifest == build_manifest_from_execution_record(saved.results, saved.supplied)
        said == StatusesOf(manifest)
    IN  [by |-> "reload", execution |-> saved, bound |-> binding # "foreign",
         accepted |-> load_app_test_manifest_evidence(manifest, Length, binding),
         loaded |-> said,
         replayed |-> recompute_step_gates_from_raw_trace(said, saved.decisions)]
JudgedInv ==
    \/ judged = NotJudged
    \/ \E report \in Contents : judged = OfReport(report)
    \/ \E saved \in SavedExecutions, binding \in {"current", "migrated", "foreign"} :
            judged = OfSaved(saved, binding)

\* The three differ in who judged.
LEMMA JudgedBy ==
  /\ NotJudged.by = "nobody"
  /\ \A report : OfReport(report).by = "intake"
  /\ \A saved, binding : OfSaved(saved, binding).by = "reload"
BY DEF NotJudged, OfReport, OfSaved

LEMMA JudgedInvStep == JudgedInv /\ [HarmonyNext]_harmonyVars => JudgedInv'
<1> SUFFICES ASSUME JudgedInv, [HarmonyNext]_harmonyVars PROVE JudgedInv'
  OBVIOUS
<1>1. CASE intake_report
  BY <1>1 DEF intake_report, JudgedInv, OfReport
<1>2. CASE Reload
  BY <1>2 DEF Reload, JudgedInv, OfSaved
<1>3. CASE RemoveFiles \/ Return
  BY <1>3 DEF RemoveFiles, Return, JudgedInv, NotJudged
<1>4. ASSUME judged' = judged PROVE JudgedInv'
  BY <1>4 DEF JudgedInv, NotJudged, OfReport, OfSaved
<1>5. ASSUME OfTheCall, ~intake_report, ~Reload, ~RemoveFiles, ~Return PROVE judged' = judged
  BY <1>5 DEF OfTheCall, Bind, Start, _hdc_rport, _send_case, SendKey, Launch, _run_test, FindReport,
     _export_report, close, serve_forever, callVars
<1>6. QED
  BY <1>1, <1>2, <1>3, <1>4, <1>5 DEF HarmonyNext, OfTheCall, OfTheBridge, OfThePhone, Begin,
     Interrupted, LogRotates, AgentReports, create_session, close_session, do_POST, execute,
     WorkerEnds, callVars, harmonyVars

HarmonyInv == HarmonyTypeOK /\ WorkersInv /\ TakenInv /\ JudgedInv

LEMMA HarmonyInvariant == HarmonySpec => []HarmonyInv
<1>1. HarmonyInit => HarmonyInv
  <2> SUFFICES ASSUME HarmonyInit PROVE HarmonyInv
    OBVIOUS
  <2>1. WorkersInv /\ JudgedInv
    BY DEF HarmonyInit, WorkersInv, StaleAgentsStayOut, ObservationIsOfOneScreen, JudgedInv
  <2>2. TakenInv
    BY DEF HarmonyInit, TakenInv, ReportsAreTakenOnce
  <2>3. QED
    BY <2>1, <2>2, HarmonyTypesInit DEF HarmonyInv
<1>2. HarmonyInv /\ [HarmonyNext]_harmonyVars => HarmonyInv'
  BY HarmonyTypesStep, WorkersInvStep, TakenInvStep, JudgedInvStep DEF HarmonyInv
<1>3. QED
  BY <1>1, <1>2, PTL DEF HarmonySpec

\* Whatever requests overlap, no action of the same bridge falls between the layout and the
\* picture of an observation (harmony_hdc_bridge.py: the service's lock).
THEOREM ObservationTheorem == HarmonySpec => []ObservationIsOfOneScreen
<1>1. HarmonyInv => ObservationIsOfOneScreen
  BY DEF HarmonyInv, WorkersInv
<1>2. QED
  BY <1>1, HarmonyInvariant, PTL

\* An agent that outlived its call never acts through the bridge of a later one
\* (harmony_hdc_bridge.py: the token of the service).
THEOREM StaleAgentsTheorem == HarmonySpec => []StaleAgentsStayOut
<1>1. HarmonyInv => StaleAgentsStayOut
  BY DEF HarmonyInv, WorkersInv
<1>2. QED
  BY <1>1, HarmonyInvariant, PTL

\* No two calls export the same report, whatever the log of the phone still shows
\* (harmony_native_runner.py, harmony_phone_agent_runner.py: started_at_ms).
THEOREM ReportsTakenTheorem == HarmonySpec => []ReportsAreTakenOnce
<1>1. HarmonyInv => ReportsAreTakenOnce
  BY DEF HarmonyInv, TakenInv
<1>2. QED
  BY <1>1, HarmonyInvariant, PTL

-----------------------------------------------------------------------------
\* A manifest written from a saved execution is accepted and has its statuses.
LEMMA ManifestOfSaved ==
  ASSUME NEW e \in SavedExecutions, NEW m,
         m = build_manifest_from_execution_record(e.results, e.supplied)
  PROVE  /\ StatusesOf(m) = [k \in DOMAIN e.results |-> e.results[k].status]
         /\ validate_against(m, Length)
<1> DEFINE r == e.results
           n == Len(r)
<1>1. /\ n \in 1 .. Length /\ DOMAIN r = 1 .. n
      /\ \A k \in DOMAIN r : /\ r[k].step = k /\ r[k].status \in StepStatuses
                             /\ k < n => r[k].status = "STEP_COMPLETED"
                             /\ r[k].status = "STEP_COMPLETED" => r[k].post # {}
                             /\ e.supplied # <<>> => r[k].pre \cup r[k].post \subseteq e.supplied[1]
      /\ n < Length => r[n].status # "STEP_COMPLETED"
  BY SavedAssumption
<1>2. /\ m.steps = [k \in 1 .. n |-> Evidence(r[k])]
      /\ m.frames = _frames_from_execution(r, e.supplied)
  BY <1>1 DEF build_manifest_from_execution_record
<1>3. \A result : result.status \in StepStatuses =>
        /\ to_step_result(Evidence(result)) = result.status
        /\ Earned(Evidence(result)) <=> result.status = "STEP_COMPLETED"
  BY DEF StepStatuses, Evidence, Declared, to_step_result, Earned
<1> HIDE DEF r
<1>4. StatusesOf(m) = [k \in DOMAIN r |-> r[k].status]
  BY <1>1, <1>2, <1>3 DEF StatusesOf
<1>5. n \in Nat /\ Len(m.steps) = n /\ DOMAIN m.steps = 1 .. n /\ n >= 1 /\ n <= Length
  BY <1>1, <1>2, CallsAssumption
<1>6. m.steps # <<>>
  BY <1>5
<1>7. \A k \in 1 .. n : /\ m.steps[k].step = k /\ m.steps[k].faithful
                        /\ m.steps[k].pre = r[k].pre /\ m.steps[k].post = r[k].post
  BY <1>1, <1>2 DEF Evidence
<1>8. \A k \in 1 .. n : r[k].pre \cup r[k].post \subseteq m.frames
  BY <1>1, <1>2 DEF _frames_from_execution
<1>9. \A k \in 1 .. n : Earned(m.steps[k]) <=> r[k].status = "STEP_COMPLETED"
  BY <1>1, <1>2, <1>3
<1>10. validate_against(m, Length)
  BY <1>1, <1>5, <1>6, <1>7, <1>8, <1>9 DEF validate_against
<1>11. QED
  BY <1>4, <1>10 DEF r

\* Judging saved steps again leaves blocked ones blocked, and stops.
LEMMA JudgedAgain ==
  ASSUME NEW was, NEW n \in Nat, DOMAIN was = 1 .. n, NEW decisions, NEW again,
         again = recompute_step_gates_from_raw_trace(was, decisions)
  PROVE  /\ Len(again) <= n /\ DOMAIN again \subseteq 1 .. n
         /\ \A k \in DOMAIN again :
                was[k] \in {"ENV_BLOCKED", "UNSUPPORTED"} => again[k] = was[k]
<1> DEFINE all == Replayed(was, decisions)
           stops == {k \in DOMAIN all : all[k] # "STEP_COMPLETED"}
<1>1. /\ all = [k \in 1 .. n |-> _recompute_one_step(was[k], decisions[k])]
      /\ again = IF stops = {} THEN all
                 ELSE SubSeq(all, 1, CHOOSE k \in stops : \A l \in stops : k <= l)
  BY DEF Replayed, recompute_step_gates_from_raw_trace
<1>2. \A k \in 1 .. n : was[k] \in {"ENV_BLOCKED", "UNSUPPORTED"} => all[k] = was[k]
  BY <1>1 DEF _recompute_one_step
<1>3. DOMAIN all = 1 .. n /\ Len(all) = n
  BY <1>1
<1>4. stops \subseteq 1 .. n
  BY <1>3
<1> HIDE DEF all, stops
<1>5. CASE stops = {}
  BY <1>1, <1>2, <1>3, <1>5
<1>6. CASE stops # {}
  <2> DEFINE first == CHOOSE k \in stops : \A l \in stops : k <= l
  <2>1. first \in 1 .. n
    <3>1. \E k \in stops : \A l \in stops : k <= l
      BY <1>4, <1>6, LeastPosition
    <3>2. QED
      BY <1>4, <3>1
  <2> HIDE DEF first
  <2>2. again = SubSeq(all, 1, first)
    BY <1>1, <1>6 DEF first
  <2>3. DOMAIN again = 1 .. first /\ Len(again) = first /\ \A k \in 1 .. first : again[k] = all[k]
    BY <1>3, <2>1, <2>2
  <2>4. QED
    BY <1>2, <2>1, <2>3
<1>7. QED
  BY <1>5, <1>6

\* Every execution that an executor saves is loaded back when it is bound to the test case,
\* with the statuses it had, and judging it again leaves blocked steps blocked
\* (manifest.py, raw_step_gate_replay.py).
THEOREM SavedExecutionTheorem == HarmonySpec => []SavedExecutionTellsItself
<1>1. ASSUME JudgedInv PROVE SavedExecutionTellsItself
  <2> SUFFICES ASSUME judged.by = "reload"
               PROVE  LET was == [k \in DOMAIN judged.execution.results |->
                                     judged.execution.results[k].status]
                      IN  /\ judged.accepted = judged.bound
                          /\ judged.loaded = was
                          /\ Len(judged.replayed) <= Len(was)
                          /\ \A k \in DOMAIN judged.replayed :
                              was[k] \in {"ENV_BLOCKED", "UNSUPPORTED"} => judged.replayed[k] = was[k]
    BY DEF SavedExecutionTellsItself
  <2>1. PICK e \in SavedExecutions, binding \in {"current", "migrated", "foreign"} :
            judged = OfSaved(e, binding)
    BY <1>1, JudgedBy DEF JudgedInv
  <2> DEFINE m == build_manifest_from_execution_record(e.results, e.supplied)
             was == [k \in DOMAIN e.results |-> e.results[k].status]
             again == recompute_step_gates_from_raw_trace(was, e.decisions)
  <2>2. StatusesOf(m) = was /\ validate_against(m, Length)
    BY ManifestOfSaved
  <2>3. /\ judged.execution = e /\ judged.bound = (binding # "foreign") /\ judged.loaded = was
        /\ judged.accepted = load_app_test_manifest_evidence(m, Length, binding)
        /\ judged.replayed = again
    <3>1. judged = [by |-> "reload", execution |-> e, bound |-> binding # "foreign",
                    accepted |-> load_app_test_manifest_evidence(m, Length, binding),
                    loaded |-> was, replayed |-> again]
      BY <2>1, <2>2 DEF OfSaved
    <3> HIDE DEF m, was, again
    <3>2. QED
      BY <3>1
  <2>4. judged.accepted = judged.bound
    <3> HIDE DEF m
    <3>1. load_app_test_manifest_evidence(m, Length, binding) <=> binding # "foreign"
      BY <2>2 DEF load_app_test_manifest_evidence
    <3>2. load_app_test_manifest_evidence(m, Length, binding) \in BOOLEAN
      BY DEF load_app_test_manifest_evidence
    <3>3. QED
      BY <2>3, <3>1, <3>2
  <2>5. Len(e.results) \in Nat /\ DOMAIN was = 1 .. Len(e.results) /\ Len(was) = Len(e.results)
    BY SavedAssumption, CallsAssumption
  <2>6. /\ Len(again) <= Len(was)
        /\ \A k \in DOMAIN again : was[k] \in {"ENV_BLOCKED", "UNSUPPORTED"} => again[k] = was[k]
    <3> HIDE DEF was
    <3> QED BY <2>5, JudgedAgain
  <2>7. QED
    BY <2>3, <2>4, <2>6
<1>2. QED
  BY <1>1, HarmonyInvariant, PTL DEF HarmonyInv

\* An accepted report in which no step failed accounts for every step of the test case,
\* for every report and length (harmony_intake.py, manifest.py: validate_against).
THEOREM AcceptedReportsTheorem == HarmonySpec => []AcceptedReportsAreWhole
<1>1. ASSUME JudgedInv PROVE AcceptedReportsAreWhole
  <2> DEFINE manifest == judged.report.manifest
             said == StatusesOf(manifest)
             saved == [steps |-> [k \in DOMAIN said |-> [status |-> said[k]]]]
  <2> SUFFICES ASSUME judged.by = "intake", judged.accepted, VerifyStatuses(saved) = NoFailure,
                      NEW k \in 1 .. Length
               PROVE  /\ k \in DOMAIN manifest.steps /\ Earned(manifest.steps[k])
                      /\ manifest.steps[k].post # {}
    BY DEF AcceptedReportsAreWhole
  <2>1. PICK report \in Contents :
            judged = OfReport(report)
    BY <1>1, JudgedBy DEF JudgedInv
  <2>2. validate_against(manifest, Length) /\ report.manifest = manifest
    BY <2>1 DEF Acceptable, OfReport
  <2>3. \A i \in DOMAIN manifest.steps : said[i] = "STEP_COMPLETED"
    <3>1. DOMAIN said = DOMAIN manifest.steps
      BY DEF StatusesOf
    <3>2. DOMAIN saved.steps = DOMAIN said
          /\ \A i \in DOMAIN said : saved.steps[i].status = said[i]
      BY DEF StatusesOf
    <3> HIDE DEF saved, said
    <3>3. \A i \in DOMAIN saved.steps : saved.steps[i].status = "STEP_COMPLETED"
      BY DEF VerifyStatuses, NoFailure
    <3>4. QED
      BY <3>1, <3>2, <3>3
  <2>4. \A i \in DOMAIN manifest.steps : Earned(manifest.steps[i])
    BY <2>3 DEF StatusesOf, to_step_result
  <2>5. Len(manifest.steps) \in Nat /\ DOMAIN manifest.steps = 1 .. Len(manifest.steps)
    BY <2>2, ContentsAssumption
  <2> HIDE DEF manifest
  <2>6. Len(manifest.steps) # 0
    BY <2>2, <2>5 DEF validate_against
  <2>7. Len(manifest.steps) = Length
    BY <2>2, <2>4, <2>5, <2>6, CallsAssumption DEF validate_against
  <2>8. QED
    BY <2>2, <2>4, <2>5, <2>7 DEF validate_against
<1>2. QED
  BY <1>1, HarmonyInvariant, PTL DEF HarmonyInv
=============================================================================

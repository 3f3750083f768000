------------------------ MODULE VerificationRunner ------------------------
(***************************************************************************)
(* MobiAgentVerificationRunner.execute of                                  *)
(* app_test_agent/verification_runner.py: after the business steps it      *)
(* walks a read-only route on the same device, takes a burst of frames     *)
(* after every step and says whether what it saw is enough for a verdict.  *)
(*                                                                         *)
(* A route step is [action, retries, target, allowed]; its target is the   *)
(* set of markers that name the surface it should reach.  A screen is a    *)
(* record with at least [markers, blocked].  What the device answers is    *)
(* chosen by \E.  MaxBurst offsets of one burst are counted from 0.        *)
(***************************************************************************)
EXTENDS Naturals, Sequences, FiniteSets

CONSTANTS Routes,        \* what effective_verification_steps may return
          MaxSteps,      \* verification_policy.max_steps
          RetryBudget,   \* verification_policy.max_retries
          BurstLength,   \* the length of the observation schedule
          Screens        \* what a capture may show

ReadOnlyTouches == {"NAVIGATE", "BACK", "REFRESH", "SCROLL"}
Actions == ReadOnlyTouches \cup {"WAIT", "OBSERVE"}

ASSUME RouteAssumption ==
    /\ Routes \subseteq Seq([action : Actions, retries : Nat, target : SUBSET STRING,
                             allowed : BOOLEAN])
    /\ MaxSteps \in Nat /\ RetryBudget \in Nat
ASSUME ScheduleAssumption == BurstLength \in Nat \ {0}
ASSUME ScreensAssumption ==
    \A s \in Screens : s.markers \in SUBSET STRING /\ s.blocked \in BOOLEAN

VARIABLES route, pc, index, attempt, retryBudget,
          frames,        \* [id, screen, offset, stable], in the order of capture
          nextFrame, burst,
          results,       \* [status, attempts, reached, frames, complete]
          audits,        \* [step, dispatch, retried]
          dispatched,    \* history: route indexes whose input may have reached the app
          outcome        \* what execute() returns

walk == <<route, index, attempt, retryBudget>>
record == <<frames, nextFrame, burst>>
runnerVars == <<pc, walk, record, results, audits, dispatched, outcome>>

RunStatuses == {"NOT_RUN", "COMPLETED", "ROUTE_FAILED", "ENV_BLOCKED", "UNSUPPORTED"}
Pending == [status |-> "PENDING", reached |-> FALSE, sufficient |-> FALSE]
Returned(status) == [status |-> status, reached |-> FALSE, sufficient |-> FALSE]

RunnerInit ==
    /\ route \in Routes /\ pc = "start" /\ index = 1 /\ attempt = 1 /\ retryBudget = RetryBudget
    /\ frames = <<>> /\ nextFrame = 1 /\ burst = 0
    /\ results = <<>> /\ audits = <<>> /\ dispatched = <<>>
    /\ outcome = Pending

Step == route[index]
Touching(k) == route[k].action \in ReadOnlyTouches

-----------------------------------------------------------------------------
(* Before the route starts.                                                *)

Admissible == Len(route) <= MaxSteps /\ \A k \in DOMAIN route : route[k].allowed

\* No steps: not run.  Too many, or one that could write: unsupported.
Refuse ==
    /\ pc = "start" /\ (route = <<>> \/ ~Admissible)
    /\ outcome' = Returned(IF route = <<>> THEN "NOT_RUN" ELSE "UNSUPPORTED")
    /\ pc' = "end"
    /\ UNCHANGED <<walk, record, results, audits, dispatched>>

SetupFails ==
    /\ pc = "start" /\ route # <<>> /\ Admissible
    /\ outcome' = Returned("ENV_BLOCKED")
    /\ pc' = "end"
    /\ UNCHANGED <<walk, record, results, audits, dispatched>>

InitialCapture(screen) ==
    /\ pc = "start" /\ route # <<>> /\ Admissible
    /\ frames' = <<[id |-> 0, screen |-> screen, offset |-> 0, stable |-> FALSE]>>
    /\ IF screen.blocked
       THEN pc' = "end" /\ outcome' = Returned("ENV_BLOCKED")
       ELSE pc' = "step" /\ UNCHANGED outcome
    /\ UNCHANGED <<walk, nextFrame, burst, results, audits, dispatched>>

-----------------------------------------------------------------------------
(* One step of the route.                                                  *)

Failed(status, attempts) ==
    [status |-> status, attempts |-> attempts, reached |-> "NONE", frames |-> {},
     complete |-> FALSE]

TimesOut ==
    /\ pc = "step"
    /\ results' = Append(results, Failed("ROUTE_FAILED", 0))
    /\ pc' = "finish"
    /\ UNCHANGED <<walk, record, audits, dispatched, outcome>>

BeginStep ==
    /\ pc = "step"
    /\ attempt' = 1 /\ pc' = "act"
    /\ UNCHANGED <<route, index, retryBudget, record, results, audits, dispatched, outcome>>

\* attempts_allowed = 1 + min(retries, budget when the step began) comes to
\* the same: the budget falls by one with every retry.
RetryAllowed == attempt <= Step.retries /\ retryBudget > 0

\* The target of a navigation is not found, or not proven to be read-only.
FailsBeforeDispatch ==
    /\ pc = "act" /\ Step.action = "NAVIGATE"
    /\ audits' = Append(audits, [step |-> index, dispatch |-> "NOT_DISPATCHED",
                                 retried |-> RetryAllowed])
    /\ IF RetryAllowed
       THEN /\ retryBudget' = retryBudget - 1 /\ attempt' = attempt + 1
            /\ UNCHANGED <<pc, results>>
       ELSE /\ results' = Append(results, Failed("ROUTE_FAILED", attempt))
            /\ pc' = "finish" /\ UNCHANGED <<retryBudget, attempt>>
    /\ UNCHANGED <<route, index, record, dispatched, outcome>>

\* The device raises: the input may have arrived, so it is never repeated.
DispatchUncertain ==
    /\ pc = "act" /\ Touching(index)
    /\ dispatched' = Append(dispatched, index)
    /\ audits' = Append(audits, [step |-> index, dispatch |-> "UNKNOWN", retried |-> FALSE])
    /\ results' = Append(results, Failed("ROUTE_FAILED", attempt))
    /\ pc' = "finish"
    /\ UNCHANGED <<walk, record, outcome>>

Acts ==
    /\ pc = "act"
    /\ dispatched' = IF Touching(index) THEN Append(dispatched, index) ELSE dispatched
    /\ audits' = Append(audits,
           [step |-> index, retried |-> FALSE,
            dispatch |-> IF Touching(index) THEN "DISPATCHED" ELSE "NO_DEVICE_DISPATCH"])
    /\ burst' = 0 /\ pc' = "observe"
    /\ UNCHANGED <<walk, frames, nextFrame, results, outcome>>

\* A frame is stable when it shows what the frame captured before it showed.
Captures(screen) ==
    /\ pc = "observe" /\ burst < BurstLength
    /\ frames' = Append(frames, [id |-> nextFrame, screen |-> screen, offset |-> burst,
                                 stable |-> screen = frames[Len(frames)].screen])
    /\ nextFrame' = nextFrame + 1 /\ burst' = burst + 1
    /\ UNCHANGED <<pc, walk, results, audits, dispatched, outcome>>

CaptureFails ==
    /\ pc = "observe" /\ burst < BurstLength
    /\ nextFrame' = nextFrame + 1 /\ burst' = burst + 1
    /\ UNCHANGED <<pc, walk, frames, results, audits, dispatched, outcome>>

PostFrames == {i \in DOMAIN frames : frames[i].id >= nextFrame - BurstLength}
ShowsTarget(target, i) == target \cap frames[i].screen.markers # {}

\* Mutant: only the last frame of the burst is searched for a blocker.
BlockedAtLast(shot) == shot # {} /\ frames[Len(frames)].screen.blocked

BlockedSeen(shot) == \E i \in shot : frames[i].screen.blocked

\* _surface_reached over the burst: None without markers, else any of them.
Reached(target, shot) ==
    IF target = {} THEN "NONE"
    ELSE IF \E i \in shot : ShowsTarget(target, i) THEN "TRUE" ELSE "FALSE"

Observed(status, shot, reached) ==
    [status |-> status, attempts |-> attempt, reached |-> reached,
     frames |-> {frames[i].id : i \in shot},
     complete |-> \A o \in 0..BurstLength - 1 : \E i \in shot : frames[i].offset = o]

JudgeBurst ==
    /\ pc = "observe" /\ burst = BurstLength
    /\ LET shot == PostFrames
       IN  IF BlockedSeen(shot)
           THEN /\ results' = Append(results, Observed("ENV_BLOCKED", shot, "NONE"))
                /\ outcome' = Returned("ENV_BLOCKED")
                /\ pc' = "end" /\ UNCHANGED index
           ELSE /\ UNCHANGED outcome
                /\ IF shot = {}
                   THEN /\ results' = Append(results, Failed("ROUTE_FAILED", attempt))
                        /\ pc' = "finish" /\ UNCHANGED index
                   ELSE /\ results' = Append(results, Observed("COMPLETED", shot,
                                                   Reached(Step.target, shot)))
                        /\ pc' = IF index = Len(route) THEN "finish" ELSE "step"
                        /\ index' = IF index = Len(route) THEN index ELSE index + 1
    /\ UNCHANGED <<route, attempt, retryBudget, record, audits, dispatched>>

-----------------------------------------------------------------------------
(* The result of the walk.                                                 *)

AllStepsCompleted ==
    Len(results) = Len(route) /\ \A k \in DOMAIN results : results[k].status = "COMPLETED"

\* Mutant: captures that failed are not missed.
BurstsSeen == results # <<>>

BurstsComplete == results # <<>> /\ \A k \in DOMAIN results : results[k].complete

\* The last step that names a surface decides; without one, what the last
\* frame shows of the last target of the route.
RouteReached ==
    LET said == {k \in DOMAIN results : results[k].reached # "NONE"}
        named == {k \in DOMAIN route : route[k].target # {}}
    IN  IF said # {}
        THEN results[CHOOSE k \in said : \A j \in said : j <= k].reached = "TRUE"
        ELSE named # {} /\
             ShowsTarget(route[CHOOSE k \in named : \A j \in named : j <= k].target, Len(frames))

Finish ==
    /\ pc = "finish"
    /\ outcome' = [status |-> IF AllStepsCompleted THEN "COMPLETED" ELSE "ROUTE_FAILED",
                   reached |-> RouteReached,
                   sufficient |-> AllStepsCompleted /\ RouteReached /\ BurstsComplete]
    /\ pc' = "end"
    /\ UNCHANGED <<walk, record, results, audits, dispatched>>

RunnerNext ==
    \/ Refuse \/ SetupFails \/ TimesOut \/ BeginStep
    \/ FailsBeforeDispatch \/ DispatchUncertain \/ Acts
    \/ CaptureFails \/ JudgeBurst \/ Finish
    \/ \E screen \in Screens : InitialCapture(screen) \/ Captures(screen)

RunnerSpec == RunnerInit /\ [][RunnerNext]_runnerVars

-----------------------------------------------------------------------------
(* Properties.                                                             *)

Inputs == {k \in DOMAIN route : Touching(k)}
Obstructed == \E i \in DOMAIN frames : frames[i].screen.blocked

\* The visit keeps its promise to the app: an input that may have arrived
\* is never sent again (verification_runner.py:685-738), none follows a
\* frame that shows a blocker, and "COMPLETED" means the whole route.
Promise == INSTANCE VerificationPromise WITH
    plan <- Inputs, sent <- dispatched, blocked <- Obstructed, verdict <- outcome.status
PromiseHolds == Promise!PromiseSpec

Retried == {i \in DOMAIN audits : audits[i].retried}

\* Only an attempt that touched nothing is repeated, and all the repetitions
\* of a route together stay within verification_policy.max_retries.
RetriesWithinBudget ==
    /\ \A i \in DOMAIN audits : audits[i].retried => audits[i].dispatch = "NOT_DISPATCHED"
    /\ Cardinality(Retried) <= RetryBudget

\* "Sufficient" means that every step of the route was looked at in a full
\* burst of its own, nothing blocked the view, and the last step that names
\* a surface showed it.
SufficientMeansSeen ==
    outcome.sufficient =>
        /\ \A k \in DOMAIN route : \A o \in 0..BurstLength - 1 :
               \E i \in DOMAIN frames :
                   frames[i].offset = o /\ frames[i].id \in results[k].frames
        /\ \A k, l \in DOMAIN route : k # l => results[k].frames \cap results[l].frames = {}
        /\ ~Obstructed
        /\ \E k \in DOMAIN route :
               /\ \A l \in k + 1..Len(route) : route[l].target = {}
               /\ \E i \in DOMAIN frames :
                      frames[i].id \in results[k].frames /\ ShowsTarget(route[k].target, i)
=============================================================================

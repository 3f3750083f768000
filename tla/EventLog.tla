------------------------------ MODULE EventLog ------------------------------
(***************************************************************************)
(* The event trace a recorded run is judged on, event_log.py: how a trace  *)
(* directory becomes a sequence of events, how the observations of the     *)
(* checkers are attached to its frames, what a trace must satisfy to be    *)
(* replayed, and replay.py, which judges the whole trace, its part up to   *)
(* the declared end and its part up to the end of the grace window.        *)
(*                                                                         *)
(* The sequence number of an event is its position.  Frames and actions    *)
(* count from 1, and Unset stands for an index that is not given.  Hashes, *)
(* references and sizes are left out, and so is the mode in which windows  *)
(* are times: a trace made from a directory has no times.                  *)
(***************************************************************************)
EXTENDS TemporalAggregation, SequencesExt

Unset == 0

FrameEvidenceEvent(i) == [kind |-> "FRAME_EVIDENCE", at |-> i]
ActionEvidenceEvent(i) == [kind |-> "ACTION_EVIDENCE", at |-> i]

\* An observation is [criterion, frame, seen], where seen is an Observation.
CriterionObservationEvent(o) ==
    [kind |-> "CRITERION_OBSERVATION", at |-> o.frame, of |-> o.criterion, seen |-> o.seen]

TerminationEvent(done, grace) ==
    [kind |-> "TERMINATION", done |-> done, grace |-> grace, quality |-> "UNKNOWN"]

FramesOf(events) == {e.at : e \in {f \in ToSet(events) : f.kind = "FRAME_EVIDENCE"}}
ObservedIn(events) == {e \in ToSet(events) : e.kind = "CRITERION_OBSERVATION"}

\* A grace window follows a declared end and ends no earlier.
ValidTermination(e) == e.grace # Unset => e.done # Unset /\ e.done <= e.grace

\* DurableEventTrace.validate: there is one termination, and it is the last event.
Valid(events) ==
    /\ events # <<>>
    /\ \A n \in DOMAIN events : (events[n].kind = "TERMINATION") = (n = Len(events))
    /\ ValidTermination(Last(events))

\* Frames and actions by index, the frame before the action it led to.  What was seen
\* after the end the agent declared is its grace window.
trace_bundle_to_event_trace(frames, actions, done) ==
    LET Told(i) == (IF i \in frames THEN <<FrameEvidenceEvent(i)>> ELSE <<>>)
                     \o (IF i \in actions THEN <<ActionEvidenceEvent(i)>> ELSE <<>>)
        last == Max(frames \cup {Unset})
        grace == IF done # Unset /\ last > done THEN last ELSE Unset
    IN Append(FlattenSeq([i \in 1..Max(frames \cup actions \cup {Unset}) |-> Told(i)]),
              TerminationEvent(done, grace))

\* No observation of an unknown criterion or of a frame the trace does not have, and
\* none of a criterion on a frame that has been judged already.
Attachable(events, criteria, observations) ==
    \A o \in observations :
        /\ o.criterion \in criteria /\ o.frame \in FramesOf(events)
        /\ ~\E e \in ObservedIn(events) : e.of = o.criterion /\ e.at = o.frame
        /\ ~\E p \in observations \ {o} : p.criterion = o.criterion /\ p.frame = o.frame

\* The observations of a frame follow it.
attach_criterion_observations(events, observations) ==
    LET Seen(i) == {CriterionObservationEvent(o) : o \in {p \in observations : p.frame = i}}
        Told(e) == IF e.kind = "FRAME_EVIDENCE" THEN <<e>> \o SetToSeq(Seen(e.at)) ELSE <<e>>
    IN FlattenSeq([n \in DOMAIN events |-> Told(events[n])])

_termination(events, onTime) ==
    [events EXCEPT ![Len(events)].quality = IF onTime THEN "ON_TIME" ELSE "PREMATURE_DONE"]

-----------------------------------------------------------------------------
(* replay.py.                                                              *)

_last_frame(events) ==
    Max(FramesOf(events) \cup {e.at : e \in ObservedIn(events)} \cup {Last(events).done})

\* What was seen of criterion k up to frame end, in the order of the frames; a frame is
\* judged once by a criterion (Attachable).
_ordered_observations(events, k, end) ==
    LET At(i) == {e \in ObservedIn(events) : e.of = k /\ e.at = i}
    IN FlattenSeq([i \in 1..end |->
           IF At(i) = {} THEN <<>> ELSE <<(CHOOSE e \in At(i) : TRUE).seen>>])

_criterion_results(contract, events, profile, end) ==
    Replay(contract,
           [k \in DOMAIN contract.semantics |-> _ordered_observations(events, k, end)],
           profile)

_outcome_at(contract, events, profile, frame) ==
    IF frame = Unset THEN "NONE"
    ELSE OutcomeVerdict(contract, _criterion_results(contract, events, profile, frame), profile)

\* The report of a trace: the statuses at the end of its window, which is the grace
\* window if there is one and the whole trace otherwise, and the outcome at three times.
Report(contract, events, profile) ==
    LET end == Last(events)
        statuses == _criterion_results(contract, events, profile,
                        IF end.grace # Unset THEN end.grace ELSE _last_frame(events))
    IN [statuses |-> statuses,
        outcome |-> OutcomeVerdict(contract, statuses, profile),
        atDone |-> _outcome_at(contract, events, profile, end.done),
        afterGrace |-> _outcome_at(contract, events, profile, end.grace),
        quality |-> end.quality]
=============================================================================

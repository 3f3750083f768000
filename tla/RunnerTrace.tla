---------------------------- MODULE RunnerTrace ----------------------------
(***************************************************************************)
(* The stock MobiAgent runner, its trace directory and the audit source    *)
(* that watches the directory of the last task from a thread of its own.   *)
(*                                                                         *)
(* The runner asks the model for an action, saves the frame the action was *)
(* chosen on (a picture, and the UI tree as .xml on Android, as .json and  *)
(* .xml on Harmony), performs the action and records it; actions.json and  *)
(* react.json are written when the task ends, and an exception ends the    *)
(* process without them.  A file is absent, torn while it is written, good *)
(* or bad (complete, not parsable).  Every task has a new directory.  A    *)
(* point on the screen is named by the step whose target it is.            *)
(*                                                                         *)
(* The source lists the directory, then looks for the two final files, and *)
(* only then reads the frames of the listing: the runner writes between    *)
(* any two of these.  Its events go through a bounded queue.               *)
(* MaxSteps is MAX_STEPS of the source; MaxTasks bounds the task list and  *)
(* MaxErrors the polls that raise.                                         *)
(***************************************************************************)
EXTENDS Naturals, Sequences, FiniteSets, SequencesExt, FiniteSetsExt

CONSTANTS MaxTasks, MaxSteps, Capacity, MaxErrors

ASSUME RunnerBounds ==
    /\ MaxTasks \in Nat \ {0} /\ MaxSteps \in Nat \ {0}
    /\ Capacity \in Nat \ {0} /\ MaxErrors \in Nat

VARIABLES device,     \* "Android" or "Harmony"
          run,        \* [task, pc, act]: the task, where its loop is, the action chosen
          actions,    \* the records of this task: [type, point]
          focus,      \* _mobiagent_input_focus, an attribute of the device object
          typed,      \* where the text just typed went: [at, aimed, known]
          aimed,      \* the target touched for typing, if no other touch followed
          known,      \* the same, forgotten when an application is started or stopped
          disk,       \* the directory of this task: [frames, actions, react]
          source,     \* the watcher: [pc, on, listing, final, errors]
          emitted,    \* _emitted_frames
          sequence,   \* _next_sequence
          queue, seen \* the events in the channel, and those drained from it

runner == <<device, run, actions, focus, typed, aimed, known, disk>>
audit == <<source, emitted, sequence, queue, seen>>
vars == <<runner, audit>>

Tasks == 1..MaxTasks
Frames == 1..MaxSteps
Artifacts == {"jpg", "json", "xml"}
NoPoint == <<>>
NotTyped == [at |-> NoPoint, aimed |-> NoPoint, known |-> NoPoint]
Empty == [frames |-> [i \in Frames |-> [k \in Artifacts |-> "absent"]],
          actions |-> "absent", react |-> "absent"]

\* "touch" stands for click, swipe, long_press, press_back, press_home and open_app;
\* "wait" for wait and for info and call_user answered at a terminal; "end" for done,
\* abort and a question nobody can answer.
ActionTypes == {"touch", "click_input", "input", "wait", "end"}

Init ==
    /\ device \in {"Android", "Harmony"}
    /\ run = [task |-> 1, pc |-> "start", act |-> "none"]
    /\ actions = <<>>
    /\ focus = NoPoint /\ aimed = NoPoint /\ known = NoPoint /\ typed = NotTyped
    /\ disk = Empty
    /\ source = [pc |-> "idle", on |-> TRUE, listing |-> [i \in {} |-> {}],
                 final |-> FALSE, errors |-> 0]
    /\ emitted = {} /\ sequence = 0 /\ queue = <<>> /\ seen = <<>>

-----------------------------------------------------------------------------
(* The runner.                                                             *)

image_index == Len(actions) + 1

\* The next file after k of a frame, on this device; "act" when there is none.
AfterArtifact(k) ==
    CASE k = "jpg" -> IF device = "Android" THEN "xml" ELSE "json"
      [] k = "json" -> "xml"
      [] k = "xml" -> "act"

\* device.app_start of the task's application: the device object, and the focus
\* it remembers, are those of the task before.
app_start ==
    /\ run.pc = "start"
    /\ run' = [run EXCEPT !.pc = "look"]
    /\ known' = NoPoint
    /\ UNCHANGED <<device, actions, focus, aimed, typed, disk>>

\* One turn of the loop: a screenshot and the model's action, or the end at the limit.
Decide ==
    /\ run.pc = "look"
    /\ typed' = NotTyped
    /\ IF Len(actions) >= MaxSteps
       THEN run' = [run EXCEPT !.pc = "actions"]
       ELSE \E act \in ActionTypes : run' = [run EXCEPT !.pc = "jpg", !.act = act]
    /\ UNCHANGED <<device, actions, focus, aimed, known, disk>>

Saved(k) == disk.frames[image_index][k]

\* Opening a file leaves it torn.
OpenArtifact ==
    /\ run.pc \in Artifacts /\ Saved(run.pc) = "absent"
    /\ disk' = [disk EXCEPT !.frames[image_index][run.pc] = "torn"]
    /\ UNCHANGED <<device, run, actions, focus, typed, aimed, known>>

\* A dump that is no JSON leaves a .json of plain text and no .xml on Harmony; one that
\* cannot be projected leaves an empty .xml and turns the .json into plain text again.
CloseArtifact ==
    /\ run.pc \in Artifacts /\ Saved(run.pc) = "torn"
    /\ \E content \in {"good", "bad"} :
        /\ content = "bad" => run.pc # "jpg"
        /\ disk' = [disk EXCEPT !.frames[image_index] =
             [k \in Artifacts |-> IF k = run.pc \/ (content = "bad" /\ @[k] # "absent" /\ k = "json")
                                  THEN content ELSE @[k]]]
        /\ run' = [run EXCEPT !.pc = IF content = "bad" THEN "act" ELSE AfterArtifact(run.pc)]
    /\ UNCHANGED <<device, actions, focus, typed, aimed, known>>

Record(point) == actions' = Append(actions, [type |-> run.act, point |-> point])

\* As handle_touch_action when the remembered focus outlives the touch.
handle_touch_action_keeping_focus ==
    /\ run.pc = "act" /\ run.act = "touch"
    /\ aimed' = NoPoint /\ known' = NoPoint
    /\ Record(NoPoint)
    /\ run' = [run EXCEPT !.pc = "look"]
    /\ UNCHANGED <<device, focus, typed, disk>>

\* The handlers that clear the focus before they touch the device.
handle_touch_action ==
    /\ run.pc = "act" /\ run.act = "touch"
    /\ focus' = NoPoint /\ aimed' = NoPoint /\ known' = NoPoint
    /\ Record(NoPoint)
    /\ run' = [run EXCEPT !.pc = "look"]
    /\ UNCHANGED <<device, typed, disk>>

\* A point is touched to give it the focus, and the text goes there.
TypeAt(point) ==
    /\ Record(point)
    /\ focus' = point
    /\ run' = [run EXCEPT !.pc = "look"]
    /\ UNCHANGED <<device, disk>>

handle_click_input_action ==
    /\ run.pc = "act" /\ run.act = "click_input"
    /\ LET point == <<run.task, image_index>> IN
        /\ TypeAt(point)
        /\ aimed' = point /\ known' = point
        /\ typed' = [at |-> point, aimed |-> point, known |-> point]

\* The target of the last click_input that no later touch has invalidated.
previous_click_input_point(records) ==
    LET relevant == {i \in DOMAIN records : records[i].type \in {"touch", "click_input"}}
    IN IF relevant = {} \/ records[Max(relevant)].type = "touch"
       THEN NoPoint ELSE records[Max(relevant)].point

FocusPoint ==
    LET previous == previous_click_input_point(actions)
    IN IF previous # NoPoint THEN previous ELSE focus

handle_input_action ==
    /\ run.pc = "act" /\ run.act = "input" /\ FocusPoint # NoPoint
    /\ TypeAt(FocusPoint)
    /\ typed' = [at |-> FocusPoint, aimed |-> aimed, known |-> known]
    /\ UNCHANGED <<aimed, known>>

\* Neither a wait nor the end of the loop touches the device.
handle_other_action ==
    /\ run.pc = "act" /\ run.act \in {"wait", "end"}
    /\ Record(NoPoint)
    /\ run' = [run EXCEPT !.pc = IF run.act = "end" THEN "actions" ELSE "look"]
    /\ UNCHANGED <<device, focus, typed, aimed, known, disk>>

\* An exception of the application, the model, the device or a rejected target,
\* and text for an unknown focus: nothing catches it, the process ends.
Die ==
    /\ run.pc \in {"start", "look", "act"}
    /\ run' = [run EXCEPT !.pc = "died"]
    /\ typed' = NotTyped
    /\ UNCHANGED <<device, actions, focus, aimed, known, disk>>

\* actions.json and then react.json, each opened and then complete.
WriteFinalFiles ==
    /\ run.pc \in {"actions", "react"}
    /\ \/ disk[run.pc] = "absent" /\ disk' = [disk EXCEPT ![run.pc] = "torn"] /\ UNCHANGED run
       \/ /\ disk[run.pc] = "torn" /\ disk' = [disk EXCEPT ![run.pc] = "good"]
          /\ run' = [run EXCEPT !.pc = IF run.pc = "actions" THEN "react" ELSE "stop"]
    /\ UNCHANGED <<device, actions, focus, typed, aimed, known>>

\* The application is stopped; the next task of the list gets a new directory.
app_stop ==
    /\ run.pc = "stop"
    /\ known' = NoPoint
    /\ \/ /\ run.task < MaxTasks
          /\ run' = [task |-> run.task + 1, pc |-> "start", act |-> "none"]
          /\ actions' = <<>> /\ disk' = Empty
       \/ /\ run.task = MaxTasks
          /\ run' = [run EXCEPT !.pc = "ended"]
          /\ UNCHANGED <<actions, disk>>
    /\ UNCHANGED <<device, focus, typed, aimed>>

RunnerStep ==
    /\ \/ app_start \/ Decide \/ OpenArtifact \/ CloseArtifact
       \/ handle_touch_action \/ handle_click_input_action \/ handle_input_action
       \/ handle_other_action \/ Die \/ WriteFinalFiles \/ app_stop
    /\ UNCHANGED audit

-----------------------------------------------------------------------------
(* The audit source.                                                       *)

Watched == IF run.task = MaxTasks THEN disk ELSE Empty
finalized == source.pc = "finalized"
Listed == DOMAIN source.listing
Pending == Listed \ emitted

\* A poll of the running thread begins with the listing of the directory.
artifact_map ==
    /\ source.pc = "idle" /\ source.on
    /\ LET present(i) == {k \in Artifacts : Watched.frames[i][k] # "absent"} IN
        source' = [source EXCEPT !.pc = "final",
                                 !.listing = [i \in {j \in Frames : present(j) # {}} |-> present(i)]]
    /\ UNCHANGED <<emitted, sequence, queue, seen>>

final_bundle_if_ready ==
    /\ source.pc = "final"
    /\ source' = [source EXCEPT !.pc = "frames",
                                !.final = Watched.actions = "good" /\ Watched.react = "good"]
    /\ UNCHANGED <<emitted, sequence, queue, seen>>

\* What is on the disk now of the files the listing showed for frame i.
Read(i) == [k \in Artifacts |-> IF k \in source.listing[i] THEN Watched.frames[i][k] ELSE "absent"]

frame_ready_without_finalization(i) ==
    /\ Read(i)["jpg"] = "good" /\ Read(i)["xml"] = "good"
    /\ Read(i)["json"] \in {"absent", "good"}

Ready(i) == source.final \/ i < Max(Listed) \/ frame_ready_without_finalization(i)

publish_nowait(event) == Len(queue) < Capacity /\ queue' = Append(queue, event)

FrameContext(i) ==
    [index |-> sequence, frame |-> i, got |-> Read(i), final |-> source.final,
     previous |-> IF emitted = {} THEN 0 ELSE Max(emitted)]

\* As EmitFrame when a frame counts as emitted before it is published.
EmitFrameBeforePublishing ==
    /\ source.pc = "frames" /\ Pending # {}
    /\ LET i == Min(Pending) IN
        /\ Ready(i)
        /\ emitted' = emitted \cup {i} /\ sequence' = sequence + 1
        /\ \/ publish_nowait(FrameContext(i)) /\ UNCHANGED source
           \/ /\ Len(queue) = Capacity
              /\ source' = [source EXCEPT !.pc = "idle"]
              /\ UNCHANGED queue
    /\ UNCHANGED seen

\* The frames of the listing in ascending order; a full queue ends the poll.
EmitFrame ==
    /\ source.pc = "frames" /\ Pending # {}
    /\ LET i == Min(Pending) IN
        /\ Ready(i)
        /\ \/ /\ publish_nowait(FrameContext(i))
              /\ emitted' = emitted \cup {i} /\ sequence' = sequence + 1
              /\ UNCHANGED source
           \/ /\ Len(queue) = Capacity
              /\ source' = [source EXCEPT !.pc = "idle"]
              /\ UNCHANGED <<queue, emitted, sequence>>
    /\ UNCHANGED seen

\* Only the last frame of the listing can be unready.
FramesDone == \A i \in Pending : ~Ready(i)

Finalized == [index |-> sequence, frame |-> 0, got |-> Empty.frames[1], final |-> TRUE, previous |-> 0]

\* As EndPoll when the source counts as finalized although the queue was full.
EndPollOnce ==
    /\ source.pc = "frames" /\ FramesDone
    /\ \/ /\ source.final /\ Listed \subseteq emitted
          /\ publish_nowait(Finalized) \/ (Len(queue) = Capacity /\ UNCHANGED queue)
          /\ sequence' = sequence + 1
          /\ source' = [source EXCEPT !.pc = "finalized"]
       \/ /\ ~(source.final /\ Listed \subseteq emitted)
          /\ source' = [source EXCEPT !.pc = "idle"]
          /\ UNCHANGED <<queue, sequence>>
    /\ UNCHANGED <<emitted, seen>>

EndPoll ==
    /\ source.pc = "frames" /\ FramesDone
    /\ \/ /\ source.final /\ Listed \subseteq emitted
          /\ publish_nowait(Finalized)
          /\ sequence' = sequence + 1
          /\ source' = [source EXCEPT !.pc = "finalized"]
       \/ /\ source.final /\ Listed \subseteq emitted => Len(queue) = Capacity
          /\ source' = [source EXCEPT !.pc = "idle"]
          /\ UNCHANGED <<queue, sequence>>
    /\ UNCHANGED <<emitted, seen>>

\* A poll that raises is counted, and the next one begins anew.
SourceError ==
    /\ source.pc \in {"final", "frames"} /\ source.errors < MaxErrors
    /\ source' = [source EXCEPT !.pc = "idle", !.errors = @ + 1]
    /\ UNCHANGED <<emitted, sequence, queue, seen>>

stop ==
    /\ source.on
    /\ source' = [source EXCEPT !.on = FALSE]
    /\ UNCHANGED <<emitted, sequence, queue, seen>>

Drain ==
    /\ queue # <<>>
    /\ seen' = Append(seen, Head(queue)) /\ queue' = Tail(queue)
    /\ UNCHANGED <<source, emitted, sequence>>

poll_once == artifact_map \/ final_bundle_if_ready \/ EmitFrame \/ EndPoll \/ SourceError

AuditStep == (poll_once \/ stop \/ Drain) /\ UNCHANGED runner

Next == RunnerStep \/ AuditStep

\* The watching thread polls on while it is not stopped, and the channel has a consumer.
Spec ==
    /\ Init /\ [][Next]_vars
    /\ WF_vars(poll_once /\ UNCHANGED runner) /\ WF_vars(Drain /\ UNCHANGED runner)

-----------------------------------------------------------------------------
(* What should hold of them.                                               *)

published == seen \o queue
IsFrame(e) == e.frame # 0

\* A consumer sees the events numbered without a gap, every frame at most once and in
\* ascending order with its true predecessor, and the finalized event once and last:
\* full queues and polls that raise notwithstanding.
EventsInOrder ==
    \A n \in DOMAIN published :
        /\ published[n].index = n - 1
        /\ IsFrame(published[n]) =>
            /\ published[n].previous = IF n = 1 THEN 0 ELSE published[n - 1].frame
            /\ published[n].previous < published[n].frame
        /\ ~IsFrame(published[n]) => n = Len(published)

\* The content (size, digest, readability) an event tells of a file is the content the
\* file keeps, however the writing of the runner and the poll interleave; and what is
\* told before the end of the run leaves out no file the frame ends up with.
ContextsAreSettled ==
    \A n \in DOMAIN published :
        LET e == published[n] IN
        IsFrame(e) =>
            \A k \in Artifacts : \/ e.got[k] = Watched.frames[e.frame][k]
                                 \/ e.got[k] = "absent" /\ e.final

\* Text goes to the target of the last click_input that no later touch of the same
\* process has invalidated: the records of the task and the attribute of the device
\* object, of which the first one wins, never disagree with it.
InputIsAimed == typed.at = typed.aimed

\* A run whose two final files are complete is told to the consumer as finalized, if the
\* watcher is not stopped: no full queue and no raising poll loses the end.
SavedRunIsFinalized ==
    (Watched.react = "good") ~> (~source.on \/ (seen # <<>> /\ ~IsFrame(seen[Len(seen)])))

\* "refusing to type into unknown focus" (mobiagent.py:2025): text only goes to a target
\* touched since the application was started.  It does not hold: see README.md.
InputHasAKnownFocus == typed.at = typed.known

\* "Relative artifact refs keep the complete screenshot and hierarchy available to a
\* later classifier" (runner_source.py:62): a finalized trace has told every frame with
\* all its files.  It does not hold: see README.md.
FinalizedTraceIsComplete ==
    finalized => \A i \in Frames : Watched.frames[i]["jpg"] = "good" =>
        \E n \in DOMAIN published : published[n].frame = i /\ published[n].got = Watched.frames[i]
=============================================================================
